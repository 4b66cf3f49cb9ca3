--------------------------- MODULE MCStackLifecycle ---------------------------
(* Small instances of StackLifecycle: four variables, of which one is read   *)
(* at every start, and a handful of .env files that differ in one of them,   *)
(* or in how it is written.                                                  *)
EXTENDS StackLifecycle

CONSTANTS t1, t2

MCSymbols  == {"ann", "bob", "s3cret", "0ther", "platform", "airflow", "runs", "key", ":", " ",
               "$", "'", "\"", " # note"}
MCDeclared == {"POSTGRES_USER", "POSTGRES_PASSWORD", "POSTGRES_DB", "AIRFLOW_FERNET_KEY"}
MCSpecial  == {"$"}
MCPlatform == <<"platform">>
MCAirflow  == <<"airflow">>
MCNote     == <<" # note">>
MCMark     == [none |-> <<>>, single |-> <<"'">>, double |-> <<"\"">>]

Secret == <<"s3cret">>

\* Nobody defines the variable that Dollar names.
Dollar == <<"0ther", ":", "$", "key">>
MCTexts ==
  {Blank, <<"ann">>, <<"bob">>, Secret, <<"0ther">>, <<"0ther", ":">>, Dollar, MCPlatform,
   <<"runs">>, <<"key">>}
MCExpand ==
  [quote \in {"none", "single", "double"} |->
     [text \in MCTexts |->
        IF quote # "single" /\ text = Dollar THEN <<"0ther", ":">> ELSE text]]

Put(text)          == [quote |-> "none", text |-> text, note |-> FALSE]
Quote(quote, text) == [quote |-> quote, text |-> text, note |-> FALSE]
Noted(text)        == [quote |-> "none", text |-> text, note |-> TRUE]

File(user, password, db, key) ==
  [v \in MCDeclared |-> CASE v = "POSTGRES_USER"      -> Put(user)
                          [] v = "POSTGRES_PASSWORD"  -> password
                          [] v = "POSTGRES_DB"        -> Put(db)
                          [] v = "AIRFLOW_FERNET_KEY" -> Put(key)]

Key == <<"key">>

AnnsFile    == File(<<"ann">>, Put(Secret), MCPlatform, Key)
BobsFile    == File(<<"bob">>, Put(Secret), MCPlatform, Key)
NewDatabase == File(<<"ann">>, Put(Secret), <<"runs">>, Key)
NoKey       == File(<<"ann">>, Put(Secret), MCPlatform, Blank)

\* Other ways to write a password: between single quotes, as the name of a
\* variable and more, with a note behind it.
Literal      == File(<<"ann">>, Quote("single", Dollar), MCPlatform, Key)
Interpolates == File(<<"ann">>, Quote("double", Dollar), MCPlatform, Key)
NotedSecret  == File(<<"ann">>, Noted(Secret), MCPlatform, Key)

OneTerminal  == {t1}
TwoTerminals == {t1, t2}

\* Nobody exported anything.
NoExports == [t \in Terminals |-> [v \in MCDeclared |-> Unset]]

\* The second terminal exports a password of its own.
SecondExports ==
  [t \in Terminals |->
     [v \in MCDeclared |-> IF t = t2 /\ v = "POSTGRES_PASSWORD" THEN <<"0ther">> ELSE Unset]]

AllEdits   == {AnnsFile, BobsFile, NoKey, Literal, Interpolates}
WithNote   == {AnnsFile, NotedSecret}
RenamedDb  == {AnnsFile, NewDatabase}
WaysToPut  == {AnnsFile, NotedSecret, Interpolates}
JustOne    == {AnnsFile}
=============================================================================
