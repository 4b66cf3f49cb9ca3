---------------------------- MODULE MCSupplyGate ----------------------------
(* One image built here on a pulled base that is also run as it is.  The    *)
(* compose files are the ones a bump goes through: another digest under the *)
(* same tag, another tag, and two that supply refuses.                      *)
EXTENDS SupplyGate

CONSTANTS app, base, bumped, old, fixed, oldApp, fixedApp, scratch, libc, patched, flaw

MCContents ==
  [d \in {old, fixed, oldApp, fixedApp, scratch} |->
     CASE d \in {old, oldApp} -> {libc} [] d \in {fixed, fixedApp} -> {patched} [] OTHER -> {}]
MCBuildOn ==
  [d \in {old, fixed, oldApp, fixedApp, scratch} |->
     CASE d \in {old, oldApp} -> oldApp [] d \in {fixed, fixedApp} -> fixedApp [] OTHER -> d]
MCAffected == [v \in {flaw} |-> {libc}]

Ref(n, d)    == [name |-> n, digest |-> d]
Spine(r)     == {[image |-> Ref(app, Built), from |-> r], [image |-> r, from |-> None]}
Unnamed(r)   == Spine(r) \cup {[image |-> None, from |-> r]}
MCComposes   == {Spine(Ref(base, old)), Spine(Ref(bumped, fixed)), Unnamed(Ref(base, fixed)),
                 Spine(Ref(base, scratch))}

\* Pulled images only.
Pulled(r)  == {[image |-> r, from |-> None]}
MCPulled   == {Pulled(Ref(base, old)), Pulled(Ref(bumped, fixed)),
               Pulled(Ref(base, fixed)) \cup {[image |-> None, from |-> Ref(base, fixed)]}}
=============================================================================
