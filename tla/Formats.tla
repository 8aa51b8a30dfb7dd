------------------------------ MODULE Formats ------------------------------
(***************************************************************************)
(* One frontmatter block is written and read back (module Yaml).           *)
(***************************************************************************)
EXTENDS Yaml

CONSTANTS Fronts,   \* the maps that are written
          MaxDepth  \* max_yaml_depth

VARIABLES written, readBack

ASSUME FormatsAssumption ==
    /\ MaxDepth \in Nat
    /\ \A m \in Fronts : m \in Values /\ m.type = "map" /\ Nesting[m] <= MaxDepth + 1

NotYet == [ok |-> FALSE, v |-> Bare("not read"), next |-> 0]

FormatsInit == written \in Fronts /\ readBack = NotYet

RoundTrip ==
    /\ readBack = NotYet
    /\ readBack' = Parse(Emit(written), MaxDepth)
    /\ UNCHANGED written

Compared == readBack # NotYet /\ UNCHANGED <<written, readBack>>

FormatsNext == RoundTrip \/ Compared

FormatsSpec == FormatsInit /\ [][FormatsNext]_<<written, readBack>>

-----------------------------------------------------------------------------
\* The validator's parser reads every block that the exporter's emitter writes as the value
\* that was written: every string, whatever is to be escaped in it, and every nesting of
\* maps in lists in maps that claims give rise to.
ReadsBackWhatItWrote ==
    readBack # NotYet => readBack.ok /\ readBack.v = written
=============================================================================
