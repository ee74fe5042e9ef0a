---------------------------- MODULE MCSVFPickle ----------------------------
(* Small instances of SVFPython that remember what the object held while a  *)
(* pickle was being made.                                                   *)
EXTENDS MCSVFPython

VARIABLE moments    \* for each thread, what was held at the moments of its __getstate__

Pickling(t) == call[t].name = "getstate" /\ call[t].begun

Remember ==
    moments' = [t \in Thread |-> IF Pickling(t)' THEN moments[t] \cup {Held'} ELSE {}]

PickleSpec ==
    /\ PyInit /\ moments = [t \in Thread |-> {}]
    /\ [][PyNext /\ Remember]_<<pyVars, moments>>


=============================================================================
