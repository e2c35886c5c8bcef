----------------------------- MODULE AtomicFile -----------------------------
(* What agent/internal/auth/store.go promises of the state file: a Persist    *)
(* replaces it as a whole or leaves it alone, and a load sees one of the      *)
(* images it has held, whole, whatever happens meanwhile.                     *)
CONSTANTS Thread, Image, None

VARIABLES file,   \* the image the file holds
          op      \* what each thread is in the middle of

Idle         == [kind |-> "idle", image |-> None]
Replacing(v) == [kind |-> "replace", image |-> v]
Seeing(v)    == [kind |-> "see", image |-> v]

Init == /\ file \in Image
        /\ op = [t \in Thread |-> Idle]

StartReplace(t, v) == /\ op[t] = Idle
                      /\ op' = [op EXCEPT ![t] = Replacing(v)]
                      /\ UNCHANGED file

Replace(t) == /\ op[t].kind = "replace"
              /\ file' = op[t].image
              /\ op' = [op EXCEPT ![t] = Idle]

\* The image a load returns is the one the file holds when it begins.
See(t) == /\ op[t] = Idle
          /\ op' = [op EXCEPT ![t] = Seeing(file)]
          /\ UNCHANGED file

\* A load that returns, a failed Persist, or the death of a process with all
\* its threads: nothing changes but what was going on.
End(S) == /\ op' = [t \in Thread |-> IF t \in S THEN Idle ELSE op[t]]
          /\ UNCHANGED file

Next == \/ \E t \in Thread : \/ \E v \in Image : StartReplace(t, v)
                             \/ Replace(t)
                             \/ See(t)
        \/ \E S \in SUBSET Thread : End(S)

Spec == Init /\ [][Next]_<<file, op>>
=============================================================================
