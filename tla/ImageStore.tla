----------------------------- MODULE ImageStore -----------------------------
(***************************************************************************)
(* What BinSection promises, without PE files: each path holds an image or *)
(* none.  An image is the sequence of its sections as a process sees them  *)
(* once they are mapped: an address, a size and the bytes.  An operation   *)
(* fixes its goal from the image at one path, may destroy what is at its   *)
(* target, and may put the goal there; it says "done" only of a target     *)
(* that holds the goal.                                                    *)
(***************************************************************************)
EXTENDS Integers, Sequences

CONSTANTS Paths, NoImage

VARIABLES
  view,     (* the image at each path                                      *)
  goal,     (* what the operation is to produce                            *)
  inp,      (* path of the image the operation starts from                 *)
  target,   (* path of the image it writes                                 *)
  phase,    (* "idle", "reading" or "writing"                              *)
  outcome   (* how the last operation ended                                *)

vars == <<view, goal, inp, target, phase, outcome>>

(* One section more: it overlaps no other and holds null bytes.            *)
Grown(old, new) ==
  LET n == Len(old) + 1 IN
  /\ Len(new) = n
  /\ SubSeq(new, 1, n - 1) = old
  /\ \A k \in 1..(n - 1) : old[k].va + old[k].vsz <= new[n].va
  /\ new[n].vsz > 0
  /\ new[n].mem = [k \in 1..new[n].vsz |-> 0]

Shrunk(old, new) == old # <<>> /\ new = SubSeq(old, 1, Len(old) - 1)

Init ==
  /\ phase = "idle" /\ outcome = "none" /\ goal = NoImage
  /\ inp \in Paths /\ target \in Paths

Begin ==
  /\ phase = "idle"
  /\ phase' = "reading"
  /\ outcome' = "running"
  /\ inp' \in Paths /\ target' \in Paths
  /\ UNCHANGED <<view, goal>>

Fix ==
  /\ phase = "reading"
  /\ view[inp] # NoImage
  /\ phase' = "writing"
  /\ \/ goal' = NoImage             \* nothing to add, or no section to remove
     \/ /\ goal' # NoImage
        /\ Grown(view[inp], goal') \/ Shrunk(view[inp], goal')
  /\ UNCHANGED <<view, inp, target, outcome>>

Damage ==
  /\ phase = "writing"
  /\ view' = [view EXCEPT ![target] = NoImage]
  /\ UNCHANGED <<goal, inp, target, phase, outcome>>

Produce ==
  /\ phase = "writing"
  /\ goal # NoImage
  /\ view' = [view EXCEPT ![target] = goal]
  /\ UNCHANGED <<goal, inp, target, phase, outcome>>

End(result) ==
  /\ phase # "idle"
  /\ result = "done" => phase = "writing" /\ view[target] = goal /\ goal # NoImage
  /\ phase' = "idle"
  /\ outcome' = result
  /\ UNCHANGED <<view, goal, inp, target>>

Next == Begin \/ Fix \/ Damage \/ Produce \/ \E r \in {"done", "failed"} : End(r)

Spec == Init /\ [][Next]_vars
=============================================================================
