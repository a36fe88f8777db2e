---------------------------- MODULE SampleChannel ----------------------------
(***************************************************************************)
(* What VehicleSignalEvent promises to the application that subscribes: a  *)
(* first-in first-out channel that keeps at least the `capacity` newest    *)
(* samples nobody has taken.  It may lose the oldest sample it holds, one  *)
(* per arrival and only for want of room; it never reorders, repeats or    *)
(* invents one.  Samples are numbered in the order the receive thread      *)
(* offers them.                                                            *)
(***************************************************************************)
EXTENDS Naturals, Sequences

VARIABLES
  window,     (* the samples the channel holds, oldest first       *)
  offered,    (* the number of the newest sample offered           *)
  capacity    (* the room the subscriber asked for                 *)

vars == <<window, offered, capacity>>

Init == window = <<>> /\ offered = 0 /\ capacity \in Nat \ {0}

(* A sample nobody subscribes to passes by. *)
Pass == offered' = offered + 1 /\ UNCHANGED <<window, capacity>>

Keep == /\ offered' = offered + 1
        /\ window' = Append(window, offered')
        /\ UNCHANGED capacity

KeepAndForgetOldest ==
  /\ Len(window) >= capacity
  /\ offered' = offered + 1
  /\ window' = Append(Tail(window), offered')
  /\ UNCHANGED capacity

Take == \E k \in 0..Len(window) :
          /\ window' = SubSeq(window, k + 1, Len(window))
          /\ UNCHANGED <<offered, capacity>>

Resize == capacity' \in Nat \ {0} /\ UNCHANGED <<window, offered>>

Next == Pass \/ Keep \/ KeepAndForgetOldest \/ Take \/ Resize

Spec == Init /\ [][Next]_vars
=============================================================================
