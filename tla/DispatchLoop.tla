---------------------------- MODULE DispatchLoop ----------------------------
(***************************************************************************)
(* DispatchLoop (SimpleDispatch.hpp): the parallel loop of the context     *)
(* search.  dispatch_apply, which is external, runs the strides on a pool  *)
(* of threads in any order and returns when all are over; a stride calls   *)
(* func for its iterations one after the other.                            *)
(*                                                                         *)
(* func writes probabilityMap[i] or modelList[i] without a lock, and the   *)
(* caller reads all of them afterwards.                                    *)
(***************************************************************************)
EXTENDS Integers

CONSTANTS
  Threads,      \* threads of the dispatch queue
  Iterations,   \* bitLength, or modelListSize
  Stride        \* 32, or 1

ASSUME LoopAssumption ==
  Threads # {} /\ Iterations \in Nat /\ Stride \in Nat \ {0}

Majors == 0 .. ((Iterations + Stride - 1) \div Stride) - 1
Items == 0 .. Iterations - 1
None == -1

VARIABLES
  waiting,    \* strides no thread has taken yet
  major,      \* the first iteration of the stride a thread is in, or None
  minor,      \* minorIt
  inside,     \* the iteration a thread is in func for, or None
  calls,      \* history: how often func has been called for an iteration
  returned    \* dispatch_apply has returned

loopvars == <<waiting, major, minor, inside, calls, returned>>

LoopInit ==
  /\ waiting = Majors
  /\ major = [t \in Threads |-> None]
  /\ minor = [t \in Threads |-> 0]
  /\ inside = [t \in Threads |-> None]
  /\ calls = [i \in Items |-> 0]
  /\ returned = (Iterations = 0)

\* dispatch_apply hands a stride to a thread.
Take(t) ==
  /\ major[t] = None
  /\ \E m \in waiting :
       /\ waiting' = waiting \ {m}
       /\ major' = [major EXCEPT ![t] = m * Stride]
  /\ minor' = [minor EXCEPT ![t] = 0]
  /\ UNCHANGED <<inside, calls, returned>>

InStride(t) == major[t] # None /\ inside[t] = None

\* Mutant of InRange: <= for <.
InRangeLate(t) == minor[t] <= Stride /\ major[t] + minor[t] < Iterations

\* Mutant of InRange: the break comes an iteration early.
InRangeEarly(t) == minor[t] < Stride /\ major[t] + minor[t] < Iterations - 1

\* The loop's condition and its break: "if (iter>=iterations) break".
InRange(t) == minor[t] < Stride /\ major[t] + minor[t] < Iterations

Call(t) ==
  /\ InStride(t) /\ InRange(t)
  /\ inside' = [inside EXCEPT ![t] = major[t] + minor[t]]
  /\ calls' = [calls EXCEPT ![major[t] + minor[t]] = @ + 1]
  /\ UNCHANGED <<waiting, major, minor, returned>>

CallOver(t) ==
  /\ inside[t] # None
  /\ inside' = [inside EXCEPT ![t] = None]
  /\ minor' = [minor EXCEPT ![t] = @ + 1]
  /\ UNCHANGED <<waiting, major, calls, returned>>

\* Mutant of StrideOver: past the end the loop goes on without counting.
StrideOverSpins(t) ==
  /\ InStride(t) /\ ~InRange(t)
  /\ IF minor[t] = Stride THEN major' = [major EXCEPT ![t] = None]
     ELSE UNCHANGED major
  /\ UNCHANGED <<waiting, minor, inside, calls, returned>>

StrideOver(t) ==
  /\ InStride(t) /\ ~InRange(t)
  /\ major' = [major EXCEPT ![t] = None]
  /\ UNCHANGED <<waiting, minor, inside, calls, returned>>

Return ==
  /\ ~returned
  /\ waiting = {} /\ \A t \in Threads : major[t] = None
  /\ returned' = TRUE
  /\ UNCHANGED <<waiting, major, minor, inside, calls>>

LoopOver == returned /\ UNCHANGED loopvars

LoopNext ==
  \/ \E t \in Threads : Take(t) \/ Call(t) \/ CallOver(t) \/ StrideOver(t)
  \/ Return \/ LoopOver

\* dispatch_apply keeps at least the calling thread at work, and func, a loop
\* over the data, returns.
LoopFairness ==
  /\ WF_loopvars(\E t \in Threads : Take(t) \/ Call(t) \/ CallOver(t) \/ StrideOver(t))
  /\ WF_loopvars(Return)

LoopSpec == LoopInit /\ [][LoopNext]_loopvars /\ LoopFairness

-----------------------------------------------------------------------------
(* Properties.                                                             *)

\* No two threads are ever in func for the same iteration, nor is it called
\* again later: the unlocked writes to probabilityMap and modelList are no race.
NoRace ==
  /\ \A t, u \in Threads : t # u /\ inside[t] # None => inside[t] # inside[u]
  /\ \A i \in Items : calls[i] <= 1

\* When the caller goes on every iteration has been done: min_element looks at
\* no candidate that is still being estimated.
AllDone ==
  returned => \A i \in Items : calls[i] = 1 /\ \A t \in Threads : inside[t] # i

\* The loop comes to its end, a last stride that is not full included.
Returns == <>returned

=============================================================================
