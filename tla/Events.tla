------------------------------- MODULE Events -------------------------------
(***************************************************************************)
(* ObjectEvent (events.hpp): an event keeps a list of callbacks and calls   *)
(* them in turn when it is raised.  A callback may do with the events what  *)
(* it likes while the raise that called it is under way: subscribe, raise,  *)
(* copy one event to another or move it.                                    *)
(*                                                                          *)
(* A callback is the number of its subscription.  The iterator of a raise   *)
(* stays in the list it began in: `where' says which event has that list    *)
(* now, as a move takes it along.  A list that is replaced under an         *)
(* iterator, and an iterator that comes to the end of a list that is not    *)
(* its event's any more, are undefined behaviour; the model stops there.    *)
(* Unsubscribing (std::function has no ==) and the plain Event do not       *)
(* compile.  The argument `sender' is not modelled.                         *)
(***************************************************************************)
EXTENDS Naturals, Sequences, SequencesExt

CONSTANTS Objects,          (* the events                                   *)
          MaxSubscriptions, (* how many subscriptions are made              *)
          MaxLength,        (* how long a list gets by copying              *)
          MaxDepth          (* how many raises are nested                   *)

ASSUME EventsAssumption == MaxSubscriptions \in Nat /\ MaxLength \in Nat /\ MaxDepth \in Nat

VARIABLES callbacks, (* callbacks[e]: the list of event e                    *)
          made,      (* how many subscriptions were made                     *)
          stack,     (* the raises under way, the innermost last             *)
          returned,  (* the raise that ended last, and the list it left      *)
          undefined

vars == <<callbacks, made, stack, returned, undefined>>

Lists == Seq(1..MaxSubscriptions)

(* A raise: the event, where its list is, which element is running (0       *)
(* before the first), the list at the beginning and what was called.        *)
Raises == [event : Objects, where : Objects, at : Nat, began : Lists, called : Lists]
NoRaise == [began |-> <<>>, called |-> <<>>, left |-> <<>>]

TypeOK == /\ callbacks \in [Objects -> Lists]
          /\ made \in 0..MaxSubscriptions
          /\ stack \in Seq(Raises)
          /\ returned \in [began : Lists, called : Lists, left : Lists]
          /\ undefined \in BOOLEAN

Init == /\ callbacks = [e \in Objects |-> <<>>]
        /\ made = 0
        /\ stack = <<>>
        /\ returned = NoRaise
        /\ undefined = FALSE

-----------------------------------------------------------------------------
(* Client code runs outside of any raise, and in a callback. *)
ClientRuns == ~undefined /\ (stack # <<>> => Last(stack).at > 0)

(* Mutant: a callback is put in front of the others. *)
SubscribeInFront(e) ==
  /\ ClientRuns /\ made < MaxSubscriptions /\ Len(callbacks[e]) < MaxLength
  /\ made' = made + 1
  /\ callbacks' = [callbacks EXCEPT ![e] = <<made'>> \o @]
  /\ UNCHANGED <<stack, returned, undefined>>

Subscribe(e) == /\ ClientRuns /\ made < MaxSubscriptions /\ Len(callbacks[e]) < MaxLength
                /\ made' = made + 1
                /\ callbacks' = [callbacks EXCEPT ![e] = Append(@, made')]
                /\ UNCHANGED <<stack, returned, undefined>>

Raise(e) == /\ ClientRuns /\ Len(stack) < MaxDepth
            /\ stack' = Append(stack, [event |-> e, where |-> e, at |-> 0,
                                       began |-> callbacks[e], called |-> <<>>])
            /\ UNCHANGED <<callbacks, made, returned, undefined>>

(* The callback that runs returns, and the next is called. *)
CallNext == LET r == Last(stack)
                list == callbacks[r.where]
            IN /\ ~undefined /\ stack # <<>> /\ r.at < Len(list)
               /\ stack' = Append(Front(stack), [r EXCEPT !.at = @ + 1,
                                                          !.called = Append(@, list[r.at + 1])])
               /\ UNCHANGED <<callbacks, made, returned, undefined>>

(* The iterator is compared with the end of its event's list. *)
RaiseReturns == LET r == Last(stack)
                IN /\ ~undefined /\ stack # <<>> /\ r.at = Len(callbacks[r.where])
                   /\ \/ /\ r.where = r.event
                         /\ stack' = Front(stack)
                         /\ returned' = [began |-> r.began, called |-> r.called,
                                         left |-> callbacks[r.event]]
                         /\ UNCHANGED undefined
                      \/ /\ r.where # r.event
                         /\ undefined' = TRUE
                         /\ UNCHANGED <<stack, returned>>
                   /\ UNCHANGED <<callbacks, made>>

(* A callback throws through the raise; what raised it may catch that. *)
RaiseThrows == /\ ClientRuns /\ stack # <<>>
               /\ stack' = Front(stack)
               /\ UNCHANGED <<callbacks, made, returned, undefined>>

(* Whether a raise is under way in the list that e has. *)
InUse(e) == \E k \in DOMAIN stack : stack[k].where = e

(* Construction of f from e, where f was nothing before, and assignment;    *)
(* an assignment to itself changes nothing.                                 *)
Copy(e, f) == /\ ClientRuns /\ e # f
              /\ callbacks' = [callbacks EXCEPT ![f] = callbacks[e]]
              /\ undefined' = InUse(f)
              /\ UNCHANGED <<made, stack, returned>>

(* The list goes to f with the iterators in it, and e has an empty one. *)
Move(e, f) == /\ ClientRuns /\ e # f
              /\ callbacks' = [callbacks EXCEPT ![f] = callbacks[e], ![e] = <<>>]
              /\ stack' = [k \in DOMAIN stack |->
                             IF stack[k].where = e THEN [stack[k] EXCEPT !.where = f]
                                                   ELSE stack[k]]
              /\ undefined' = InUse(f)
              /\ UNCHANGED <<made, returned>>

Next == \/ \E e \in Objects : Subscribe(e) \/ Raise(e)
        \/ \E e, f \in Objects : Copy(e, f) \/ Move(e, f)
        \/ CallNext \/ RaiseReturns \/ RaiseThrows

Spec == Init /\ [][Next]_vars
-----------------------------------------------------------------------------
(* A raise that returns has called what was subscribed when it began and    *)
(* then what was subscribed meanwhile, each once and in order, whatever      *)
(* raises, copies and moves its callbacks made; one under way has called     *)
(* the beginning of the list, wherever that has been moved.                 *)
CalledInTurn ==
  /\ returned.called = returned.left
  /\ IsPrefix(returned.began, returned.called)
  /\ ~undefined => \A k \in DOMAIN stack : IsPrefix(stack[k].called, callbacks[stack[k].where])
=============================================================================
