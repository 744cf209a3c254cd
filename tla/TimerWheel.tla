----------------------------- MODULE TimerWheel -----------------------------
(***************************************************************************)
(* The wheel that shuts idle connections down (TimerWheel.h, TimerWheel.cc)*)
(* in a server that runs on its base loop alone: with io threads, two of   *)
(* them may be in the wheel at once, which nothing guards (see README).    *)
(*                                                                         *)
(* An Entry is <<connection, number>>: the buckets hold all the strong     *)
(* references to it, context_ a weak one.  Time is what the code compares: *)
(* stamped and ticked say what has happened in the current second of       *)
(* time(nullptr), taken to be the loop's second too.  The loop ticks at    *)
(* most once a second, and late when its callbacks take long.              *)
(***************************************************************************)
EXTENDS Integers, Sequences, FiniteSets

CONSTANTS
  Conns,         \* connections, each made once
  idleSeconds_,  \* the buckets of the wheel; 0 would mean no wheel
  ContextSets    \* how often the user puts a value of its own in context_

ASSUME IdleSecondsAssumption == idleSeconds_ \in Nat \ {0}
ASSUME ContextSetsAssumption == ContextSets \in Nat

VARIABLES
  wheel_,      \* the buckets, the front first
  context_,    \* number of the Entry a connection's context_ refers to, or 0
  stamped,     \* connections whose Entry has lastTickTime_ = now
  ticked,      \* the wheel has been advanced in this second
  alive,       \* connections somebody holds
  opened,      \* connections made so far
  shut,        \* connections the wheel has called shutdown() on
  idle,        \* seconds since the connection's last activity, up to idleSeconds_
  ticks,       \* ticks since then, likewise
  contextSets  \* how often the user has set context_

histVars == <<shut, idle, ticks>>
vars == <<wheel_, context_, stamped, ticked, alive, opened, histVars, contextSets>>

EntryNumbers == 1..(ContextSets + 1)
Entries == Conns \X EntryNumbers

InitWith(n) ==
  /\ wheel_ = [i \in 1..n |-> {}]
  /\ context_ = [c \in Conns |-> 0]
  /\ stamped = {} /\ ticked = FALSE
  /\ alive = {} /\ opened = {} /\ shut = {}
  /\ idle = [c \in Conns |-> 0] /\ ticks = [c \in Conns |-> 0]
  /\ contextSets = 0

\* Mutant: one bucket too many.
InitOneBucketMore == InitWith(idleSeconds_ + 1)

Init == InitWith(idleSeconds_)

-----------------------------------------------------------------------------
Held(e, buckets) == \E i \in DOMAIN buckets : e \in buckets[i]

\* An Entry for a connection: any number but those in use.
NewEntries(c) == {e \in {c} \X EntryNumbers : ~Held(e, wheel_)}

InsertAt(i, e) ==
  /\ wheel_' = [wheel_ EXCEPT ![i] = @ \cup {e}]
  /\ context_' = [context_ EXCEPT ![e[1]] = e[2]]
  /\ stamped' = stamped \cup {e[1]}

UpdateAt(i, c) ==
  LET entry == <<c, context_[c]>>
  IN IF Held(entry, wheel_)
     THEN IF c \in stamped THEN UNCHANGED <<wheel_, context_, stamped>> ELSE InsertAt(i, entry)
     ELSE \E e \in NewEntries(c) : InsertAt(i, e)

\* Mutant: the bucket next to expire is taken for the one furthest from it.
UpdateInFront(c) == UpdateAt(1, c)

\* An Entry that still lives is used again, once a second at most; otherwise
\* a new one is made.
UpdateConnection(c) == UpdateAt(Len(wheel_), c)

\* newConnection() and the message callback update the wheel.
Active(c) ==
  /\ UpdateConnection(c)
  /\ idle' = [idle EXCEPT ![c] = 0] /\ ticks' = [ticks EXCEPT ![c] = 0]
  /\ UNCHANGED <<ticked, shut, contextSets>>

NewConnection(c) ==
  /\ c \notin opened
  /\ alive' = alive \cup {c} /\ opened' = opened \cup {c}
  /\ Active(c)

Message(c) == c \in alive /\ Active(c) /\ UNCHANGED <<alive, opened>>

\* Nobody holds the connection any more; its Entry's reference is weak.
Free(c) ==
  /\ c \in alive /\ alive' = alive \ {c}
  /\ context_' = [context_ EXCEPT ![c] = 0]
  /\ UNCHANGED <<wheel_, stamped, ticked, opened, histVars, contextSets>>

\* TcpConnection::setContext is public, for values of the user.
UserSetsContext(c) ==
  /\ c \in alive /\ contextSets < ContextSets
  /\ contextSets' = contextSets + 1
  /\ context_' = [context_ EXCEPT ![c] = 0]
  /\ UNCHANGED <<wheel_, stamped, ticked, alive, opened, histVars>>

-----------------------------------------------------------------------------
Older(f) == [c \in Conns |-> IF f[c] < idleSeconds_ THEN f[c] + 1 ELSE f[c]]

SecondPasses ==
  /\ ticked' = FALSE /\ stamped' = {}
  /\ idle' = Older(idle)
  /\ UNCHANGED <<wheel_, context_, alive, opened, shut, ticks, contextSets>>

\* ~Entry: shutdown() on the connection, if the weak reference finds it.
ShutDownAll(entries) == shut' = shut \cup {c \in alive : \E n \in EntryNumbers : <<c, n>> \in entries}

\* Mutant: an Entry goes without a word to its connection.
ForgetAll(entries) == shut' = shut

\* What the front bucket held is destroyed unless another bucket holds it too.
Expire(entries) == ShutDownAll(entries)

\* timerCallback_ of the base loop.
OnTimerTick ==
  /\ ~ticked /\ ticked' = TRUE
  /\ wheel_' = Append(Tail(wheel_), {})
  /\ Expire({e \in Head(wheel_) : ~Held(e, Tail(wheel_))})
  /\ ticks' = Older(ticks)
  /\ UNCHANGED <<context_, stamped, alive, opened, idle, contextSets>>

-----------------------------------------------------------------------------
Next ==
  \/ \E c \in Conns : NewConnection(c) \/ Message(c) \/ Free(c) \/ UserSetsContext(c)
  \/ SecondPasses \/ OnTimerTick

Spec == Init /\ [][Next]_vars

-----------------------------------------------------------------------------
(* Properties.                                                             *)

\* The wheel always has as many buckets as the timeout has seconds.
TypeOK ==
  /\ wheel_ \in [1..idleSeconds_ -> SUBSET Entries]
  /\ context_ \in [Conns -> EntryNumbers \cup {0}]
  /\ stamped \subseteq opened
  /\ ticked \in BOOLEAN /\ contextSets \in 0..ContextSets
  /\ alive \subseteq opened /\ opened \subseteq Conns /\ shut \subseteq opened
  /\ idle \in [Conns -> 0..idleSeconds_] /\ ticks \in [Conns -> 0..idleSeconds_]

\* Activity resets the timeout (TimerWheel.h:41, TimerWheel.cc:64): the wheel
\* shuts down only a connection that has been silent for all but one of its
\* seconds; the tick and the clock are not aligned, hence the one.  A user that
\* has put something else in context_ has cut the wheel off the old Entry.
ActivityResetsTimeout ==
  [][contextSets = 0 => \A c \in shut' \ shut : idle[c] >= idleSeconds_ - 1]_vars

\* k is the last bucket that holds e, or 0 when none does.
IsLast(e, k, buckets) ==
  /\ k = 0 \/ e \in buckets[k]
  /\ \A j \in 1..idleSeconds_ : j > k => e \notin buckets[j]

TicksLeft == [e \in Entries |-> CHOOSE k \in 0..idleSeconds_ : IsLast(e, k, wheel_)]

Countdowns == INSTANCE Countdown WITH
  Timers <- Entries, Timeout <- idleSeconds_, left <- TicksLeft

\* The wheel is a countdown for each Entry, whatever the buckets it is in: the
\* last of them decides, the tick that empties it destroys the Entry, and
\* ~Entry shuts down the connection it finds and no other.
ImplementsCountdown == Countdowns!Spec

\* A silent connection is shut down at the latest by the tick whose number is
\* the timeout.
ShutWithinTimeout == \A c \in alive \ shut : ticks[c] < idleSeconds_

=============================================================================
