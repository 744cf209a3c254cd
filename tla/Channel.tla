------------------------------ MODULE Channel -------------------------------
(***************************************************************************)
(* A Channel as the poller sees it: the events it asks for and the state   *)
(* of its registration (Channel.h, Channel.cc, EpollPoller.cc).  A channel *)
(* is a record; the operators are what a call does to it.                  *)
(***************************************************************************)

\* EPOLLIN|EPOLLPRI is one event "in", EPOLLOUT is "out".
KReadEvent == {"in"}
KWriteEvent == {"out"}
Masks == SUBSET (KReadEvent \cup KWriteEvent)

\* index_ by the names EpollPoller.cc gives its values.
ChannelType == [events : Masks, index : {"kNew", "kAdded", "kDeleted"}]

NewChannel == [events |-> {}, index |-> "kNew"]

\* The tests compare the whole mask: a channel with both events set is, by
\* these, neither reading nor writing.
IsNoneEvent(ch) == ch.events = {}
IsWriting(ch) == ch.events = KWriteEvent

\* Mutant: a channel that left the epoll set is modified, not added again.
OperationWithoutDeleted(ch) ==
  CASE ch.index = "kNew" -> "ADD"
    [] ch.index # "kNew" /\ IsNoneEvent(ch) -> "DEL"
    [] OTHER -> "MOD"

\* epoll_ctl's operation in updateChannel().
Operation(ch) ==
  CASE ch.index # "kAdded" -> "ADD"
    [] ch.index = "kAdded" /\ IsNoneEvent(ch) -> "DEL"
    [] OTHER -> "MOD"

\* What updateChannel() leaves: a channel not in the epoll set enters it,
\* whatever it asks for; one that asks for nothing leaves it.
UpdateChannel(ch) ==
  [ch EXCEPT !.index = IF Operation(ch) = "DEL" THEN "kDeleted" ELSE "kAdded"]

EnableReading(ch) == [ch EXCEPT !.events = @ \cup KReadEvent]
EnableWriting(ch) == [ch EXCEPT !.events = @ \cup KWriteEvent]
DisableReading(ch) == [ch EXCEPT !.events = @ \ KReadEvent]
DisableWriting(ch) == [ch EXCEPT !.events = @ \ KWriteEvent]
DisableAll(ch) == [ch EXCEPT !.events = {}]

RemoveChannel(ch) == [ch EXCEPT !.index = "kNew"]

=============================================================================
