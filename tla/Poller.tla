------------------------------- MODULE Poller -------------------------------
(***************************************************************************)
(* One EpollPoller and the channels of its loop, all on the loop's thread. *)
(* Three records of a registration have to agree: index_ in the channel,   *)
(* the map channels_, and the kernel's epoll set.  File descriptors are    *)
(* reused by the kernel as soon as they are closed.                        *)
(*                                                                         *)
(* An owner closes its descriptor only after Channel::remove(), as         *)
(* ~EventLoop, ~Acceptor and connectDestroyed() do.  epoll_ctl fails only  *)
(* when the operation does not fit the epoll set (not for lack of memory). *)
(***************************************************************************)
EXTENDS Channel, FiniteSetsExt, Naturals

CONSTANTS Channels, Fds, NoFd, NoChannel,
          KInitEventListSize

ASSUME NoFdAssumption == NoFd \notin Fds
ASSUME NoChannelAssumption == NoChannel \notin Channels
ASSUME ListSizeAssumption == KInitEventListSize \in Nat \ {0}

VARIABLES
  chan,        \* events_ and index_ of each channel
  fdOf,        \* the open descriptor of each channel
  channels_,   \* the poller's map
  events_,     \* size of the list handed to epoll_wait
  ptr, mask,   \* the epoll set: data.ptr and events by descriptor
  failed,      \* an epoll_ctl has failed
  ready,       \* kernel: what each descriptor is ready for
  active       \* the channels the last poll returned

vars == <<chan, fdOf, channels_, events_, ptr, mask, failed, ready, active>>
pollVars == <<events_, ready, active>>

Init ==
  /\ chan = [c \in Channels |-> NewChannel]
  /\ fdOf = [c \in Channels |-> NoFd]
  /\ channels_ = [fd \in Fds |-> NoChannel]
  /\ events_ = KInitEventListSize
  /\ ptr = [fd \in Fds |-> NoChannel]
  /\ mask = [fd \in Fds |-> {}]
  /\ failed = FALSE
  /\ ready = [fd \in Fds |-> {}]
  /\ active = {}

-----------------------------------------------------------------------------
\* An owner opens a descriptor, the lowest free one or any other, and makes
\* a channel for it.
Open(c, fd) ==
  /\ fdOf[c] = NoFd
  /\ \A d \in Channels : fdOf[d] # fd
  /\ fdOf' = [fdOf EXCEPT ![c] = fd]
  /\ chan' = [chan EXCEPT ![c] = NewChannel]
  /\ UNCHANGED <<channels_, ptr, mask, failed, pollVars>>

\* The kernel drops a closed descriptor from the epoll set.
Close(c) ==
  /\ fdOf[c] # NoFd
  /\ chan[c].index = "kNew"
  /\ ptr' = [ptr EXCEPT ![fdOf[c]] = NoChannel]
  /\ mask' = [mask EXCEPT ![fdOf[c]] = {}]
  /\ ready' = [ready EXCEPT ![fdOf[c]] = {}]
  /\ fdOf' = [fdOf EXCEPT ![c] = NoFd]
  /\ UNCHANGED <<chan, channels_, events_, failed, active>>

\* epoll_ctl(op) on the descriptor of channel c, which asks for the events ev.
EpollCtl(op, c, ev) ==
  LET fd == fdOf[c]
      fits == (op = "ADD") <=> (ptr[fd] = NoChannel)
  IN /\ ptr' = [ptr EXCEPT ![fd] = CASE ~fits -> @
                                      [] op = "DEL" -> NoChannel
                                      [] OTHER -> c]
     /\ mask' = [mask EXCEPT ![fd] = CASE ~fits -> @
                                        [] op = "DEL" -> {}
                                        [] OTHER -> ev]
     /\ failed' = (failed \/ ~fits)

\* Channel::update() after its events_ have become those of ch.
Update(c, ch) ==
  /\ fdOf[c] # NoFd
  /\ chan' = [chan EXCEPT ![c] = UpdateChannel(ch)]
  /\ channels_' = IF ch.index = "kNew" THEN [channels_ EXCEPT ![fdOf[c]] = c] ELSE channels_
  /\ EpollCtl(Operation(ch), c, ch.events)
  /\ UNCHANGED <<fdOf, pollVars>>

Adjust(c) ==
  \/ Update(c, EnableReading(chan[c]))
  \/ Update(c, EnableWriting(chan[c]))
  \/ Update(c, DisableReading(chan[c]))
  \/ Update(c, DisableWriting(chan[c]))
  \/ Update(c, DisableAll(chan[c]))

\* Mutant: removal of a channel that is in the epoll set leaves it there.
RemoveFromMapOnly(c) ==
  /\ fdOf[c] # NoFd
  /\ channels_' = [channels_ EXCEPT ![fdOf[c]] = NoChannel]
  /\ chan' = [chan EXCEPT ![c] = RemoveChannel(@)]
  /\ UNCHANGED <<fdOf, ptr, mask, failed, pollVars>>

Remove(c) ==
  /\ fdOf[c] # NoFd
  /\ channels_' = [channels_ EXCEPT ![fdOf[c]] = NoChannel]
  /\ chan' = [chan EXCEPT ![c] = RemoveChannel(@)]
  /\ IF chan[c].index = "kAdded" THEN EpollCtl("DEL", c, {})
                                 ELSE UNCHANGED <<ptr, mask, failed>>
  /\ UNCHANGED <<fdOf, pollVars>>

\* EPOLLHUP and EPOLLERR are reported whatever the mask.
Reportable == {fd \in Fds : ptr[fd] # NoChannel /\ ready[fd] \cap (mask[fd] \cup {"hup"}) # {}}

\* epoll_wait reports as many ready descriptors as its list holds, in an
\* order of the kernel's choosing; the list that came back full is doubled.
NumEvents == Min({events_, Cardinality(Reportable)})

PollInto(size) ==
  /\ active = {}
  /\ \E fds \in kSubset(NumEvents, Reportable) : active' = {ptr[fd] : fd \in fds}
  /\ events_' = size
  /\ UNCHANGED <<chan, fdOf, channels_, ptr, mask, failed, ready>>

\* Mutant: the list keeps its size.
PollFixedList == PollInto(events_)

Poll == PollInto(IF NumEvents = events_ THEN events_ * 2 ELSE events_)

\* The loop has served the channels and clears its list for the next poll.
ClearActive ==
  /\ active # {} /\ active' = {}
  /\ UNCHANGED <<chan, fdOf, channels_, events_, ptr, mask, failed, ready>>

\* The peers and the kernel: an open descriptor becomes ready, or not.
Readiness(c) ==
  /\ fdOf[c] # NoFd
  /\ \E r \in SUBSET {"in", "out", "hup"} : ready' = [ready EXCEPT ![fdOf[c]] = r]
  /\ UNCHANGED <<chan, fdOf, channels_, events_, ptr, mask, failed, active>>

Next ==
  \/ \E c \in Channels :
       \/ \E fd \in Fds : Open(c, fd)
       \/ Close(c)
       \/ Adjust(c)
       \/ Remove(c)
       \/ Readiness(c)
  \/ Poll \/ ClearActive

Spec == Init /\ [][Next]_vars

\* The loop's thread goes round.
FairSpec == Spec /\ WF_vars(Poll) /\ WF_vars(ClearActive)

-----------------------------------------------------------------------------
(* Properties.                                                             *)

TypeOK ==
  /\ chan \in [Channels -> ChannelType]
  /\ fdOf \in [Channels -> Fds \cup {NoFd}]
  /\ channels_ \in [Fds -> Channels \cup {NoChannel}]
  /\ events_ \in Nat
  /\ ptr \in [Fds -> Channels \cup {NoChannel}]
  /\ mask \in [Fds -> Masks]
  /\ failed \in BOOLEAN
  /\ ready \in [Fds -> SUBSET {"in", "out", "hup"}]
  /\ active \subseteq Channels

\* epoll_ctl never fails: index_ tells truly whether the kernel has the
\* descriptor, so that no ADD meets a registered one and no MOD or DEL an
\* unregistered one.  A failed ADD or MOD is fatal (EpollPoller.cc:114).
EpollCtlNeverFails == ~failed

\* What the kernel reports is a channel that is open on that descriptor and
\* the poller's map knows, with the events the channel asks for now: no
\* pointer of an earlier owner of the descriptor is left in the epoll set.
EpollSetMatchesChannels ==
  \A fd \in Fds : ptr[fd] # NoChannel =>
    /\ fdOf[ptr[fd]] = fd
    /\ channels_[fd] = ptr[fd]
    /\ chan[ptr[fd]].index = "kAdded"
    /\ mask[fd] = chan[ptr[fd]].events

\* hasChannel() answers for the channels the map holds: exactly the open
\* ones that were registered and not removed since.
MapHoldsKnownChannels ==
  \A c \in Channels : fdOf[c] # NoFd =>
    ((channels_[fdOf[c]] = c) <=> (chan[c].index # "kNew"))

\* However many channels are ready, the list grows until one that stays ready
\* is reported, whatever order the kernel reports them in.
NoReadyChannelStarves ==
  \A fd \in Fds : <>[](fd \in Reportable) => []<>(\E c \in active : fdOf[c] = fd)

=============================================================================
