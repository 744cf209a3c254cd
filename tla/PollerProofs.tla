---------------------------- MODULE PollerProofs ----------------------------
(***************************************************************************)
(* Theorems about Poller, for any number of channels and descriptors: the  *)
(* registration kept in the channel, in the map and in the kernel agree.   *)
(***************************************************************************)
EXTENDS Poller, TLAPS

\* A descriptor has one channel.
FdsAreDistinct ==
  \A c, d \in Channels : fdOf[c] # NoFd /\ fdOf[c] = fdOf[d] => c = d

\* A channel that counts as added is in the epoll set; one that is closed
\* counts as new.
AddedAreInEpollSet ==
  \A c \in Channels :
    /\ fdOf[c] # NoFd /\ chan[c].index = "kAdded" => ptr[fdOf[c]] = c
    /\ fdOf[c] # NoFd /\ chan[c].index # "kNew" => channels_[fdOf[c]] = c

\* The map points to no channel that is closed, moved or removed.
MapIsCurrent ==
  \A fd \in Fds : channels_[fd] # NoChannel =>
    fdOf[channels_[fd]] = fd /\ chan[channels_[fd]].index # "kNew"

\* What is inductive: the three records agree in both directions.
RegInv ==
  /\ EpollCtlNeverFails
  /\ EpollSetMatchesChannels
  /\ FdsAreDistinct
  /\ AddedAreInEpollSet
  /\ MapIsCurrent

\* Every call on a channel is an update of one whose registration is the old
\* one's, or its removal.
LEMMA AdjustIsUpdate ==
  ASSUME TypeOK, NEW c \in Channels, Adjust(c)
  PROVE  \E ev \in Masks : Update(c, [chan[c] EXCEPT !.events = ev])
<1> USE DEF TypeOK, ChannelType, Masks, KReadEvent, KWriteEvent
<1>1. chan[c] \in ChannelType
  OBVIOUS
<1>2. CASE Update(c, EnableReading(chan[c]))
  <2>1. chan[c].events \cup {"in"} \in Masks
    BY <1>1
  <2> QED
    BY <1>2, <2>1 DEF EnableReading
<1>3. CASE Update(c, EnableWriting(chan[c]))
  <2>1. chan[c].events \cup {"out"} \in Masks
    BY <1>1
  <2> QED
    BY <1>3, <2>1 DEF EnableWriting
<1>4. CASE Update(c, DisableReading(chan[c]))
  <2>1. chan[c].events \ {"in"} \in Masks
    BY <1>1
  <2> QED
    BY <1>4, <2>1 DEF DisableReading
<1>5. CASE Update(c, DisableWriting(chan[c]))
  <2>1. chan[c].events \ {"out"} \in Masks
    BY <1>1
  <2> QED
    BY <1>5, <2>1 DEF DisableWriting
<1>6. CASE Update(c, DisableAll(chan[c]))
  BY <1>6 DEF DisableAll
<1> QED
  BY <1>2, <1>3, <1>4, <1>5, <1>6 DEF Adjust

LEMMA EmptyMask == {} \in Masks
BY DEF Masks

LEMMA TypeInit == Init => TypeOK
<1> SUFFICES ASSUME Init PROVE TypeOK
  OBVIOUS
<1>1. NewChannel \in ChannelType
  BY EmptyMask DEF NewChannel, ChannelType
<1>2. events_ \in Nat
  BY ListSizeAssumption DEF Init
<1> QED
  BY <1>1, <1>2, EmptyMask DEF Init, TypeOK

\* An update keeps every variable in its range.
LEMMA UpdateType ==
  ASSUME TypeOK, NEW c \in Channels, NEW ev \in Masks,
         Update(c, [chan[c] EXCEPT !.events = ev])
  PROVE  TypeOK'
<1> DEFINE ch == [chan[c] EXCEPT !.events = ev]
<1>1. UpdateChannel(ch) \in ChannelType
  BY DEF TypeOK, ChannelType, UpdateChannel
<1>2. fdOf[c] \in Fds /\ ch.events = ev
  BY DEF TypeOK, Update, ChannelType
<1> QED
  BY <1>1, <1>2, EmptyMask DEF TypeOK, Update, EpollCtl, pollVars

LEMMA TypeStep == TypeOK /\ [Next]_vars => TypeOK'
<1> SUFFICES ASSUME TypeOK, [Next]_vars PROVE TypeOK'
  OBVIOUS
<1> USE DEF TypeOK, ChannelType, pollVars
<1>1. ASSUME NEW c \in Channels, NEW fd \in Fds, Open(c, fd) PROVE TypeOK'
  BY <1>1 DEF Open, NewChannel, Masks
<1>2. ASSUME NEW c \in Channels, Close(c) PROVE TypeOK'
  BY <1>2 DEF Close, Masks
<1>3. ASSUME NEW c \in Channels, Adjust(c) PROVE TypeOK'
  BY <1>3, AdjustIsUpdate, UpdateType
<1>4. ASSUME NEW c \in Channels, Remove(c) PROVE TypeOK'
  BY <1>4, ZenonT(40) DEF Remove, RemoveChannel, EpollCtl, Masks
<1>5. ASSUME NEW c \in Channels, Readiness(c) PROVE TypeOK'
  BY <1>5 DEF Readiness
<1>6. CASE Poll
  <2>1. PICK fds \in kSubset(NumEvents, Reportable) : active' = {ptr[fd] : fd \in fds}
    BY <1>6 DEF Poll, PollInto
  <2>2. fds \subseteq Reportable
    BY <2>1 DEF kSubset
  <2>3. active' \subseteq Channels
    BY <2>1, <2>2 DEF Reportable
  <2>4. events_' \in Nat
    BY <1>6 DEF Poll, PollInto
  <2> QED
    BY <1>6, <2>3, <2>4 DEF Poll, PollInto
<1>7. CASE ClearActive
  BY <1>7 DEF ClearActive
<1>8. CASE UNCHANGED vars
  BY <1>8 DEF vars
<1> QED
  BY <1>1, <1>2, <1>3, <1>4, <1>5, <1>6, <1>7, <1>8 DEF Next

\* Every variable of the poller keeps its range.
THEOREM TypeCorrect == Spec => []TypeOK
BY TypeInit, TypeStep, PTL DEF Spec

-----------------------------------------------------------------------------

\* The epoll_ctl an update issues fits the epoll set, and after it the three
\* records agree again.
LEMMA UpdateKeepsRegInv ==
  ASSUME TypeOK, RegInv, NEW c \in Channels, NEW ev \in Masks,
         Update(c, [chan[c] EXCEPT !.events = ev])
  PROVE  RegInv'
<1> DEFINE ch == [chan[c] EXCEPT !.events = ev]
           fd == fdOf[c]
<1> USE DEF TypeOK, ChannelType, RegInv, EpollCtlNeverFails, EpollSetMatchesChannels,
            FdsAreDistinct, AddedAreInEpollSet, MapIsCurrent
<1>1. /\ fd \in Fds /\ chan[c] \in ChannelType
      /\ ch.index = chan[c].index /\ ch.events = ev
      /\ fdOf' = fdOf
  BY DEF Update
<1>2. (ptr[fd] = c) <=> (chan[c].index = "kAdded")
  BY <1>1, NoFdAssumption, NoChannelAssumption
<1>3. ptr[fd] = NoChannel \/ ptr[fd] = c
  BY <1>1, NoFdAssumption
<1>4. ~failed'
  BY <1>1, <1>2, <1>3, NoChannelAssumption DEF Update, EpollCtl, Operation
<1>5. CASE Operation(ch) = "DEL"
  <2>1. /\ chan' = [chan EXCEPT ![c] = [ch EXCEPT !.index = "kDeleted"]]
        /\ ptr' = [ptr EXCEPT ![fd] = NoChannel]
        /\ mask' = [mask EXCEPT ![fd] = {}]
        /\ channels_' = channels_
        /\ chan[c].index = "kAdded"
    BY <1>1, <1>2, <1>3, <1>5, NoChannelAssumption
       DEF Update, EpollCtl, Operation, UpdateChannel, IsNoneEvent
  <2> QED
    BY <1>1, <1>2, <1>3, <1>4, <2>1, NoFdAssumption, NoChannelAssumption
<1>6. CASE Operation(ch) # "DEL"
  <2>1. /\ chan' = [chan EXCEPT ![c] = [ch EXCEPT !.index = "kAdded"]]
        /\ ptr' = [ptr EXCEPT ![fd] = c]
        /\ mask' = [mask EXCEPT ![fd] = ev]
        /\ channels_' = [channels_ EXCEPT ![fd] = c]
    <3>1. channels_' = [channels_ EXCEPT ![fd] = c]
      <4>1. CASE chan[c].index = "kNew"
        BY <4>1, <1>1 DEF Update
      <4>2. CASE chan[c].index # "kNew"
        <5>1. channels_[fd] = c
          BY <4>2, <1>1, NoFdAssumption
        <5> QED
          BY <4>2, <5>1, <1>1 DEF Update
      <4> QED
        BY <4>1, <4>2
    <3>2. chan' = [chan EXCEPT ![c] = [ch EXCEPT !.index = "kAdded"]]
      BY <1>6 DEF Update, UpdateChannel
    <3>3. Operation(ch) \in {"ADD", "MOD"} /\ ((Operation(ch) = "ADD") <=> (chan[c].index # "kAdded"))
      BY <1>1, <1>6 DEF Operation
    <3>4. EpollCtl(Operation(ch), c, ev)
      BY <1>1 DEF Update
    <3>5. ptr' = [ptr EXCEPT ![fd] = c] /\ mask' = [mask EXCEPT ![fd] = ev]
      <4>1. (Operation(ch) = "ADD") <=> (ptr[fd] = NoChannel)
        BY <1>1, <1>2, <1>3, <3>3, NoChannelAssumption
      <4> HIDE DEF ch
      <4> QED
        BY <3>3, <3>4, <4>1 DEF EpollCtl
    <3> QED
      BY <3>1, <3>2, <3>5
  <2> QED
    BY <1>1, <1>2, <1>3, <1>4, <2>1, NoFdAssumption, NoChannelAssumption
<1> QED
  BY <1>5, <1>6

\* Removing a channel takes it from the map and, if it is there, from the
\* epoll set.
LEMMA RemoveKeepsRegInv ==
  ASSUME TypeOK, RegInv, NEW c \in Channels, Remove(c)
  PROVE  RegInv'
<1> DEFINE fd == fdOf[c]
<1> USE DEF TypeOK, ChannelType, RegInv, EpollCtlNeverFails, EpollSetMatchesChannels,
            FdsAreDistinct, AddedAreInEpollSet, MapIsCurrent
<1>1. /\ fd \in Fds /\ fdOf' = fdOf
      /\ chan' = [chan EXCEPT ![c] = [chan[c] EXCEPT !.index = "kNew"]]
      /\ channels_' = [channels_ EXCEPT ![fd] = NoChannel]
  BY DEF Remove, RemoveChannel
<1>2. /\ ptr' = [ptr EXCEPT ![fd] = NoChannel]
      /\ mask' = [mask EXCEPT ![fd] = {}] \/ mask' = mask
      /\ failed' = FALSE
  <2>1. CASE chan[c].index = "kAdded"
    BY <2>1, <1>1, NoFdAssumption, NoChannelAssumption DEF Remove, EpollCtl
  <2>2. CASE chan[c].index # "kAdded"
    <3>1. ptr[fd] = NoChannel
      BY <2>2, <1>1, NoFdAssumption
    <3> QED
      BY <2>2, <3>1, <1>1 DEF Remove
  <2> QED
    BY <2>1, <2>2
<1> QED
  BY <1>1, <1>2, NoFdAssumption, NoChannelAssumption

LEMMA RegInvStep == TypeOK /\ RegInv /\ [Next]_vars => RegInv'
<1> SUFFICES ASSUME TypeOK, RegInv, [Next]_vars PROVE RegInv'
  OBVIOUS
<1> USE DEF RegInv, EpollCtlNeverFails, EpollSetMatchesChannels,
            FdsAreDistinct, AddedAreInEpollSet, MapIsCurrent, pollVars
<1>1. ASSUME NEW c \in Channels, NEW fd \in Fds, Open(c, fd) PROVE RegInv'
  BY <1>1, NoFdAssumption DEF Open, NewChannel, TypeOK, ChannelType
<1>2. ASSUME NEW c \in Channels, Close(c) PROVE RegInv'
  BY <1>2, NoFdAssumption, NoChannelAssumption DEF Close, TypeOK, ChannelType
<1>3. ASSUME NEW c \in Channels, Adjust(c) PROVE RegInv'
  BY <1>3, AdjustIsUpdate, UpdateKeepsRegInv
<1>4. ASSUME NEW c \in Channels, Remove(c) PROVE RegInv'
  BY <1>4, RemoveKeepsRegInv
<1>5. ASSUME NEW c \in Channels, Readiness(c) PROVE RegInv'
  BY <1>5 DEF Readiness
<1>6. CASE Poll
  BY <1>6 DEF Poll, PollInto
<1>7. CASE ClearActive
  BY <1>7 DEF ClearActive
<1>8. CASE UNCHANGED vars
  BY <1>8 DEF vars
<1> QED
  BY <1>1, <1>2, <1>3, <1>4, <1>5, <1>6, <1>7, <1>8 DEF Next

LEMMA RegInvAlways == Spec => []RegInv
<1>1. Init => RegInv
  BY NoFdAssumption DEF Init, RegInv, EpollCtlNeverFails, EpollSetMatchesChannels,
     FdsAreDistinct, AddedAreInEpollSet, MapIsCurrent
<1> QED
  BY <1>1, RegInvStep, TypeCorrect, PTL DEF Spec

\* No epoll_ctl ever fails, so the fatal error of EpollPoller::update is never
\* reached, however the owners of the channels use them.
THEOREM RegistrationNeverFails == Spec => []EpollCtlNeverFails
BY RegInvAlways, PTL DEF RegInv

\* The kernel's epoll set always points to open channels of this loop, with
\* the events they ask for.
THEOREM EpollSetIsCurrent == Spec => []EpollSetMatchesChannels
BY RegInvAlways, PTL DEF RegInv

\* hasChannel() is right about every open channel.
THEOREM MapIsExact == Spec => []MapHoldsKnownChannels
<1>1. TypeOK /\ RegInv => MapHoldsKnownChannels
  BY NoFdAssumption, NoChannelAssumption
     DEF TypeOK, RegInv, AddedAreInEpollSet, MapIsCurrent, MapHoldsKnownChannels
<1> QED
  BY <1>1, RegInvAlways, TypeCorrect, PTL

=============================================================================
