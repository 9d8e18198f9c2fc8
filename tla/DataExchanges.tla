---------------------------- MODULE DataExchanges ----------------------------
(***************************************************************************)
(* The data exchanges of a dependency, as each segment works them out for  *)
(* itself: Confinement::getAllDataExchanges and what it calls in           *)
(* communication/confinement_mgmt.cc.  Each segment that holds parts below *)
(* the confinement is a participant, on the sending side, the receiving    *)
(* side or both; where a sender and a receiver have indices in common      *)
(* there is an exchange, and exchanges of the same content are combined.   *)
(*                                                                         *)
(* A dependency dep has                                                    *)
(*   dep.sends[s], dep.receives[s]: the indices that segment s holds in    *)
(*       the parts of the updating and of the using LPS ({} for none);     *)
(*   dep.intra: whether both are the same parts.                           *)
(* What a segment holds is a set of indices here; Intervals has the lists  *)
(* of interval sequences that describe it.  The transfers between parts of *)
(* one segment (IntraContainerInteractionSpec) are left out.               *)
(***************************************************************************)
EXTENDS Integers, Sequences, SequencesExt, FiniteSetsExt

CONSTANT NumSegments
ASSUME NumSegmentsAssumption == NumSegments \in Nat

Segments == 0..(NumSegments - 1)

\* generateParticipantList: the segments other than l with data to hold, in increasing order.
RemoteParticipants(holdings, l) ==
  FlattenSeq([i \in 1..NumSegments |->
    IF i - 1 # l /\ holdings[i - 1] # {} THEN <<i - 1>> ELSE <<>>])
LocalParticipant(holdings, l) == IF holdings[l] = {} THEN <<>> ELSE <<l>>

\* getCommonRegion
Overlap(dep, s, r) == dep.sends[s] \cap dep.receives[r]

\* generateDataExchangeList: each sender with each receiver that it overlaps with.
generateDataExchangeList(dep, senders, receivers) ==
  LET Exchanged(s, r) == IF Overlap(dep, s, r) = {} THEN <<>>
                         ELSE <<[from |-> s, to |-> r, content |-> Overlap(dep, s, r)]>>
  IN FlattenSeq([i \in 1..Len(senders) |->
       FlattenSeq([j \in 1..Len(receivers) |-> Exchanged(senders[i], receivers[j])])])

\* generateSendExchanges, generateReceiveExchanges and generateRemoteExchanges
CandidateExchanges(dep, l) ==
  LET localSender     == LocalParticipant(dep.sends, l)
      localReceiver   == LocalParticipant(dep.receives, l)
      remoteSenders   == RemoteParticipants(dep.sends, l)
      remoteReceivers == RemoteParticipants(dep.receives, l)
      reachable       == IF dep.intra THEN remoteReceivers ELSE remoteReceivers \o localReceiver
  IN generateDataExchangeList(dep, localSender, reachable)
     \o generateDataExchangeList(dep, remoteSenders, localReceiver)
     \o generateDataExchangeList(dep, remoteSenders, remoteReceivers)

\* contentsEqual: the exchange that the i-th one is combined with, itself if no earlier one is alike.
Matching(exchanges, i) ==
  Min({j \in 1..Len(exchanges) : exchanges[j].content = exchanges[i].content})

\* mergeWithOther: the tags of participant[i], of each exchange i that is not the first of its content,
\* are added to those of the participant of the first one.  Both may be participants of other
\* exchanges, too.
SegmentTags(exchanges, participant) ==
  LET tags[i \in 0..Len(exchanges)] ==
        IF i = 0 THEN [s \in Segments |-> {s}]
        ELSE IF Matching(exchanges, i) = i THEN tags[i - 1]
        ELSE [tags[i - 1] EXCEPT ![participant[Matching(exchanges, i)]] =
                @ \union tags[i - 1][participant[i]]]
  IN tags[Len(exchanges)]

\* The combination of exchanges of the same content.
Compact(exchanges) ==
  LET senderTags   == SegmentTags(exchanges, [i \in 1..Len(exchanges) |-> exchanges[i].from])
      receiverTags == SegmentTags(exchanges, [i \in 1..Len(exchanges) |-> exchanges[i].to])
      Combined(i)  == [senders   |-> senderTags[exchanges[i].from],
                       receivers |-> receiverTags[exchanges[i].to],
                       content   |-> exchanges[i].content]
  IN FlattenSeq([i \in 1..Len(exchanges) |->
       IF Matching(exchanges, i) = i THEN <<Combined(i)>> ELSE <<>>])

getAllDataExchanges(dep, l) == Compact(CandidateExchanges(dep, l))

involvesLocalSegment(e, l) == l \in e.senders \union e.receivers
isIntraSegmentExchange(e, l) == e.senders = {l} /\ e.receivers = {l}

=============================================================================
