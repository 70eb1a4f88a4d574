------------------------------ MODULE MCCodec -------------------------------
(* Chains of up to two waterings around the limits of a byte and of the    *)
(* continuation bytes, and of up to four that end in nothing but zeros.    *)
EXTENDS Codec

EdgeGaps == {0, 1, 199, 200, 201, 204, 254, 255, 256, 399, 400, 454, 455, 456, 655}

EdgeDurations == {0, 30, 201, 204, 255, 256}

Events == [duration : EdgeDurations, gap : EdgeGaps]

(* The last gap closes the week.                                           *)
Closed(start, before, duration) ==
  [lead |-> start,
   events |-> Append(before, [duration |-> duration,
                gap |-> CycleUnits - FoldSeq(LAMBDA e, sum : e.gap + sum, start, before)])]

(* Waterings that only zeros follow.                                       *)
ZeroTails == {<<>>, <<[duration |-> 0, gap |-> 0]>>,
              <<[duration |-> 0, gap |-> 0], [duration |-> 0, gap |-> 0]>>,
              <<[duration |-> 0, gap |-> 0], [duration |-> 204, gap |-> 0]>>,
              <<[duration |-> 1, gap |-> 0]>>}

EdgeChains ==
  {[lead |-> 0, events |-> <<>>]}
    \cup {Closed(g, <<>>, d) : g \in EdgeGaps, d \in EdgeDurations}
    \cup {Closed(g, <<e>>, d) : g \in EdgeGaps, e \in Events, d \in EdgeDurations}
    \cup {Closed(CycleUnits - g, <<>>, 30) : g \in EdgeGaps}
    \cup {[lead |-> CycleUnits - g, events |-> <<[duration |-> d, gap |-> g]>> \o t] :
             g \in EdgeGaps, d \in EdgeDurations, t \in ZeroTails}
    \cup {[lead |-> CycleUnits - 255, events |-> <<[duration |-> 30, gap |-> 255 - g],
                                                   [duration |-> d, gap |-> g]>> \o t] :
             g \in {0, 200, 201, 255}, d \in EdgeDurations, t \in ZeroTails}

=============================================================================
