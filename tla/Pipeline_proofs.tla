---------------------------- MODULE Pipeline_proofs ----------------------------
(***************************************************************************)
(* Proofs about Pipeline, for any reports, files, directives and options   *)
(* and any capacity of the channels: the invariant, and what follows.      *)
(***************************************************************************)
EXTENDS Pipeline_invariant, SequenceLemmas, FunctionTheorems

-----------------------------------------------------------------------------
(***************************************************************************)
(* Sequences and what is in them.                                          *)
(***************************************************************************)
\* What an index and an element of a sequence are.
LEMMA InSequence ==
  ASSUME NEW T, NEW seq \in Seq(T), NEW n \in DOMAIN seq
  PROVE  n \in Nat /\ seq[n] \in T
  OBVIOUS

\* Appending adds one issue to those in a sequence.
LEMMA InAppend ==
  ASSUME NEW T, NEW seq \in Seq(T), NEW x \in T
  PROVE  /\ Append(seq, x) \in Seq(T)
         /\ DOMAIN Append(seq, x) = 1 .. Len(seq) + 1
         /\ \A n \in DOMAIN seq : Append(seq, x)[n] = seq[n]
         /\ Append(seq, x)[Len(seq) + 1] = x
         /\ IssuesIn(Append(seq, x)) = IssuesIn(seq) \cup {x}
<1>1. Append(seq, x) \in Seq(T) /\ DOMAIN Append(seq, x) = 1 .. Len(seq) + 1
  OBVIOUS
<1>2. \A n \in DOMAIN seq : Append(seq, x)[n] = seq[n]
  OBVIOUS
<1>3. Append(seq, x)[Len(seq) + 1] = x
  OBVIOUS
<1>4. DOMAIN seq = 1 .. Len(seq) /\ Len(seq) \in Nat
  OBVIOUS
<1>5. 1 .. Len(seq) + 1 = (1 .. Len(seq)) \cup {Len(seq) + 1}
  BY <1>4
<1>6. IssuesIn(Append(seq, x)) = IssuesIn(seq) \cup {x}
  BY <1>1, <1>2, <1>3, <1>4, <1>5 DEF IssuesIn
<1>7. QED
  BY <1>1, <1>2, <1>3, <1>6

\* Taking the head away leaves the others, one place further ahead.
LEMMA InTail ==
  ASSUME NEW T, NEW seq \in Seq(T), seq # <<>>
  PROVE  /\ Head(seq) \in T /\ Tail(seq) \in Seq(T)
         /\ 1 \in DOMAIN seq /\ Head(seq) = seq[1]
         /\ \A n \in DOMAIN Tail(seq) : n + 1 \in DOMAIN seq /\ Tail(seq)[n] = seq[n + 1]
         /\ \A n \in DOMAIN seq : n = 1 \/ (n - 1 \in DOMAIN Tail(seq) /\ Tail(seq)[n - 1] = seq[n])
         /\ Len(Tail(seq)) = Len(seq) - 1
         /\ IssuesIn(seq) = {Head(seq)} \cup IssuesIn(Tail(seq))
<1>1. Len(seq) \in Nat /\ Len(seq) > 0 /\ DOMAIN seq = 1 .. Len(seq)
  OBVIOUS
<1>2. Tail(seq) \in Seq(T) /\ Head(seq) = seq[1] /\ seq[1] \in T /\ Len(Tail(seq)) = Len(seq) - 1
  BY <1>1
<1>3. DOMAIN Tail(seq) = 1 .. Len(seq) - 1
  BY <1>1, <1>2
<1>4. \A n \in 1 .. Len(seq) - 1 : Tail(seq)[n] = seq[n + 1]
  BY <1>1
<1>5. \A n \in DOMAIN seq : n = 1 \/ (n - 1 \in DOMAIN Tail(seq) /\ Tail(seq)[n - 1] = seq[n])
  BY <1>1, <1>3, <1>4
<1>6. \A n \in DOMAIN Tail(seq) : n + 1 \in DOMAIN seq /\ Tail(seq)[n] = seq[n + 1]
  BY <1>1, <1>3, <1>4
<1>7. IssuesIn(seq) = {Head(seq)} \cup IssuesIn(Tail(seq))
  <2>1. ASSUME NEW n \in DOMAIN seq
        PROVE  seq[n] = Head(seq) \/ \E m \in DOMAIN Tail(seq) : seq[n] = Tail(seq)[m]
    <3>1. CASE n = 1
      BY <3>1, <1>2
    <3>2. CASE n # 1
      BY <3>2, <1>5
    <3>3. QED
      BY <3>1, <3>2
  <2>2. ASSUME NEW m \in DOMAIN Tail(seq)
        PROVE  \E n \in DOMAIN seq : Tail(seq)[m] = seq[n]
    BY <1>6
  <2>3. \E n \in DOMAIN seq : Head(seq) = seq[n]
    BY <1>1, <1>2
  <2>4. QED
    BY <2>1, <2>2, <2>3 DEF IssuesIn
<1>8. QED
  BY <1>1, <1>2, <1>5, <1>6, <1>7

\* A send adds an issue to one channel.
LEMMA SendEffect ==
  ASSUME TypeOK, NEW c \in Channels, NEW i \in Items, Send(c, i)
  PROVE  /\ chan' = [chan EXCEPT ![c] = Append(chan[c], i)]
         /\ chan' \in [Channels -> Seq(Items)]
         /\ \A d \in Channels : Len(chan'[d]) <= ChanCap
         /\ chan'[c] = Append(chan[c], i)
         /\ IssuesIn(chan'[c]) = IssuesIn(chan[c]) \cup {i}
         /\ \A d \in Channels : d # c => chan'[d] = chan[d]
<1> USE DEF TypeOK
<1>1. chan' = [chan EXCEPT ![c] = Append(chan[c], i)] /\ Len(chan[c]) < ChanCap
  BY DEF Send, HasRoom
<1>2. Append(chan[c], i) \in Seq(Items) /\ Len(Append(chan[c], i)) = Len(chan[c]) + 1
      /\ Len(chan[c]) \in Nat
  OBVIOUS
<1>3. chan'[c] = Append(chan[c], i) /\ \A d \in Channels : d # c => chan'[d] = chan[d]
  BY <1>1
<1>4. chan' \in [Channels -> Seq(Items)]
  BY <1>1, <1>2
<1>5. \A d \in Channels : Len(chan'[d]) <= ChanCap
  BY <1>1, <1>2, <1>3, PipelineAssumption
<1>6. IssuesIn(chan'[c]) = IssuesIn(chan[c]) \cup {i}
  BY <1>3, InAppend
<1>7. QED
  BY <1>1, <1>3, <1>4, <1>5, <1>6

\* A receive takes the head of one channel.
LEMMA ReceiveEffect ==
  ASSUME TypeOK, NEW c \in Channels, NEW i, Receive(c, i)
  PROVE  /\ i \in Items /\ i \in IssuesIn(chan[c]) /\ i = Head(chan[c]) /\ chan[c] # <<>>
         /\ chan' = [chan EXCEPT ![c] = Tail(chan[c])]
         /\ chan' \in [Channels -> Seq(Items)]
         /\ \A d \in Channels : Len(chan'[d]) <= ChanCap
         /\ chan'[c] = Tail(chan[c])
         /\ IssuesIn(chan[c]) = {i} \cup IssuesIn(chan'[c])
         /\ \A d \in Channels : d # c => chan'[d] = chan[d]
<1> USE DEF TypeOK
<1>1. /\ chan[c] # <<>> /\ i = Head(chan[c])
      /\ chan' = [chan EXCEPT ![c] = Tail(chan[c])]
  BY DEF Receive
<1>2. /\ Head(chan[c]) \in Items /\ Tail(chan[c]) \in Seq(Items)
      /\ Len(Tail(chan[c])) = Len(chan[c]) - 1 /\ Len(chan[c]) \in Nat
      /\ IssuesIn(chan[c]) = {Head(chan[c])} \cup IssuesIn(Tail(chan[c]))
  BY <1>1, InTail
<1>3. chan'[c] = Tail(chan[c]) /\ \A d \in Channels : d # c => chan'[d] = chan[d]
  BY <1>1
<1>4. chan' \in [Channels -> Seq(Items)]
  BY <1>1, <1>2
<1>5. ASSUME NEW d \in Channels
      PROVE  Len(chan'[d]) <= ChanCap
  <2>1. ChanCap \in Nat /\ Len(chan[d]) <= ChanCap
    BY PipelineAssumption
  <2>2. QED
    BY <2>1, <1>2, <1>3
<1>6. QED
  BY <1>1, <1>2, <1>3, <1>4, <1>5

\* The two names that depend on the options.
LEMMA ChannelNames ==
  /\ FilterIn \in {"incoming", "aggregated"} /\ MainIn \in {"filtered", "sorted"}
  /\ FilterIn \in Channels /\ MainIn \in Channels
  /\ FilterIn = "aggregated" <=> opts.aggregate
  BY DEF FilterIn, MainIn, Channels

-----------------------------------------------------------------------------
(***************************************************************************)
(* Types.                                                                  *)
(***************************************************************************)
\* What an option is.
LEMMA OptionTypes ==
  ASSUME TypeOK
  PROVE  /\ opts.aggregate \in BOOLEAN /\ opts.warnUnmatched \in BOOLEAN
         /\ opts.errors \in BOOLEAN /\ opts.absolute \in BOOLEAN
         /\ opts.sort \in Seq(SortKeys)
<1>1. opts \in OptionSet
  BY PipelineAssumption DEF TypeOK
<1>2. QED
  BY <1>1 DEF OptionSet

\* What an issue is made of.
LEMMA ItemTypes ==
  ASSUME NEW path \in Paths, NEW line \in Nat, NEW severity \in {"error", "warning"},
         NEW message \in Messages,
         NEW from, from \subseteq Reports \cup ((Paths \X BOOLEAN) \X Nat)
  PROVE  [path |-> path, line |-> line, severity |-> severity, message |-> message,
          from |-> from] \in Items
  BY DEF Items

\* A report is an issue.
LEMMA ReportTypes == \A r \in Reports : Issue(r, {r}) \in Items /\ Issue(r, {r}).from = {r}
  BY PipelineAssumption DEF Issue, Items, Messages

\* A warning about a range is an issue, and the range tells which.
LEMMA RangeTypes ==
  ASSUME TypeOK, NEW u \in AllRanges
  PROVE  /\ Unmatched(u[1], u[2]) \in Items /\ u = <<u[1], u[2]>>
         /\ u[1] \in Paths \X BOOLEAN /\ u[1] \in files
         /\ u[2] \in DOMAIN Directives[u[1][1]] /\ u[2] \in Nat
         /\ Unmatched(u[1], u[2]).from = {u}
         /\ u \in (Paths \X BOOLEAN) \X Nat
<1>1. PICK key \in files : \E k \in DOMAIN RangesOf(key) : u = <<key, k>>
  BY DEF AllRanges
<1>2. PICK k \in DOMAIN RangesOf(key) : u = <<key, k>>
  BY <1>1
<1>3. key \in Paths \X BOOLEAN /\ key[1] \in Paths
  BY DEF TypeOK
<1>4. RangesOf(key) = Directives[key[1]]
  BY DEF RangesOf
<1>5. Directives[key[1]] \in Seq([start : Nat, end : Nat, linters : SUBSET STRING])
  BY <1>3, DirectivesAssumption
<1>6. k \in Nat /\ Directives[key[1]][k].start \in Nat
  <2>1. k \in DOMAIN Directives[key[1]]
    BY <1>2, <1>4
  <2>2. k \in Nat /\ Directives[key[1]][k] \in [start : Nat, end : Nat, linters : SUBSET STRING]
    BY <1>5, <2>1, InSequence
  <2>3. QED
    BY <2>2
<1>7. u[1] = key /\ u[2] = k
  BY <1>2
<1>8. Unmatched(u[1], u[2]) \in Items
  <2>1. Unmatched(u[1], u[2]) = [path |-> key[1], line |-> Directives[key[1]][k].start,
                                 severity |-> "warning", message |-> "unmatched",
                                 from |-> {<<key, k>>}]
    BY <1>4, <1>7 DEF Unmatched
  <2>2. {<<key, k>>} \subseteq Reports \cup ((Paths \X BOOLEAN) \X Nat)
    BY <1>3, <1>6
  <2>3. "warning" \in {"error", "warning"} /\ "unmatched" \in Messages
    BY DEF Messages
  <2>4. [path |-> key[1], line |-> Directives[key[1]][k].start, severity |-> "warning",
         message |-> "unmatched", from |-> {<<key, k>>}] \in Items
    BY <1>3, <1>6, <2>2, <2>3, ItemTypes, Zenon
  <2>5. QED
    BY <2>1, <2>4
<1>9. QED
  BY <1>1, <1>2, <1>3, <1>4, <1>6, <1>7, <1>8 DEF Unmatched

\* A range is found by the key and the index.
LEMMA RangeFound ==
  \A key \in files : \A k \in DOMAIN Directives[key[1]] : <<key, k>> \in AllRanges
  BY DEF AllRanges, RangesOf

\* IsIgnored marks the first range that matches, if one does.
LEMMA FirstMatch ==
  ASSUME TypeOK, NEW i \in Items, MatchingRanges(i) # {}
  PROVE  \E k \in MatchingRanges(i) :
           /\ k \in DOMAIN Directives[i.path]
           /\ \A n \in MatchingRanges(i) : k <= n
           /\ Used(matched, IssueKey(i.path), MatchingRanges(i))
                = matched \cup {<<IssueKey(i.path), k>>}
<1>1. MatchingRanges(i) \subseteq Nat /\ MatchingRanges(i) \subseteq DOMAIN Directives[i.path]
  <2>1. i.path \in Paths
    BY DEF Items
  <2>2. Directives[i.path] \in Seq([start : Nat, end : Nat, linters : SUBSET STRING])
    BY <2>1, DirectivesAssumption
  <2>3. QED
    BY <2>2 DEF MatchingRanges
<1>2. PICK k \in MatchingRanges(i) : \A n \in MatchingRanges(i) : k <= n
  BY <1>1, Smallest
<1>3. {m \in MatchingRanges(i) : \A n \in MatchingRanges(i) : m <= n} = {k}
  BY <1>1, <1>2
<1>4. QED
  BY <1>1, <1>2, <1>3 DEF Used

\* Merging an issue keeps issueMap a set of issues.
LEMMA MergedTypes ==
  ASSUME NEW set, set \subseteq Items, NEW i \in Items
  PROVE  Merged(set, i) \subseteq Items
<1>1. ASSUME NEW j \in set
      PROVE  [j EXCEPT !.from = @ \cup i.from] \in Items
  BY DEF Items
<1>2. QED
  BY <1>1 DEF Merged

\* Every step keeps the configuration.
LEMMA OptionsStay == ASSUME [Next]_vars PROVE opts' = opts
  BY DEF vars, Next, StartReading, Feed, CloseIncoming, Aggregator, Merge, EmitMerged,
         CloseAggregated, DirectiveFilter, Filter, PassOn, FindUnused, WarnUnused,
         CloseFiltered, Sorter, Collect, EmitSorted, CloseSorted, Main, Output,
         FinishOutput, Terminated, envVars

\* The channels keep their types when issues are sent and received.
LEMMA TypeStep == ASSUME TypeOK, [Next]_vars PROVE TypeOK'
<1> DEFINE ChanOK == chan \in [Channels -> Seq(Items)] /\ \A c \in Channels : Len(chan[c]) <= ChanCap
<1> USE DEF envVars, filterVars, mainVars
<1>1. CASE StartReading
  BY <1>1 DEF StartReading, TypeOK, AllRanges, RangesOf
<1>2. ASSUME NEW r \in Reports, Feed(r) PROVE TypeOK'
  <2>1. ChanOK'
    BY <1>2, ReportTypes, SendEffect DEF Feed, Channels
  <2>2. QED
    BY <1>2, <2>1 DEF Feed, TypeOK, AllRanges, RangesOf
<1>3. CASE CloseIncoming
  BY <1>3 DEF CloseIncoming, Close, Channels, TypeOK, AllRanges, RangesOf
<1>4. ASSUME NEW i, Merge(i) PROVE TypeOK'
  <2>1. ChanOK' /\ i \in Items
    BY <1>4, ReceiveEffect DEF Merge, Channels
  <2>2. Merged(merging, i) \subseteq Items
    BY <2>1, MergedTypes DEF TypeOK
  <2>3. QED
    BY <1>4, <2>1, <2>2 DEF Merge, TypeOK, AllRanges, RangesOf
<1>5. ASSUME NEW i \in merging, EmitMerged(i) PROVE TypeOK'
  <2>1. i \in Items
    BY DEF TypeOK
  <2>2. ChanOK'
    BY <1>5, <2>1, SendEffect DEF EmitMerged, Channels
  <2>3. QED
    BY <1>5, <2>2 DEF EmitMerged, TypeOK, AllRanges, RangesOf
<1>6. CASE CloseAggregated
  BY <1>6 DEF CloseAggregated, Close, Channels, TypeOK, AllRanges, RangesOf
<1>7. ASSUME NEW i, Filter(i) PROVE TypeOK'
  <2>1. ChanOK' /\ i \in Items /\ i.path \in Paths
    <3>1. ChanOK' /\ i \in Items
      BY <1>7, ReceiveEffect, ChannelNames DEF Filter
    <3>2. QED
      BY <3>1 DEF Items
  <2>2. files' = files \cup {IssueKey(i.path)} /\ IssueKey(i.path) \in Paths \X BOOLEAN
    BY <1>7, <2>1 DEF Filter, IssueKey
  <2>3. files \subseteq files' /\ files' \subseteq Paths \X BOOLEAN
    BY <2>2 DEF TypeOK
  <2>4. AllRanges \subseteq AllRanges'
    BY <2>3 DEF AllRanges, RangesOf
  <2>5. matched' \subseteq AllRanges'
    <3>1. CASE MatchingRanges(i) = {}
      BY <1>7, <2>4, <3>1 DEF Filter, TypeOK
    <3>2. CASE MatchingRanges(i) # {}
      <4>1. PICK k \in DOMAIN Directives[i.path] :
              Used(matched, IssueKey(i.path), MatchingRanges(i))
                = matched \cup {<<IssueKey(i.path), k>>}
        BY <2>1, <3>2, FirstMatch
      <4>2. matched' = matched \cup {<<IssueKey(i.path), k>>}
        BY <1>7, <3>2, <4>1 DEF Filter
      <4>3. <<IssueKey(i.path), k>> \in AllRanges'
        <5>1. IssueKey(i.path) \in files' /\ IssueKey(i.path)[1] = i.path
          BY <2>2 DEF IssueKey
        <5>2. k \in DOMAIN RangesOf(IssueKey(i.path))
          BY <4>1, <5>1 DEF RangesOf
        <5>3. QED
          BY <5>1, <5>2 DEF AllRanges, RangesOf
      <4>4. QED
        BY <2>4, <4>2, <4>3 DEF TypeOK
    <3>3. QED
      BY <3>1, <3>2
  <2>6. /\ held' \cup suppressed' \subseteq held \cup suppressed \cup {i}
        /\ \A j, k \in held' : j = k
    BY <1>7 DEF Filter
  <2>7. QED
    BY <1>7, <2>1, <2>3, <2>4, <2>5, <2>6 DEF Filter, TypeOK
<1>8. ASSUME NEW i \in held, PassOn(i) PROVE TypeOK'
  <2>1. i \in Items
    BY DEF TypeOK
  <2>2. ChanOK'
    BY <1>8, <2>1, SendEffect DEF PassOn, Channels
  <2>3. QED
    BY <1>8, <2>2 DEF PassOn, TypeOK, AllRanges, RangesOf
<1>9. CASE FindUnused
  BY <1>9 DEF FindUnused, TypeOK, AllRanges, RangesOf, Unused
<1>10. ASSUME NEW u \in unused, WarnUnused(u) PROVE TypeOK'
  <2>1. Unmatched(u[1], u[2]) \in Items
    BY RangeTypes DEF TypeOK
  <2>2. ChanOK'
    BY <1>10, <2>1, SendEffect DEF WarnUnused, Channels
  <2>3. QED
    BY <1>10, <2>2 DEF WarnUnused, TypeOK, AllRanges, RangesOf
<1>11. CASE CloseFiltered
  BY <1>11 DEF CloseFiltered, Close, Channels, TypeOK, AllRanges, RangesOf
<1>12. ASSUME NEW i, Collect(i) PROVE TypeOK'
  <2>1. ChanOK' /\ i \in Items
    BY <1>12, ReceiveEffect DEF Collect, Channels
  <2>2. QED
    BY <1>12, <2>1 DEF Collect, TypeOK, AllRanges, RangesOf
<1>13. ASSUME NEW i \in sorting, EmitSorted(i) PROVE TypeOK'
  <2>1. i \in Items
    BY DEF TypeOK
  <2>2. ChanOK'
    BY <1>13, <2>1, SendEffect DEF EmitSorted, Channels
  <2>3. QED
    BY <1>13, <2>2 DEF EmitSorted, TypeOK, AllRanges, RangesOf
<1>14. CASE CloseSorted
  BY <1>14 DEF CloseSorted, Close, Channels, TypeOK, AllRanges, RangesOf
<1>15. ASSUME NEW i, Output(i) PROVE TypeOK'
  <2>1. ChanOK' /\ i \in Items
    BY <1>15, ReceiveEffect, ChannelNames DEF Output
  <2>2. Append(received, i) \in Seq(Items)
    BY <2>1 DEF TypeOK
  <2>3. QED
    BY <1>15, <2>1, <2>2 DEF Output, TypeOK, AllRanges, RangesOf
<1>16. CASE FinishOutput
  BY <1>16 DEF FinishOutput, TypeOK, AllRanges, RangesOf
<1>17. CASE UNCHANGED vars
  BY <1>17 DEF vars, TypeOK, AllRanges, RangesOf
<1>18. QED
  BY <1>1, <1>2, <1>3, <1>4, <1>5, <1>6, <1>7, <1>8, <1>9, <1>10, <1>11, <1>12, <1>13,
     <1>14, <1>15, <1>16, <1>17
     DEF Next, Aggregator, DirectiveFilter, Sorter, Main, Terminated

-----------------------------------------------------------------------------
(***************************************************************************)
(* The order in which the stages finish.                                   *)
(***************************************************************************)
\* What depends on the configuration alone stays.
LEMMA NamesStay ==
  ASSUME [Next]_vars
  PROVE  FilterIn' = FilterIn /\ MainIn' = MainIn /\ SortOrder' = SortOrder
  BY OptionsStay DEF FilterIn, MainIn, SortOrder

\* No stage reads or writes out of turn.
LEMMA OrderStep == ASSUME TypeOK, InOrder, [Next]_vars PROVE InOrder'
<1> USE DEF envVars, filterVars, mainVars, Channels
<1>0. /\ FilterIn' = FilterIn /\ MainIn' = MainIn /\ opts' = opts
      /\ FilterIn \in {"incoming", "aggregated"} /\ MainIn \in {"filtered", "sorted"}
      /\ FilterIn = "aggregated" <=> opts.aggregate
      /\ opts.aggregate \in BOOLEAN
  BY NamesStay, OptionsStay, ChannelNames, OptionTypes
<1>1. CASE StartReading
  BY <1>0, <1>1 DEF StartReading, InOrder, Drained
<1>2. ASSUME NEW r \in Reports, Feed(r) PROVE InOrder'
  <2>1. \A d \in Channels : d # "incoming" => chan'[d] = chan[d]
    BY <1>2, ReportTypes, SendEffect DEF Feed
  <2>2. QED
    BY <1>0, <1>2, <2>1 DEF Feed, InOrder, Drained
<1>3. CASE CloseIncoming
  BY <1>0, <1>3 DEF CloseIncoming, Close, InOrder, Drained
<1>4. ASSUME NEW i, Merge(i) PROVE InOrder'
  <2>1. chan["incoming"] # <<>> /\ \A d \in Channels : d # "incoming" => chan'[d] = chan[d]
    BY <1>4, ReceiveEffect DEF Merge
  <2>2. QED
    BY <1>0, <1>4, <2>1 DEF Merge, InOrder, Drained
<1>5. ASSUME NEW i \in merging, EmitMerged(i) PROVE InOrder'
  <2>1. \A d \in Channels : d # "aggregated" => chan'[d] = chan[d]
    BY <1>5, SendEffect DEF EmitMerged, TypeOK
  <2>2. QED
    BY <1>0, <1>5, <2>1 DEF EmitMerged, InOrder, Drained
<1>6. CASE CloseAggregated
  BY <1>0, <1>6 DEF CloseAggregated, Close, InOrder, Drained
<1>7. ASSUME NEW i, Filter(i) PROVE InOrder'
  <2>1. chan[FilterIn] # <<>> /\ \A d \in Channels : d # FilterIn => chan'[d] = chan[d]
    BY <1>0, <1>7, ReceiveEffect DEF Filter
  <2>2. opts.aggregate => Drained("incoming") /\ chan'["incoming"] = chan["incoming"]
    BY <1>0, <2>1 DEF InOrder
  <2>3. QED
    BY <1>0, <1>7, <2>1, <2>2 DEF Filter, InOrder, Drained
<1>8. ASSUME NEW i \in held, PassOn(i) PROVE InOrder'
  <2>1. \A d \in Channels : d # "filtered" => chan'[d] = chan[d]
    BY <1>8, SendEffect DEF PassOn, TypeOK
  <2>2. filterAt = "filtering" /\ "filtered" \notin closed /\ (opts.aggregate => Drained("incoming"))
    BY DEF InOrder, TypeOK
  <2>3. QED
    BY <1>0, <1>8, <2>1, <2>2 DEF PassOn, InOrder, Drained
<1>9. CASE FindUnused
  BY <1>0, <1>9 DEF FindUnused, InOrder, Drained
<1>10. ASSUME NEW u \in unused, WarnUnused(u) PROVE InOrder'
  <2>1. Unmatched(u[1], u[2]) \in Items
    BY RangeTypes DEF TypeOK
  <2>2. \A d \in Channels : d # "filtered" => chan'[d] = chan[d]
    BY <1>10, <2>1, SendEffect DEF WarnUnused
  <2>3. /\ filterAt = "warning" /\ Drained(FilterIn) /\ "filtered" \notin closed
        /\ opts.aggregate => Drained("incoming")
    BY <1>0 DEF InOrder, TypeOK, Drained
  <2>4. QED
    BY <1>0, <1>10, <2>2, <2>3 DEF WarnUnused, InOrder, Drained
<1>11. CASE CloseFiltered
  BY <1>0, <1>11 DEF CloseFiltered, Close, InOrder, Drained
<1>12. ASSUME NEW i, Collect(i) PROVE InOrder'
  <2>1. chan["filtered"] # <<>> /\ \A d \in Channels : d # "filtered" => chan'[d] = chan[d]
    BY <1>12, ReceiveEffect DEF Collect
  <2>2. QED
    BY <1>0, <1>12, <2>1 DEF Collect, InOrder, Drained
<1>13. ASSUME NEW i \in sorting, EmitSorted(i) PROVE InOrder'
  <2>1. \A d \in Channels : d # "sorted" => chan'[d] = chan[d]
    BY <1>13, SendEffect DEF EmitSorted, TypeOK
  <2>2. QED
    BY <1>0, <1>13, <2>1 DEF EmitSorted, InOrder, Drained
<1>14. CASE CloseSorted
  BY <1>0, <1>14 DEF CloseSorted, Close, InOrder, Drained
<1>15. ASSUME NEW i, Output(i) PROVE InOrder'
  <2>1. chan[MainIn] # <<>> /\ \A d \in Channels : d # MainIn => chan'[d] = chan[d]
    BY <1>0, <1>15, ReceiveEffect DEF Output
  <2>2. QED
    BY <1>0, <1>15, <2>1 DEF Output, InOrder, Drained
<1>16. CASE FinishOutput
  BY <1>0, <1>16 DEF FinishOutput, InOrder, Drained
<1>17. CASE UNCHANGED vars
  BY <1>0, <1>17 DEF vars, InOrder, Drained
<1>18. QED
  BY <1>1, <1>2, <1>3, <1>4, <1>5, <1>6, <1>7, <1>8, <1>9, <1>10, <1>11, <1>12, <1>13,
     <1>14, <1>15, <1>16, <1>17
     DEF Next, Aggregator, DirectiveFilter, Sorter, Main, Terminated

-----------------------------------------------------------------------------
(***************************************************************************)
(* Where the reports are, for any lines and pools.                         *)
(***************************************************************************)
\* Reports that have no place get one at the end of a line.
LEMMA JoinLine ==
  ASSUME NEW L, NEW P, NEW S, NEW c \in DOMAIN L, NEW i \in Items,
         L[c] \in Seq(Items), Placed(L, P, S), i.from \cap S = {}
  PROVE  Placed([L EXCEPT ![c] = Append(L[c], i)], P, S \cup i.from)
<1> DEFINE M == [L EXCEPT ![c] = Append(L[c], i)]
           e == Len(L[c]) + 1
<1>1. /\ DOMAIN M = DOMAIN L /\ \A d \in DOMAIN L : d # c => M[d] = L[d]
      /\ DOMAIN M[c] = DOMAIN L[c] \cup {e} /\ e \notin DOMAIN L[c]
      /\ M[c][e] = i /\ \A n \in DOMAIN L[c] : M[c][n] = L[c][n]
  <2>1. /\ DOMAIN Append(L[c], i) = 1 .. e
        /\ Append(L[c], i)[e] = i /\ \A n \in DOMAIN L[c] : Append(L[c], i)[n] = L[c][n]
    BY InAppend
  <2>2. DOMAIN L[c] = 1 .. Len(L[c]) /\ Len(L[c]) \in Nat
    OBVIOUS
  <2>3. M[c] = Append(L[c], i)
    OBVIOUS
  <2>4. 1 .. e = DOMAIN L[c] \cup {e} /\ e \notin DOMAIN L[c]
    BY <2>2
  <2>5. QED
    BY <2>1, <2>3, <2>4
<1> HIDE DEF M, e
<1>2. SUFFICES ASSUME NEW r \in Reports
               PROVE  OncePlaced(M, P, r) /\ (OnLine(M, r) \/ InPool(P, r) <=> r \in S \cup i.from)
  BY DEF Placed, M
<1>3. OncePlaced(L, P, r) /\ (OnLine(L, r) \/ InPool(P, r) <=> r \in S)
  BY DEF Placed
<1>4. CASE r \in i.from
  <2>1. ~OnLine(L, r) /\ ~InPool(P, r)
    BY <1>3, <1>4
  <2>2. \A d \in DOMAIN M : \A n \in DOMAIN M[d] : r \in M[d][n].from => d = c /\ n = e
    BY <1>1, <2>1 DEF OnLine
  <2>3. OnLine(M, r)
    BY <1>1, <1>4 DEF OnLine
  <2>4. OncePlaced(M, P, r)
    BY <1>3, <2>1, <2>2 DEF OncePlaced
  <2>5. QED
    BY <1>4, <2>3, <2>4
<1>5. CASE r \notin i.from
  <2>1. \A d \in DOMAIN M : \A n \in DOMAIN M[d] :
          r \in M[d][n].from => n \in DOMAIN L[d] /\ r \in L[d][n].from
    BY <1>1, <1>5
  <2>2. \A d \in DOMAIN L : \A n \in DOMAIN L[d] : n \in DOMAIN M[d] /\ M[d][n] = L[d][n]
    BY <1>1
  <2>3. OnLine(M, r) <=> OnLine(L, r)
    BY <1>1, <2>1, <2>2 DEF OnLine
  <2>4. OncePlaced(M, P, r)
    BY <1>1, <1>3, <2>1, <2>3 DEF OncePlaced
  <2>5. QED
    BY <1>3, <1>5, <2>3, <2>4
<1>6. QED
  BY <1>4, <1>5

\* The reports of the issue at the head of a line lose their place when it goes.
LEMMA LeaveLine ==
  ASSUME NEW L, NEW P, NEW S, NEW c \in DOMAIN L,
         L[c] \in Seq(Items), L[c] # <<>>, Placed(L, P, S)
  PROVE  /\ Placed([L EXCEPT ![c] = Tail(L[c])], P, S \ Head(L[c]).from)
         /\ Head(L[c]).from \cap Reports \subseteq S
<1> DEFINE M == [L EXCEPT ![c] = Tail(L[c])]
           i == Head(L[c])
<1>1. /\ DOMAIN M = DOMAIN L /\ \A d \in DOMAIN L : d # c => M[d] = L[d]
      /\ M[c] = Tail(L[c])
      /\ 1 \in DOMAIN L[c] /\ L[c][1] = i
      /\ \A n \in DOMAIN M[c] : n \in Nat /\ n # 0 /\ n + 1 \in DOMAIN L[c] /\ M[c][n] = L[c][n + 1]
      /\ \A n \in DOMAIN L[c] : n = 1 \/ (n - 1 \in DOMAIN M[c] /\ M[c][n - 1] = L[c][n])
  <2>1. M[c] = Tail(L[c]) /\ Tail(L[c]) \in Seq(Items)
    BY InTail
  <2>2. \A n \in DOMAIN M[c] : n \in Nat /\ n # 0
    BY <2>1
  <2>3. QED
    BY <2>1, <2>2, InTail
<1> HIDE DEF M, i
<1>2. ASSUME NEW r \in Reports
      PROVE  /\ OncePlaced(M, P, r) /\ (OnLine(M, r) \/ InPool(P, r) <=> r \in S \ i.from)
             /\ r \in i.from => r \in S
  <2>1. OncePlaced(L, P, r) /\ (OnLine(L, r) \/ InPool(P, r) <=> r \in S)
    BY DEF Placed
  <2>2. CASE r \in i.from
    <3>1. OnLine(L, r) /\ ~InPool(P, r)
      BY <1>1, <2>1, <2>2 DEF OnLine, OncePlaced
    <3>2. \A d \in DOMAIN L : \A n \in DOMAIN L[d] : r \in L[d][n].from => d = c /\ n = 1
      BY <1>1, <2>1, <2>2 DEF OncePlaced
    <3>3. ASSUME NEW d \in DOMAIN M, NEW n \in DOMAIN M[d], r \in M[d][n].from
          PROVE  FALSE
      <4>1. d = c
        BY <1>1, <3>2, <3>3
      <4>2. n + 1 \in DOMAIN L[c] /\ r \in L[c][n + 1].from /\ n \in Nat /\ n # 0
        BY <1>1, <3>3, <4>1
      <4>3. n + 1 = 1
        BY <3>2, <4>2
      <4>4. QED
        BY <4>2, <4>3
    <3>4. ~OnLine(M, r)
      BY <3>3 DEF OnLine
    <3>5. OncePlaced(M, P, r)
      BY <2>1, <3>3, <3>4 DEF OncePlaced
    <3>6. QED
      BY <2>1, <2>2, <3>1, <3>4, <3>5
  <2>3. CASE r \notin i.from
    <3>1. ASSUME NEW d \in DOMAIN M, NEW n \in DOMAIN M[d], r \in M[d][n].from
          PROVE  /\ d \in DOMAIN L
                 /\ d # c => n \in DOMAIN L[d] /\ r \in L[d][n].from
                 /\ d = c => n \in Nat /\ n + 1 \in DOMAIN L[d] /\ r \in L[d][n + 1].from
      BY <1>1, <3>1
    <3>2. ASSUME NEW d \in DOMAIN L, NEW n \in DOMAIN L[d], r \in L[d][n].from
          PROVE  \E m \in DOMAIN M[d] : r \in M[d][m].from
      <4>1. CASE d = c
        BY <1>1, <2>3, <3>2, <4>1
      <4>2. CASE d # c
        BY <1>1, <3>2, <4>2
      <4>3. QED
        BY <4>1, <4>2
    <3>3. OnLine(M, r) <=> OnLine(L, r)
      <4>1. OnLine(M, r) => OnLine(L, r)
        BY <3>1 DEF OnLine
      <4>2. OnLine(L, r) => OnLine(M, r)
        BY <1>1, <3>2 DEF OnLine
      <4>3. QED
        BY <4>1, <4>2
    <3>4. ASSUME NEW d \in DOMAIN M, NEW b \in DOMAIN M,
                 NEW m \in DOMAIN M[d], NEW n \in DOMAIN M[b],
                 r \in M[d][m].from, r \in M[b][n].from
          PROVE  d = b /\ m = n
      <4>1. d = b
        BY <2>1, <3>1, <3>4 DEF OncePlaced
      <4>2. CASE d = c
        <5>1. /\ m \in Nat /\ n \in Nat /\ m + 1 \in DOMAIN L[c] /\ n + 1 \in DOMAIN L[c]
              /\ r \in L[c][m + 1].from /\ r \in L[c][n + 1].from
          BY <3>1, <3>4, <4>1, <4>2
        <5>2. m + 1 = n + 1
          BY <2>1, <5>1 DEF OncePlaced
        <5>3. QED
          BY <4>1, <5>1, <5>2
      <4>3. CASE d # c
        BY <2>1, <3>1, <3>4, <4>1, <4>3 DEF OncePlaced
      <4>4. QED
        BY <4>2, <4>3
    <3>5. OncePlaced(M, P, r)
      BY <2>1, <3>3, <3>4 DEF OncePlaced
    <3>6. QED
      BY <2>1, <2>3, <3>3, <3>5
  <2>4. QED
    BY <2>2, <2>3
<1>3. QED
  BY <1>2 DEF Placed, M, i

\* Reports that have no place get one in a pool.
LEMMA JoinPool ==
  ASSUME NEW L, NEW P, NEW S, NEW p \in DOMAIN P, NEW i,
         Placed(L, P, S), i.from \cap S = {}
  PROVE  Placed(L, [P EXCEPT ![p] = P[p] \cup {i}], S \cup i.from)
<1> DEFINE Q == [P EXCEPT ![p] = P[p] \cup {i}]
<1>1. /\ DOMAIN Q = DOMAIN P /\ \A q \in DOMAIN P : q # p => Q[q] = P[q]
      /\ Q[p] = P[p] \cup {i}
  OBVIOUS
<1> HIDE DEF Q
<1>2. SUFFICES ASSUME NEW r \in Reports
               PROVE  OncePlaced(L, Q, r) /\ (OnLine(L, r) \/ InPool(Q, r) <=> r \in S \cup i.from)
  BY DEF Placed, Q
<1>3. OncePlaced(L, P, r) /\ (OnLine(L, r) \/ InPool(P, r) <=> r \in S)
  BY DEF Placed
<1>4. CASE r \in i.from
  <2>1. ~OnLine(L, r) /\ ~InPool(P, r)
    BY <1>3, <1>4
  <2>2. \A q \in DOMAIN Q : \A j \in Q[q] : r \in j.from => q = p /\ j = i
    BY <1>1, <2>1 DEF InPool
  <2>3. InPool(Q, r)
    BY <1>1, <1>4 DEF InPool
  <2>4. OncePlaced(L, Q, r)
    BY <1>3, <2>1, <2>2 DEF OncePlaced
  <2>5. QED
    BY <1>4, <2>3, <2>4
<1>5. CASE r \notin i.from
  <2>1. \A q \in DOMAIN Q : \A j \in Q[q] : r \in j.from => j \in P[q]
    BY <1>1, <1>5
  <2>2. InPool(Q, r) <=> InPool(P, r)
    BY <1>1, <2>1 DEF InPool
  <2>3. OncePlaced(L, Q, r)
    BY <1>1, <1>3, <2>1, <2>2 DEF OncePlaced
  <2>4. QED
    BY <1>3, <1>5, <2>2, <2>3
<1>6. QED
  BY <1>4, <1>5

\* The reports of an issue in a pool lose their place when it goes.
LEMMA LeavePool ==
  ASSUME NEW L, NEW P, NEW S, NEW p \in DOMAIN P, NEW i \in P[p], Placed(L, P, S)
  PROVE  /\ Placed(L, [P EXCEPT ![p] = P[p] \ {i}], S \ i.from)
         /\ i.from \cap Reports \subseteq S
<1> DEFINE Q == [P EXCEPT ![p] = P[p] \ {i}]
<1>1. /\ DOMAIN Q = DOMAIN P /\ \A q \in DOMAIN P : q # p => Q[q] = P[q]
      /\ Q[p] = P[p] \ {i}
  OBVIOUS
<1> HIDE DEF Q
<1>2. ASSUME NEW r \in Reports
      PROVE  /\ OncePlaced(L, Q, r) /\ (OnLine(L, r) \/ InPool(Q, r) <=> r \in S \ i.from)
             /\ r \in i.from => r \in S
  <2>1. OncePlaced(L, P, r) /\ (OnLine(L, r) \/ InPool(P, r) <=> r \in S)
    BY DEF Placed
  <2>2. CASE r \in i.from
    <3>1. InPool(P, r) /\ ~OnLine(L, r)
      BY <2>1, <2>2 DEF InPool, OncePlaced
    <3>2. \A q \in DOMAIN P : \A j \in P[q] : r \in j.from => q = p /\ j = i
      BY <2>1, <2>2 DEF OncePlaced
    <3>3. ~InPool(Q, r)
      BY <1>1, <3>2 DEF InPool
    <3>4. OncePlaced(L, Q, r)
      BY <2>1, <3>1, <3>3 DEF OncePlaced, InPool
    <3>5. QED
      BY <2>1, <2>2, <3>1, <3>3, <3>4
  <2>3. CASE r \notin i.from
    <3>1. \A q \in DOMAIN P : \A j \in P[q] : r \in j.from => j \in Q[q]
      BY <1>1, <2>3
    <3>2. \A q \in DOMAIN Q : \A j \in Q[q] : j \in P[q]
      BY <1>1
    <3>3. InPool(Q, r) <=> InPool(P, r)
      BY <1>1, <3>1, <3>2 DEF InPool
    <3>4. OncePlaced(L, Q, r)
      BY <1>1, <2>1, <3>2, <3>3 DEF OncePlaced
    <3>5. QED
      BY <2>1, <2>3, <3>3, <3>4
  <2>4. QED
    BY <2>2, <2>3
<1>3. QED
  BY <1>2 DEF Placed, Q

\* Only reports count.
LEMMA PlacedOnly ==
  ASSUME NEW L, NEW P, NEW S, NEW T, S \cap Reports = T \cap Reports, Placed(L, P, S)
  PROVE  Placed(L, P, T)
  BY DEF Placed

\* What the lines and the pools are, and how they change.
LEMMA LinesChange ==
  /\ DOMAIN Lines = Channels \cup {"received"} /\ "received" \notin Channels
  /\ Lines["received"] = received /\ \A c \in Channels : Lines[c] = chan[c]
  /\ UNCHANGED <<chan, received>> => Lines' = Lines
  /\ \A c \in Channels : \A x :
       chan \in [Channels -> Seq(Items)] /\ chan' = [chan EXCEPT ![c] = x] /\ received' = received
         => Lines' = [Lines EXCEPT ![c] = x]
  /\ \A c \in Channels : \A x :
       chan \in [Channels -> Seq(Items)] /\ chan' = [chan EXCEPT ![c] = x]
         => Lines' = [[Lines EXCEPT ![c] = x] EXCEPT !["received"] = received']
<1>1. "received" \notin Channels
  BY DEF Channels
<1>2. DOMAIN Lines = Channels \cup {"received"}
  BY DEF Lines
<1>3. Lines["received"] = received /\ \A c \in Channels : Lines[c] = chan[c]
  BY <1>1 DEF Lines
<1>4. UNCHANGED <<chan, received>> => Lines' = Lines
  BY DEF Lines
<1>5. ASSUME NEW c \in Channels, NEW x,
             chan \in [Channels -> Seq(Items)], chan' = [chan EXCEPT ![c] = x]
      PROVE  /\ Lines' = [[Lines EXCEPT ![c] = x] EXCEPT !["received"] = received']
             /\ received' = received => Lines' = [Lines EXCEPT ![c] = x]
  BY <1>1, <1>5 DEF Lines
<1>6. QED
  BY <1>1, <1>2, <1>3, <1>4, <1>5

\* The same of the pools.
LEMMA PoolsChange ==
  /\ DOMAIN Pools = {"merging", "held", "sorting", "suppressed"}
  /\ Pools["merging"] = merging /\ Pools["held"] = held
  /\ Pools["sorting"] = sorting /\ Pools["suppressed"] = suppressed
  /\ UNCHANGED <<merging, held, sorting, suppressed>> => Pools' = Pools
  /\ UNCHANGED <<held, sorting, suppressed>> => Pools' = [Pools EXCEPT !["merging"] = merging']
  /\ UNCHANGED <<merging, sorting, suppressed>> => Pools' = [Pools EXCEPT !["held"] = held']
  /\ UNCHANGED <<merging, held, suppressed>> => Pools' = [Pools EXCEPT !["sorting"] = sorting']
  /\ UNCHANGED <<merging, held, sorting>> => Pools' = [Pools EXCEPT !["suppressed"] = suppressed']
  BY DEF Pools

\* Merging with an issue of the same key takes that one out and puts a larger one in.
LEMMA MergeEffect ==
  ASSUME NEW set, set \subseteq Items, NEW i \in Items, NEW j \in set, SameKey(i, j),
         \A x, y \in set : SameKey(x, y) => x = y
  PROVE  Merged(set, i) = (set \ {j}) \cup {[j EXCEPT !.from = j.from \cup i.from]}
<1>1. ASSUME NEW x \in set
      PROVE  SameKey(i, x) <=> x = j
  BY DEF SameKey
<1>2. QED
  BY <1>1 DEF Merged

\* A sequence of a line and what is left of it, in a step that moves its head.
LEMMA PlacedStep ==
  ASSUME TypeOK, InOrder, OneForEachKey, Placed(Lines, Pools, fed), [Next]_vars
  PROVE  Placed(Lines, Pools, fed)'
<1> SUFFICES Placed(Lines', Pools', fed')
  BY DEF Placed, OncePlaced, OnLine, InPool
<1> USE DEF envVars, filterVars, mainVars
<1>0. /\ "incoming" \in Channels /\ "aggregated" \in Channels
      /\ "filtered" \in Channels /\ "sorted" \in Channels
      /\ chan \in [Channels -> Seq(Items)]
  BY DEF Channels, TypeOK
<1>a. ASSUME UNCHANGED <<chan, received, merging, held, sorting, suppressed, fed>>
      PROVE  Placed(Lines', Pools', fed')
  BY <1>a, LinesChange, PoolsChange
<1>1. CASE StartReading
  BY <1>1, <1>a DEF StartReading
<1>2. ASSUME NEW r \in Reports, Feed(r) PROVE Placed(Lines', Pools', fed')
  <2> DEFINE i == Issue(r, {r})
  <2>1. i \in Items /\ i.from = {r}
    BY ReportTypes
  <2>2. chan' = [chan EXCEPT !["incoming"] = Append(chan["incoming"], i)]
    BY <1>0, <1>2, <2>1, SendEffect DEF Feed
  <2>3. Lines' = [Lines EXCEPT !["incoming"] = Append(Lines["incoming"], i)] /\ Pools' = Pools
    BY <1>0, <1>2, <2>2, LinesChange, PoolsChange DEF Feed
  <2>4. fed' = fed \cup i.from /\ i.from \cap fed = {}
    BY <1>2, <2>1 DEF Feed
  <2>5. Lines["incoming"] \in Seq(Items) /\ "incoming" \in DOMAIN Lines
    BY <1>0, LinesChange
  <2> HIDE DEF i
  <2>6. QED
    BY <2>1, <2>3, <2>4, <2>5, JoinLine
<1>3. CASE CloseIncoming
  BY <1>3, <1>a DEF CloseIncoming
<1>6. CASE CloseAggregated
  BY <1>6, <1>a DEF CloseAggregated
<1>9. CASE FindUnused
  BY <1>9, <1>a DEF FindUnused
<1>11. CASE CloseFiltered
  BY <1>11, <1>a DEF CloseFiltered
<1>14. CASE CloseSorted
  BY <1>14, <1>a DEF CloseSorted
<1>16. CASE FinishOutput
  BY <1>16, <1>a DEF FinishOutput
<1>17. CASE UNCHANGED vars
  BY <1>17, <1>a DEF vars
\* An issue that leaves a line.
<1>b. ASSUME NEW c \in Channels, NEW i, Receive(c, i)
      PROVE  /\ i \in Items /\ i.from \cap Reports \subseteq fed
             /\ Placed([Lines EXCEPT ![c] = chan'[c]], Pools, fed \ i.from)
             /\ received' = received => Lines' = [Lines EXCEPT ![c] = chan'[c]]
             /\ Lines' = [[Lines EXCEPT ![c] = chan'[c]] EXCEPT !["received"] = received']
  <2>1. /\ i \in Items /\ i = Head(chan[c]) /\ chan[c] # <<>> /\ chan'[c] = Tail(chan[c])
        /\ chan' = [chan EXCEPT ![c] = chan'[c]]
    BY <1>b, ReceiveEffect
  <2>2. Lines[c] = chan[c] /\ c \in DOMAIN Lines /\ chan[c] \in Seq(Items)
    BY <1>0, LinesChange
  <2>3. Placed([Lines EXCEPT ![c] = chan'[c]], Pools, fed \ i.from) /\ i.from \cap Reports \subseteq fed
    BY <2>1, <2>2, LeaveLine
  <2>4. QED
    BY <1>0, <2>1, <2>3, LinesChange
\* An issue that leaves a pool for a channel.
<1>c. ASSUME NEW p \in DOMAIN Pools, NEW i \in Pools[p], NEW c \in Channels, i \in Items,
             Send(c, i), received' = received, fed' = fed,
             Pools' = [Pools EXCEPT ![p] = Pools[p] \ {i}]
      PROVE  Placed(Lines', Pools', fed')
  <2>1. Placed(Lines, Pools', fed \ i.from) /\ i.from \cap Reports \subseteq fed
    BY <1>c, LeavePool
  <2>2. chan' = [chan EXCEPT ![c] = Append(chan[c], i)]
    BY <1>c, SendEffect
  <2>3. Lines' = [Lines EXCEPT ![c] = Append(Lines[c], i)]
    BY <1>0, <1>c, <2>2, LinesChange
  <2>4. Lines[c] \in Seq(Items) /\ c \in DOMAIN Lines
    BY <1>0, LinesChange
  <2>5. i.from \cap (fed \ i.from) = {}
    OBVIOUS
  <2>6. Placed(Lines', Pools', (fed \ i.from) \cup i.from)
    BY <1>c, <2>1, <2>3, <2>4, <2>5, JoinLine
  <2>7. ((fed \ i.from) \cup i.from) \cap Reports = fed' \cap Reports
    BY <1>c, <2>1
  <2>8. QED
    BY <2>6, <2>7, PlacedOnly
<1>4. ASSUME NEW i, Merge(i) PROVE Placed(Lines', Pools', fed')
  <2>1. /\ i \in Items /\ i.from \cap Reports \subseteq fed
        /\ Placed(Lines', Pools, fed \ i.from)
    <3>1. Receive("incoming", i) /\ received' = received
      BY <1>4 DEF Merge
    <3>2. /\ i \in Items /\ i.from \cap Reports \subseteq fed
          /\ Placed([Lines EXCEPT !["incoming"] = chan'["incoming"]], Pools, fed \ i.from)
          /\ Lines' = [Lines EXCEPT !["incoming"] = chan'["incoming"]]
      BY <1>0, <1>b, <3>1
    <3>3. QED
      BY <3>2, Zenon
  <2>2. Pools' = [Pools EXCEPT !["merging"] = merging'] /\ fed' = fed
    BY <1>4, PoolsChange DEF Merge
  <2>3. Pools["merging"] = merging /\ "merging" \in DOMAIN Pools
    BY PoolsChange
  <2>4. CASE ~\E j \in merging : SameKey(i, j)
    <3>1. Pools' = [Pools EXCEPT !["merging"] = Pools["merging"] \cup {i}]
      BY <1>4, <2>2, <2>3, <2>4 DEF Merge, Merged
    <3>2. i.from \cap (fed \ i.from) = {}
      OBVIOUS
    <3>3. Placed(Lines', Pools', (fed \ i.from) \cup i.from)
      BY <2>1, <2>3, <3>1, <3>2, JoinPool
    <3>4. ((fed \ i.from) \cup i.from) \cap Reports = fed' \cap Reports
      BY <2>1, <2>2
    <3>5. QED
      BY <3>3, <3>4, PlacedOnly
  <2>5. CASE \E j \in merging : SameKey(i, j)
    <3>1. PICK j \in merging : SameKey(i, j)
      BY <2>5
    <3> DEFINE k == [j EXCEPT !.from = j.from \cup i.from]
               P == [Pools EXCEPT !["merging"] = Pools["merging"] \ {j}]
               S == (fed \ i.from) \ j.from
    <3>2. merging' = (merging \ {j}) \cup {k}
      BY <1>4, <2>1, <3>1, MergeEffect DEF Merge, OneForEachKey, TypeOK
    <3>3. k.from = j.from \cup i.from
      BY <3>1 DEF TypeOK, Items
    <3>4. Placed(Lines', P, S) /\ j.from \cap Reports \subseteq fed
      BY <2>1, <2>3, LeavePool
    <3>5. Pools' = [P EXCEPT !["merging"] = P["merging"] \cup {k}] /\ "merging" \in DOMAIN P
      BY <2>2, <2>3, <3>2, PoolsChange
    <3>6. k.from \cap S = {}
      BY <3>3
    <3> HIDE DEF k, P, S
    <3>7. Placed(Lines', Pools', S \cup k.from)
      BY <3>4, <3>5, <3>6, JoinPool
    <3>8. (S \cup k.from) \cap Reports = fed' \cap Reports
      BY <2>1, <2>2, <3>3, <3>4 DEF S
    <3>9. QED
      BY <3>7, <3>8, PlacedOnly
  <2>6. QED
    BY <2>4, <2>5
<1>5. ASSUME NEW i \in merging, EmitMerged(i) PROVE Placed(Lines', Pools', fed')
  <2>1. i \in Items /\ Pools["merging"] = merging /\ "merging" \in DOMAIN Pools
    BY PoolsChange DEF TypeOK
  <2>2. Pools' = [Pools EXCEPT !["merging"] = Pools["merging"] \ {i}]
    BY <1>5, <2>1, PoolsChange DEF EmitMerged
  <2>3. Send("aggregated", i) /\ received' = received /\ fed' = fed
    BY <1>5 DEF EmitMerged
  <2>4. QED
    BY <1>0, <1>c, <2>1, <2>2, <2>3
<1>d. ASSUME NEW p \in DOMAIN Pools, NEW i, NEW c \in Channels, Receive(c, i),
             received' = received, fed' = fed, Pools' = [Pools EXCEPT ![p] = Pools[p] \cup {i}]
      PROVE  Placed(Lines', Pools', fed')
  <2>1. i.from \cap Reports \subseteq fed /\ Placed(Lines', Pools, fed \ i.from)
    <3>1. /\ i.from \cap Reports \subseteq fed
          /\ Placed([Lines EXCEPT ![c] = chan'[c]], Pools, fed \ i.from)
          /\ Lines' = [Lines EXCEPT ![c] = chan'[c]]
      BY <1>b, <1>d
    <3>2. QED
      BY <3>1, Zenon
  <2>2. i.from \cap (fed \ i.from) = {}
    OBVIOUS
  <2>3. Placed(Lines', Pools', (fed \ i.from) \cup i.from)
    BY <1>d, <2>1, <2>2, JoinPool
  <2>4. ((fed \ i.from) \cup i.from) \cap Reports = fed' \cap Reports
    BY <1>d, <2>1
  <2>5. QED
    BY <2>3, <2>4, PlacedOnly
<1>7. ASSUME NEW i, Filter(i) PROVE Placed(Lines', Pools', fed')
  <2>1. Receive(FilterIn, i) /\ FilterIn \in Channels /\ received' = received /\ fed' = fed
    BY <1>7, ChannelNames DEF Filter
  <2>2. Pools["suppressed"] = suppressed /\ Pools["held"] = held
        /\ "suppressed" \in DOMAIN Pools /\ "held" \in DOMAIN Pools
    BY PoolsChange
  <2>3. CASE MatchingRanges(i) # {}
    <3>1. Pools' = [Pools EXCEPT !["suppressed"] = Pools["suppressed"] \cup {i}]
      BY <1>7, <2>2, <2>3, PoolsChange DEF Filter
    <3>2. QED
      BY <1>d, <2>1, <2>2, <3>1
  <2>4. CASE MatchingRanges(i) = {}
    <3>1. Pools' = [Pools EXCEPT !["held"] = Pools["held"] \cup {i}]
      BY <1>7, <2>2, <2>4, PoolsChange DEF Filter
    <3>2. QED
      BY <1>d, <2>1, <2>2, <3>1
  <2>5. QED
    BY <2>3, <2>4
<1>8. ASSUME NEW i \in held, PassOn(i) PROVE Placed(Lines', Pools', fed')
  <2>1. i \in Items /\ Pools["held"] = held /\ "held" \in DOMAIN Pools /\ held \ {i} = {}
    BY PoolsChange DEF TypeOK
  <2>2. Pools' = [Pools EXCEPT !["held"] = Pools["held"] \ {i}]
    BY <1>8, <2>1, PoolsChange DEF PassOn
  <2>3. Send("filtered", i) /\ received' = received /\ fed' = fed
    BY <1>8 DEF PassOn
  <2>4. QED
    BY <1>0, <1>c, <2>1, <2>2, <2>3
<1>10. ASSUME NEW u \in unused, WarnUnused(u) PROVE Placed(Lines', Pools', fed')
  <2> DEFINE i == Unmatched(u[1], u[2])
  <2>1. i \in Items /\ i.from = {u} /\ u \in (Paths \X BOOLEAN) \X Nat
    BY RangeTypes DEF TypeOK
  <2>2. i.from \cap fed = {} /\ i.from \cap Reports = {}
    BY <2>1, NamesAssumption DEF TypeOK
  <2>3. Send("filtered", i) /\ received' = received /\ fed' = fed
    BY <1>10 DEF WarnUnused
  <2> HIDE DEF i
  <2>4. chan' = [chan EXCEPT !["filtered"] = Append(chan["filtered"], i)]
    BY <1>0, <2>1, <2>3, SendEffect
  <2>5. Lines' = [Lines EXCEPT !["filtered"] = Append(Lines["filtered"], i)] /\ Pools' = Pools
    BY <1>0, <1>10, <2>3, <2>4, LinesChange, PoolsChange DEF WarnUnused
  <2>6. Lines["filtered"] \in Seq(Items) /\ "filtered" \in DOMAIN Lines
    BY <1>0, LinesChange
  <2>7. Placed(Lines', Pools', fed \cup i.from)
    BY <2>1, <2>2, <2>5, <2>6, JoinLine
  <2>8. (fed \cup i.from) \cap Reports = fed' \cap Reports
    BY <2>2, <2>3
  <2>9. QED
    BY <2>7, <2>8, PlacedOnly
<1>12. ASSUME NEW i, Collect(i) PROVE Placed(Lines', Pools', fed')
  <2>1. Receive("filtered", i) /\ received' = received /\ fed' = fed
    BY <1>12 DEF Collect
  <2>2. Pools["sorting"] = sorting /\ "sorting" \in DOMAIN Pools
    BY PoolsChange
  <2>3. Pools' = [Pools EXCEPT !["sorting"] = Pools["sorting"] \cup {i}]
    BY <1>12, <2>2, PoolsChange DEF Collect
  <2>4. QED
    BY <1>0, <1>d, <2>1, <2>2, <2>3
<1>13. ASSUME NEW i \in sorting, EmitSorted(i) PROVE Placed(Lines', Pools', fed')
  <2>1. i \in Items /\ Pools["sorting"] = sorting /\ "sorting" \in DOMAIN Pools
    BY PoolsChange DEF TypeOK
  <2>2. Pools' = [Pools EXCEPT !["sorting"] = Pools["sorting"] \ {i}]
    BY <1>13, <2>1, PoolsChange DEF EmitSorted
  <2>3. Send("sorted", i) /\ received' = received /\ fed' = fed
    BY <1>13 DEF EmitSorted
  <2>4. QED
    BY <1>0, <1>c, <2>1, <2>2, <2>3
<1>15. ASSUME NEW i, Output(i) PROVE Placed(Lines', Pools', fed')
  <2> DEFINE L == [Lines EXCEPT ![MainIn] = chan'[MainIn]]
  <2>1. Receive(MainIn, i) /\ MainIn \in Channels /\ fed' = fed /\ received' = Append(received, i)
    BY <1>15, ChannelNames DEF Output
  <2>2. /\ i \in Items /\ i.from \cap Reports \subseteq fed /\ Placed(L, Pools, fed \ i.from)
        /\ Lines' = [L EXCEPT !["received"] = received']
    BY <1>b, <2>1
  <2>3. DOMAIN L = DOMAIN Lines /\ "received" \in DOMAIN L /\ L["received"] = received
    BY <2>1, LinesChange
  <2>4. Pools' = Pools /\ received \in Seq(Items)
    BY <1>15, PoolsChange DEF Output, TypeOK
  <2>5. i.from \cap (fed \ i.from) = {}
    OBVIOUS
  <2> HIDE DEF L
  <2>6. Placed(Lines', Pools', (fed \ i.from) \cup i.from)
    BY <2>1, <2>2, <2>3, <2>4, <2>5, JoinLine
  <2>7. ((fed \ i.from) \cup i.from) \cap Reports = fed' \cap Reports
    BY <2>1, <2>2
  <2>8. QED
    BY <2>6, <2>7, PlacedOnly
<1>18. QED
  BY <1>1, <1>2, <1>3, <1>4, <1>5, <1>6, <1>7, <1>8, <1>9, <1>10, <1>11, <1>12, <1>13,
     <1>14, <1>15, <1>16, <1>17
     DEF Next, Aggregator, DirectiveFilter, Sorter, Main, Terminated

-----------------------------------------------------------------------------
(***************************************************************************)
(* How each step moves the issues.                                         *)
(***************************************************************************)
LEMMA FeedMoves ==
  ASSUME TypeOK, NEW r \in Reports, Feed(r)
  PROVE  /\ IssuesIn(chan["incoming"])' = IssuesIn(chan["incoming"]) \cup {Issue(r, {r})}
         /\ BeforeFilter' = BeforeFilter \cup {Issue(r, {r})}
         /\ AfterFilter' = AfterFilter
         /\ \A d \in Channels : d # "incoming" => chan'[d] = chan[d]
<1> DEFINE i == Issue(r, {r})
<1>1. i \in Items
  BY ReportTypes
<1> HIDE DEF i
<1>2. /\ IssuesIn(chan'["incoming"]) = IssuesIn(chan["incoming"]) \cup {i}
      /\ \A d \in Channels : d # "incoming" => chan'[d] = chan[d]
  BY <1>1, SendEffect DEF Feed, Channels, i
<1>3. QED
  BY <1>2 DEF Feed, BeforeFilter, AfterFilter, IssuesIn, Channels, filterVars, mainVars, i

\* Merging takes an issue from the first channel and puts what becomes of it in the map.
LEMMA MergeMoves ==
  ASSUME TypeOK, NEW i, Merge(i)
  PROVE  /\ i \in Items
         /\ IssuesIn(chan["incoming"]) = {i} \cup IssuesIn(chan["incoming"])'
         /\ BeforeFilter' = IssuesIn(chan["incoming"])' \cup Merged(merging, i)
                            \cup IssuesIn(chan["aggregated"])
         /\ AfterFilter' = AfterFilter
         /\ \A d \in Channels : d # "incoming" => chan'[d] = chan[d]
<1>1. /\ i \in Items /\ IssuesIn(chan["incoming"]) = {i} \cup IssuesIn(chan'["incoming"])
      /\ \A d \in Channels : d # "incoming" => chan'[d] = chan[d]
  BY ReceiveEffect DEF Merge, Channels
<1>2. QED
  BY <1>1 DEF Merge, BeforeFilter, AfterFilter, IssuesIn, Channels, filterVars, mainVars

\* An issue that leaves the map stays before the filter.
LEMMA EmitMergedMoves ==
  ASSUME TypeOK, NEW i \in merging, EmitMerged(i)
  PROVE  /\ BeforeFilter' = BeforeFilter /\ AfterFilter' = AfterFilter
         /\ \A d \in Channels : d # "aggregated" => chan'[d] = chan[d]
<1>1. /\ IssuesIn(chan'["aggregated"]) = IssuesIn(chan["aggregated"]) \cup {i}
      /\ \A d \in Channels : d # "aggregated" => chan'[d] = chan[d]
  BY SendEffect DEF EmitMerged, Channels, TypeOK
<1>2. merging = merging' \cup {i}
  BY DEF EmitMerged
<1>3. /\ IssuesIn(chan["incoming"])' = IssuesIn(chan["incoming"])
      /\ IssuesIn(chan["aggregated"])' = IssuesIn(chan["aggregated"]) \cup {i}
  BY <1>1 DEF Channels, IssuesIn
<1>4. BeforeFilter' = BeforeFilter
  BY <1>2, <1>3 DEF BeforeFilter
<1>5. AfterFilter' = AfterFilter
  BY <1>1 DEF EmitMerged, AfterFilter, IssuesIn, Channels, mainVars
<1>6. QED
  BY <1>1, <1>4, <1>5

\* Filtering takes an issue from before the filter and passes none on.
LEMMA FilterMoves ==
  ASSUME TypeOK, NEW i, Filter(i)
  PROVE  /\ i \in Items /\ i \in IssuesIn(chan[FilterIn])
         /\ BeforeFilter = BeforeFilter' \cup {i} /\ AfterFilter' = AfterFilter
         /\ \A d \in Channels : d # FilterIn => chan'[d] = chan[d]
<1>1. /\ i \in Items /\ i \in IssuesIn(chan[FilterIn])
      /\ IssuesIn(chan[FilterIn]) = {i} \cup IssuesIn(chan'[FilterIn])
      /\ \A d \in Channels : d # FilterIn => chan'[d] = chan[d]
  BY ReceiveEffect, ChannelNames DEF Filter
<1>2. AfterFilter' = AfterFilter
  BY <1>1, ChannelNames DEF Filter, AfterFilter, IssuesIn, Channels, mainVars
<1>3. merging' = merging
  BY DEF Filter
<1>4. BeforeFilter' = IssuesIn(chan'["incoming"]) \cup merging \cup IssuesIn(chan'["aggregated"])
  BY <1>3 DEF BeforeFilter, IssuesIn
<1>5. BeforeFilter = BeforeFilter' \cup {i}
  <2>1. CASE FilterIn = "incoming"
    BY <1>1, <1>4, <2>1 DEF BeforeFilter, Channels
  <2>2. CASE FilterIn = "aggregated"
    BY <1>1, <1>4, <2>2 DEF BeforeFilter, Channels
  <2>3. QED
    BY <2>1, <2>2, ChannelNames
<1>6. QED
  BY <1>1, <1>2, <1>5

\* An issue passed on comes after the filter.
LEMMA PassOnMoves ==
  ASSUME TypeOK, NEW i \in held, PassOn(i)
  PROVE  /\ BeforeFilter' = BeforeFilter /\ AfterFilter' = AfterFilter \cup {i}
         /\ \A d \in Channels : d # "filtered" => chan'[d] = chan[d]
<1>1. /\ IssuesIn(chan'["filtered"]) = IssuesIn(chan["filtered"]) \cup {i}
      /\ \A d \in Channels : d # "filtered" => chan'[d] = chan[d]
  BY SendEffect DEF PassOn, Channels, TypeOK
<1>2. QED
  BY <1>1 DEF PassOn, BeforeFilter, AfterFilter, IssuesIn, Channels, mainVars

\* So does a warning.
LEMMA WarnMoves ==
  ASSUME TypeOK, NEW u \in unused, WarnUnused(u)
  PROVE  /\ BeforeFilter' = BeforeFilter
         /\ AfterFilter' = AfterFilter \cup {Unmatched(u[1], u[2])}
         /\ \A d \in Channels : d # "filtered" => chan'[d] = chan[d]
<1> DEFINE i == Unmatched(u[1], u[2])
<1>1. i \in Items
  BY RangeTypes DEF TypeOK
<1> HIDE DEF i
<1>2. /\ IssuesIn(chan'["filtered"]) = IssuesIn(chan["filtered"]) \cup {i}
      /\ \A d \in Channels : d # "filtered" => chan'[d] = chan[d]
  BY <1>1, SendEffect DEF WarnUnused, Channels, i
<1>3. QED
  BY <1>2 DEF WarnUnused, BeforeFilter, AfterFilter, IssuesIn, Channels, mainVars, i

\* An issue collected for sorting stays after the filter.
LEMMA CollectMoves ==
  ASSUME TypeOK, NEW i, Collect(i)
  PROVE  /\ i \in Items /\ chan["filtered"] # <<>>
         /\ BeforeFilter' = BeforeFilter /\ AfterFilter' = AfterFilter
         /\ \A d \in Channels : d # "filtered" => chan'[d] = chan[d]
<1>1. /\ i \in Items /\ chan["filtered"] # <<>>
      /\ IssuesIn(chan["filtered"]) = {i} \cup IssuesIn(chan'["filtered"])
      /\ \A d \in Channels : d # "filtered" => chan'[d] = chan[d]
  BY ReceiveEffect DEF Collect, Channels
<1>2. QED
  BY <1>1 DEF Collect, BeforeFilter, AfterFilter, IssuesIn, Channels, mainVars

\* So does one that has been sorted.
LEMMA EmitSortedMoves ==
  ASSUME TypeOK, NEW i \in sorting, EmitSorted(i)
  PROVE  /\ IssuesIn(chan["sorted"])' = IssuesIn(chan["sorted"]) \cup {i}
         /\ BeforeFilter' = BeforeFilter /\ AfterFilter' = AfterFilter
         /\ \A d \in Channels : d # "sorted" => chan'[d] = chan[d]
<1>1. /\ IssuesIn(chan'["sorted"]) = IssuesIn(chan["sorted"]) \cup {i}
      /\ \A d \in Channels : d # "sorted" => chan'[d] = chan[d]
  BY SendEffect DEF EmitSorted, Channels, TypeOK
<1>2. sorting = sorting' \cup {i}
  BY DEF EmitSorted
<1>3. /\ IssuesIn(chan["filtered"])' = IssuesIn(chan["filtered"])
      /\ IssuesIn(chan["sorted"])' = IssuesIn(chan["sorted"]) \cup {i}
      /\ IssuesIn(received)' = IssuesIn(received)
  BY <1>1 DEF Channels, IssuesIn, EmitSorted, mainVars
<1>4. AfterFilter' = AfterFilter
  BY <1>2, <1>3 DEF AfterFilter
<1>5. BeforeFilter' = BeforeFilter
  BY <1>1 DEF EmitSorted, BeforeFilter, IssuesIn, Channels
<1>6. QED
  BY <1>1, <1>3, <1>4, <1>5

\* So does one that main receives, the first of its channel.
LEMMA OutputMoves ==
  ASSUME TypeOK, NEW i, Output(i)
  PROVE  /\ i \in Items /\ chan[MainIn] # <<>> /\ i = Head(chan[MainIn])
         /\ chan'[MainIn] = Tail(chan[MainIn])
         /\ IssuesIn(received)' = IssuesIn(received) \cup {i}
         /\ BeforeFilter' = BeforeFilter /\ AfterFilter' = AfterFilter
         /\ \A d \in Channels : d # MainIn => chan'[d] = chan[d]
<1>1. /\ i \in Items /\ chan[MainIn] # <<>> /\ i = Head(chan[MainIn])
      /\ chan'[MainIn] = Tail(chan[MainIn])
      /\ IssuesIn(chan[MainIn]) = {i} \cup IssuesIn(chan'[MainIn])
      /\ \A d \in Channels : d # MainIn => chan'[d] = chan[d]
  BY ReceiveEffect, ChannelNames DEF Output
<1>2. IssuesIn(received') = IssuesIn(received) \cup {i}
  BY <1>1, InAppend DEF Output, TypeOK
<1>3. AfterFilter' = IssuesIn(chan'["filtered"]) \cup sorting
                     \cup IssuesIn(chan'["sorted"]) \cup IssuesIn(received')
  BY DEF Output, AfterFilter, IssuesIn
<1>4. AfterFilter' = AfterFilter
  <2>1. CASE MainIn = "filtered"
    BY <1>1, <1>2, <1>3, <2>1 DEF AfterFilter, Channels
  <2>2. CASE MainIn = "sorted"
    BY <1>1, <1>2, <1>3, <2>2 DEF AfterFilter, Channels
  <2>3. QED
    BY <2>1, <2>2, ChannelNames
<1>5. BeforeFilter' = BeforeFilter
  BY <1>1, ChannelNames DEF Output, BeforeFilter, IssuesIn, Channels
<1>6. QED
  BY <1>1, <1>2, <1>4, <1>5 DEF IssuesIn

-----------------------------------------------------------------------------
(***************************************************************************)
(* What the issues are.                                                    *)
(***************************************************************************)
\* What is said of an issue stays true of it.
LEMMA IssueStays ==
  ASSUME NEW i, [Next]_vars, TypeOK
  PROVE  /\ IsReported(i)' <=> IsReported(i)
         /\ IsLetThrough(i) => IsLetThrough(i)'
<1>1. IsReported(i)' <=> IsReported(i)
  BY OptionsStay DEF IsReported
<1>2. files \subseteq files'
  BY DEF vars, Next, StartReading, Feed, CloseIncoming, Aggregator, Merge, EmitMerged,
         CloseAggregated, DirectiveFilter, Filter, PassOn, FindUnused, WarnUnused,
         CloseFiltered, Sorter, Collect, EmitSorted, CloseSorted, Main, Output,
         FinishOutput, Terminated, filterVars
<1>3. AllRanges \subseteq AllRanges'
  BY <1>2 DEF AllRanges, RangesOf
<1>4. IsWarning(i) => IsWarning(i)'
  BY <1>3 DEF IsWarning, Unmatched, RangesOf
<1>5. MatchingRanges(i)' = MatchingRanges(i)
  BY DEF MatchingRanges, Matches, NamedBy
<1>6. QED
  BY <1>1, <1>4, <1>5 DEF IsLetThrough

\* A single report is an issue as it was reported.
LEMMA ReportIsReported == \A r \in Reports : IsReported(Issue(r, {r}))
  BY DEF IsReported, Issue

\* A warning is not an issue that was reported.
LEMMA WarningIsNoReport ==
  ASSUME TypeOK, NEW i, IsReported(i), NEW u \in AllRanges
  PROVE  i.from # {u} /\ u \notin i.from
  BY RangeTypes, NamesAssumption DEF IsReported

\* Issues stay what the linters reported, and the filter lets no other through.
LEMMA ReportedStep ==
  ASSUME TypeOK, InOrder, IssuesAsReported, [Next]_vars
  PROVE  IssuesAsReported'
<1> USE DEF envVars, filterVars, mainVars
<1> DEFINE In == IssuesIn(chan["incoming"])
           RightIn == \A i \in In : \E r \in Reports : i = Issue(r, {r})
           RightBefore == \A i \in BeforeFilter : IsReported(i)
           RightHeld == \A i \in held : IsReported(i) /\ MatchingRanges(i) = {}
           RightSuppressed == \A i \in suppressed : IsReported(i) /\ MatchingRanges(i) # {}
           RightAfter == \A i \in AfterFilter : IsLetThrough(i)
<1>0. /\ \A i : (IsReported(i)' <=> IsReported(i)) /\ (IsLetThrough(i) => IsLetThrough(i)')
      /\ RightIn /\ RightBefore /\ RightHeld /\ RightSuppressed /\ RightAfter
  BY IssueStays DEF IssuesAsReported
<1>a. ASSUME \A i \in In' : \E r \in Reports : i = Issue(r, {r}),
             \A i \in BeforeFilter' : IsReported(i),
             \A i \in held' : IsReported(i) /\ MatchingRanges(i) = {},
             \A i \in suppressed' : IsReported(i) /\ MatchingRanges(i) # {},
             \A i \in AfterFilter' : IsLetThrough(i)'
      PROVE  IssuesAsReported'
  <2>1. RightIn'
    BY <1>a DEF Issue
  <2>2. RightBefore'
    BY <1>0, <1>a
  <2>3. RightHeld' /\ RightSuppressed'
    BY <1>0, <1>a DEF MatchingRanges, Matches, NamedBy
  <2>4. RightAfter'
    BY <1>a
  <2>5. QED
    BY <2>1, <2>2, <2>3, <2>4 DEF IssuesAsReported
<1>b. ASSUME UNCHANGED <<chan, received, merging, held, sorting, suppressed>>
      PROVE  IssuesAsReported'
  <2>1. In' = In /\ BeforeFilter' = BeforeFilter /\ AfterFilter' = AfterFilter
    BY <1>b DEF BeforeFilter, AfterFilter, IssuesIn
  <2>2. QED
    BY <1>0, <1>a, <1>b, <2>1
<1>c. "incoming" \in Channels /\ FilterIn \in {"incoming", "aggregated"}
      /\ \A d : chan'[d] = chan[d] => IssuesIn(chan[d])' = IssuesIn(chan[d])
  BY ChannelNames DEF Channels, IssuesIn
<1> HIDE DEF In
<1>1. CASE StartReading
  BY <1>1, <1>b DEF StartReading
<1>2. ASSUME NEW r \in Reports, Feed(r) PROVE IssuesAsReported'
  <2>1. /\ In' = In \cup {Issue(r, {r})} /\ BeforeFilter' = BeforeFilter \cup {Issue(r, {r})}
        /\ AfterFilter' = AfterFilter /\ IsReported(Issue(r, {r}))
    BY <1>2, FeedMoves, ReportIsReported DEF In
  <2>2. held' = held /\ suppressed' = suppressed
    BY <1>2 DEF Feed
  <2>3. QED
    BY <1>0, <1>a, <2>1, <2>2
<1>3. CASE CloseIncoming
  BY <1>3, <1>b DEF CloseIncoming
<1>4. ASSUME NEW i, Merge(i) PROVE IssuesAsReported'
  <2>1. /\ i \in Items /\ In = {i} \cup In' /\ AfterFilter' = AfterFilter
        /\ BeforeFilter' = In' \cup Merged(merging, i) \cup IssuesIn(chan["aggregated"])
    BY <1>4, MergeMoves DEF In
  <2>2. held' = held /\ suppressed' = suppressed /\ opts.aggregate
    BY <1>4 DEF Merge
  <2>3. In \subseteq BeforeFilter /\ merging \subseteq BeforeFilter
        /\ IssuesIn(chan["aggregated"]) \subseteq BeforeFilter
    BY DEF In, BeforeFilter
  <2>4. ASSUME NEW j \in merging, SameKey(i, j)
        PROVE  IsReported([j EXCEPT !.from = @ \cup i.from])
    <3> DEFINE k == [j EXCEPT !.from = @ \cup i.from]
    <3>1. IsReported(i) /\ IsReported(j) /\ j \in Items
      BY <1>0, <2>1, <2>3 DEF TypeOK
    <3>2. /\ k.from = j.from \cup i.from /\ k.path = j.path /\ k.line = j.line
          /\ k.message = j.message /\ k.severity = j.severity
      BY <3>1 DEF Items
    <3>3. i.path = j.path /\ i.line = j.line /\ i.message = j.message
      BY <2>4 DEF SameKey
    <3> HIDE DEF k
    <3>4. IsReported(k)
      BY <2>2, <3>1, <3>2, <3>3 DEF IsReported
    <3>5. QED
      BY <3>4 DEF k
  <2>5. \A j \in Merged(merging, i) : IsReported(j)
    BY <1>0, <2>1, <2>3, <2>4 DEF Merged
  <2>6. \A j \in BeforeFilter' : IsReported(j)
    BY <1>0, <2>1, <2>3, <2>5
  <2>7. QED
    BY <1>0, <1>a, <2>1, <2>2, <2>6
<1>5. ASSUME NEW i \in merging, EmitMerged(i) PROVE IssuesAsReported'
  <2>1. BeforeFilter' = BeforeFilter /\ AfterFilter' = AfterFilter /\ In' = In
    BY <1>5, <1>c, EmitMergedMoves DEF In
  <2>2. held' = held /\ suppressed' = suppressed
    BY <1>5 DEF EmitMerged
  <2>3. QED
    BY <1>0, <1>a, <2>1, <2>2
<1>6. CASE CloseAggregated
  BY <1>6, <1>b DEF CloseAggregated
<1>7. ASSUME NEW i, Filter(i) PROVE IssuesAsReported'
  <2>1. BeforeFilter = BeforeFilter' \cup {i} /\ AfterFilter' = AfterFilter /\ In' \subseteq In
    <3>1. BeforeFilter = BeforeFilter' \cup {i} /\ AfterFilter' = AfterFilter
      BY <1>7, FilterMoves
    <3>2. IssuesIn(chan[FilterIn]) = {i} \cup IssuesIn(chan'[FilterIn])
          /\ \A d \in Channels : d # FilterIn => chan'[d] = chan[d]
      BY <1>7, ReceiveEffect, ChannelNames DEF Filter
    <3>3. In' \subseteq In
      BY <1>c, <3>2 DEF In, IssuesIn
    <3>4. QED
      BY <3>1, <3>3
  <2>2. CASE MatchingRanges(i) # {}
    <3>1. suppressed' = suppressed \cup {i} /\ held' = held
      BY <1>7, <2>2 DEF Filter
    <3>2. QED
      BY <1>0, <1>a, <2>1, <2>2, <3>1
  <2>3. CASE MatchingRanges(i) = {}
    <3>1. held' = {i} /\ suppressed' = suppressed
      BY <1>7, <2>3 DEF Filter
    <3>2. QED
      BY <1>0, <1>a, <2>1, <2>3, <3>1
  <2>4. QED
    BY <2>2, <2>3
<1>8. ASSUME NEW i \in held, PassOn(i) PROVE IssuesAsReported'
  <2>1. BeforeFilter' = BeforeFilter /\ AfterFilter' = AfterFilter \cup {i} /\ In' = In
    BY <1>8, <1>c, PassOnMoves DEF In
  <2>2. held' = {} /\ suppressed' = suppressed
    BY <1>8 DEF PassOn
  <2>3. IsLetThrough(i)
    BY <1>0 DEF IsLetThrough
  <2>4. QED
    BY <1>0, <1>a, <2>1, <2>2, <2>3
<1>9. CASE FindUnused
  BY <1>9, <1>b DEF FindUnused
<1>10. ASSUME NEW u \in unused, WarnUnused(u) PROVE IssuesAsReported'
  <2> DEFINE i == Unmatched(u[1], u[2])
  <2>1. BeforeFilter' = BeforeFilter /\ AfterFilter' = AfterFilter \cup {i} /\ In' = In
    BY <1>10, <1>c, WarnMoves DEF In
  <2>2. held' = held /\ suppressed' = suppressed
    BY <1>10 DEF WarnUnused
  <2>3. IsLetThrough(i)
    BY DEF IsLetThrough, IsWarning, TypeOK
  <2> HIDE DEF i
  <2>4. QED
    BY <1>0, <1>a, <2>1, <2>2, <2>3
<1>11. CASE CloseFiltered
  BY <1>11, <1>b DEF CloseFiltered
<1>12. ASSUME NEW i, Collect(i) PROVE IssuesAsReported'
  <2>1. BeforeFilter' = BeforeFilter /\ AfterFilter' = AfterFilter /\ In' = In
    BY <1>12, <1>c, CollectMoves DEF In
  <2>2. held' = held /\ suppressed' = suppressed
    BY <1>12 DEF Collect
  <2>3. QED
    BY <1>0, <1>a, <2>1, <2>2
<1>13. ASSUME NEW i \in sorting, EmitSorted(i) PROVE IssuesAsReported'
  <2>1. BeforeFilter' = BeforeFilter /\ AfterFilter' = AfterFilter /\ In' = In
    BY <1>13, <1>c, EmitSortedMoves DEF In
  <2>2. held' = held /\ suppressed' = suppressed
    BY <1>13 DEF EmitSorted
  <2>3. QED
    BY <1>0, <1>a, <2>1, <2>2
<1>14. CASE CloseSorted
  BY <1>14, <1>b DEF CloseSorted
<1>15. ASSUME NEW i, Output(i) PROVE IssuesAsReported'
  <2>1. BeforeFilter' = BeforeFilter /\ AfterFilter' = AfterFilter /\ In' = In
    BY <1>15, <1>c, OutputMoves, ChannelNames DEF In
  <2>2. held' = held /\ suppressed' = suppressed
    BY <1>15 DEF Output
  <2>3. QED
    BY <1>0, <1>a, <2>1, <2>2
<1>16. CASE FinishOutput
  BY <1>16, <1>b DEF FinishOutput
<1>17. CASE UNCHANGED vars
  BY <1>17, <1>b DEF vars
<1>18. QED
  BY <1>1, <1>2, <1>3, <1>4, <1>5, <1>6, <1>7, <1>8, <1>9, <1>10, <1>11, <1>12, <1>13,
     <1>14, <1>15, <1>16, <1>17
     DEF Next, Aggregator, DirectiveFilter, Sorter, Main, Terminated

-----------------------------------------------------------------------------
(***************************************************************************)
(* Merging: what has the same key has left the first channel together.     *)
(***************************************************************************)
\* A report that has been sent and is still before the aggregation has ended is in the
\* first channel or in issueMap.
LEMMA FoundEarly ==
  ASSUME TypeOK, InOrder, Placed(Lines, Pools, fed), opts.aggregate, ~Drained("incoming"),
         NEW r \in fed
  PROVE  \E i \in IssuesIn(chan["incoming"]) \cup merging : r \in i.from
<1>1. r \in Reports
  BY DEF TypeOK
<1>2. OnLine(Lines, r) \/ InPool(Pools, r)
  BY <1>1 DEF Placed
<1>3. /\ chan["aggregated"] = <<>> /\ chan["filtered"] = <<>> /\ chan["sorted"] = <<>>
      /\ received = <<>> /\ held = {} /\ suppressed = {} /\ sorting = {}
  BY DEF InOrder
<1>4. CASE OnLine(Lines, r)
  <2>1. PICK c \in DOMAIN Lines : \E n \in DOMAIN Lines[c] : r \in Lines[c][n].from
    BY <1>4 DEF OnLine
  <2>2. c = "incoming"
    BY <1>3, <2>1, LinesChange DEF Channels
  <2>3. QED
    BY <2>1, <2>2, LinesChange DEF IssuesIn, Channels
<1>5. CASE InPool(Pools, r)
  <2>1. PICK p \in DOMAIN Pools : \E i \in Pools[p] : r \in i.from
    BY <1>5 DEF InPool
  <2>2. p = "merging"
    BY <1>3, <2>1, PoolsChange
  <2>3. QED
    BY <2>1, <2>2, PoolsChange
<1>6. QED
  BY <1>2, <1>4, <1>5

\* What is in issueMap is not in the first channel.
LEMMA NotBoth ==
  ASSUME Placed(Lines, Pools, fed), IssuesAsReported, NEW j \in merging
  PROVE  j \notin IssuesIn(chan["incoming"])
<1>1. SUFFICES ASSUME j \in IssuesIn(chan["incoming"]) PROVE FALSE
  OBVIOUS
<1>2. PICK r \in j.from : r \in Reports
  BY DEF IssuesAsReported, BeforeFilter, IsReported
<1>3. OnLine(Lines, r)
  BY <1>1, LinesChange DEF OnLine, IssuesIn, Channels
<1>4. InPool(Pools, r)
  BY PoolsChange DEF InPool
<1>5. QED
  BY <1>2, <1>3, <1>4 DEF Placed, OncePlaced

\* Two issues before the filter have the same key if reports in them do.
LEMMA KeysAgree ==
  ASSUME NEW i, IsReported(i), NEW j, IsReported(j), NEW r \in i.from, NEW q \in j.from
  PROVE  SameKey(i, j) <=> /\ ReportOf[r].path = ReportOf[q].path
                           /\ ReportOf[r].line = ReportOf[q].line
                           /\ ReportOf[r].message = ReportOf[q].message
  BY DEF IsReported, SameKey

\* Merging leaves one issue for each key, with all of its company that has arrived.
LEMMA MergeKeepsKeys ==
  ASSUME TypeOK, InOrder, Placed(Lines, Pools, fed), IssuesAsReported, OneForEachKey,
         NEW i, Merge(i), [Next]_vars
  PROVE  OneForEachKey'
<1> USE DEF envVars, filterVars, mainVars
<1> DEFINE In == IssuesIn(chan["incoming"])
<1>1. /\ opts.aggregate /\ opts' = opts /\ fed' = fed /\ merging' = Merged(merging, i)
      /\ i \in Items /\ In = {i} \cup In' /\ AfterFilter' = AfterFilter
      /\ BeforeFilter' = In' \cup merging' \cup IssuesIn(chan["aggregated"])
      /\ held' = held /\ suppressed' = suppressed
  BY MergeMoves DEF Merge
<1>2. ~Drained("incoming")
  BY DEF Merge, Receive, Drained
<1>3. /\ Everything = In \cup merging /\ Everything' = In' \cup merging'
      /\ AfterFilter = {} /\ held = {} /\ suppressed = {}
  <2>1. /\ chan["aggregated"] = <<>> /\ chan["filtered"] = <<>> /\ chan["sorted"] = <<>>
        /\ received = <<>> /\ held = {} /\ suppressed = {} /\ sorting = {}
    BY <1>1, <1>2 DEF InOrder
  <2>2. IssuesIn(chan["aggregated"]) = {} /\ AfterFilter = {}
    BY <2>1 DEF IssuesIn, AfterFilter
  <2>3. QED
    BY <1>1, <2>1, <2>2 DEF Everything, BeforeFilter
<1>4. PICK q \in Reports : i = Issue(q, {q})
  BY <1>1 DEF IssuesAsReported
<1>5. i.from = {q}
  BY <1>4, ReportTypes
<1>6. /\ IsReported(i) /\ \A j \in merging : IsReported(j) /\ j \notin In /\ j \in Items
      /\ q \in fed
  <2>1. IsReported(i) /\ \A j \in merging : IsReported(j)
    BY <1>1 DEF IssuesAsReported, BeforeFilter
  <2>2. \A j \in merging : j \notin In /\ j \in Items
    BY NotBoth DEF TypeOK
  <2>3. OnLine(Lines, q)
    BY <1>1, <1>5, LinesChange DEF OnLine, IssuesIn, Channels
  <2>4. QED
    BY <2>1, <2>2, <2>3 DEF Placed
<1>7. InFirst \subseteq InFirst' \cup {q}
  BY <1>1, <1>5 DEF InFirst
<1>8. \A r \in Reports : Company(r)' = Company(r)
  BY <1>1 DEF Company
<1>9. \A j \in merging : \A r \in j.from \cap Reports :
        Company(r) \subseteq j.from \cup InFirst' \cup {q}
  BY <1>1, <1>3, <1>6, <1>7 DEF OneForEachKey, TogetherBut
<1>10. \A x, y \in merging : SameKey(x, y) => x = y
  BY <1>1 DEF OneForEachKey
\* An issue with another key keeps its company.
<1>11. ASSUME NEW j \in merging, ~SameKey(i, j), NEW r \in j.from \cap Reports
       PROVE  Company(r) \subseteq j.from \cup InFirst'
  <2>1. q \notin Company(r)
    <3>1. ASSUME q \in Company(r)
          PROVE  FALSE
      <4>1. /\ ReportOf[r].path = ReportOf[q].path /\ ReportOf[r].line = ReportOf[q].line
            /\ ReportOf[r].message = ReportOf[q].message
        BY <3>1 DEF Company
      <4>2. SameKey(i, j)
        BY <1>5, <1>6, <4>1, KeysAgree
      <4>3. QED
        BY <1>11, <4>2
    <3>2. QED
      BY <3>1
  <2>2. QED
    BY <1>9, <2>1
<1>12. CASE ~\E j \in merging : SameKey(i, j)
  <2>1. merging' = merging \cup {i}
    BY <1>1, <1>12 DEF Merged
  <2>2. \A x, y \in merging' : SameKey(x, y) => x = y
    BY <1>10, <1>12, <2>1 DEF SameKey
  <2>3. Company(q) \subseteq {q} \cup InFirst'
    <3>1. SUFFICES ASSUME NEW p \in Company(q), p # q
                   PROVE  p \in InFirst'
      OBVIOUS
    <3>2. /\ p \in fed /\ p \in Reports /\ ReportOf[q].path = ReportOf[p].path
          /\ ReportOf[q].line = ReportOf[p].line /\ ReportOf[q].message = ReportOf[p].message
      BY <3>1 DEF Company, TypeOK
    <3>3. PICK j \in In \cup merging : p \in j.from
      BY <1>1, <1>2, <3>2, FoundEarly
    <3>4. CASE j \in merging
      BY <1>5, <1>6, <1>12, <3>2, <3>3, <3>4, KeysAgree
    <3>5. CASE j \in In
      <4>1. j \in In'
        BY <1>1, <1>5, <3>1, <3>3, <3>5
      <4>2. QED
        BY <3>2, <3>3, <4>1 DEF InFirst
    <3>6. QED
      BY <3>3, <3>4, <3>5
  <2>4. \A x \in merging' : \A r \in x.from \cap Reports : Company(r) \subseteq x.from \cup InFirst'
    BY <1>5, <1>11, <1>12, <2>1, <2>3
  <2>5. TogetherBut(InFirst)'
    BY <1>3, <1>8, <2>4 DEF TogetherBut
  <2>6. QED
    BY <2>2, <2>5 DEF OneForEachKey, SameKey
<1>13. CASE \E j \in merging : SameKey(i, j)
  <2>1. PICK j \in merging : SameKey(i, j)
    BY <1>13
  <2> DEFINE k == [j EXCEPT !.from = j.from \cup i.from]
  <2>2. merging' = (merging \ {j}) \cup {k}
    BY <1>1, <1>10, <2>1, MergeEffect DEF TypeOK
  <2>3. k.from = j.from \cup {q} /\ k.path = j.path /\ k.line = j.line /\ k.message = j.message
    BY <1>5, <1>6, <2>1 DEF Items
  <2> HIDE DEF k
  <2>4. \A x \in merging \ {j} : ~SameKey(i, x)
    BY <1>10, <2>1 DEF SameKey
  <2>5. \A x, y \in merging' : SameKey(x, y) => x = y
    BY <1>10, <2>2, <2>3 DEF SameKey
  <2>6. PICK r0 \in j.from : r0 \in Reports
    BY <1>6, <2>1 DEF IsReported
  <2>7. Company(q) \subseteq k.from \cup InFirst'
    <3>1. Company(q) \subseteq Company(r0)
      <4>1. /\ ReportOf[r0].path = ReportOf[q].path /\ ReportOf[r0].line = ReportOf[q].line
            /\ ReportOf[r0].message = ReportOf[q].message
        BY <1>5, <1>6, <2>1, <2>6, KeysAgree
      <4>2. QED
        BY <1>1, <1>6, <4>1 DEF Company
    <3>2. QED
      BY <1>9, <2>1, <2>3, <2>6, <3>1
  <2>8. \A r \in j.from \cap Reports : Company(r) \subseteq k.from \cup InFirst'
    BY <1>9, <2>1, <2>3
  <2>9. \A x \in merging' : \A r \in x.from \cap Reports : Company(r) \subseteq x.from \cup InFirst'
    <3>1. ASSUME NEW x \in merging \ {j}, NEW r \in x.from \cap Reports
          PROVE  Company(r) \subseteq x.from \cup InFirst'
      BY <1>11, <2>4, <3>1
    <3>2. \A r \in k.from \cap Reports : Company(r) \subseteq k.from \cup InFirst'
      BY <2>3, <2>7, <2>8
    <3>3. QED
      BY <2>2, <3>1, <3>2
  <2>10. TogetherBut(InFirst)'
    BY <1>3, <1>8, <2>9 DEF TogetherBut
  <2>11. QED
    BY <2>5, <2>10 DEF OneForEachKey, SameKey
<1>14. QED
  BY <1>12, <1>13

\* No other step parts what has been merged.
LEMMA KeysStep ==
  ASSUME TypeOK, InOrder, Placed(Lines, Pools, fed), IssuesAsReported, OneForEachKey,
         [Next]_vars
  PROVE  OneForEachKey'
<1> USE DEF envVars, filterVars, mainVars
<1> DEFINE In == IssuesIn(chan["incoming"])
<1>0. opts' = opts /\ "incoming" \in Channels
      /\ \A d : chan'[d] = chan[d] => IssuesIn(chan[d])' = IssuesIn(chan[d])
  BY OptionsStay DEF Channels, IssuesIn
\* A step that makes no issue but a warning, and leaves the first channel alone.
<1>a. ASSUME In' = In, fed' = fed, merging' \subseteq merging,
             \A i \in Everything' \ Everything : i.from \cap Reports = {}
      PROVE  OneForEachKey'
  <2>1. InFirst' = InFirst
    BY <1>a DEF InFirst
  <2>2. \A r : Company(r)' = Company(r)
    BY <1>0, <1>a DEF Company
  <2>3. opts.aggregate => TogetherBut(InFirst)'
    BY <1>a, <2>1, <2>2 DEF OneForEachKey, TogetherBut
  <2>4. opts.aggregate => \A i, j \in merging' : SameKey(i, j) => i = j
    BY <1>a DEF OneForEachKey
  <2>5. QED
    BY <1>0, <2>3, <2>4 DEF OneForEachKey, SameKey
<1>b. ASSUME UNCHANGED <<chan, received, merging, held, sorting, suppressed, fed>>
      PROVE  OneForEachKey'
  <2>1. In' = In /\ Everything' = Everything
    BY <1>b DEF Everything, BeforeFilter, AfterFilter, IssuesIn
  <2>2. QED
    BY <1>a, <1>b, <2>1
<1> HIDE DEF In
<1>1. CASE StartReading
  BY <1>1, <1>b DEF StartReading
<1>2. ASSUME NEW r \in Reports, Feed(r) PROVE OneForEachKey'
  <2> DEFINE i == Issue(r, {r})
  <2>1. /\ In' = In \cup {i} /\ BeforeFilter' = BeforeFilter \cup {i}
        /\ AfterFilter' = AfterFilter /\ i.from = {r}
    BY <1>2, FeedMoves, ReportTypes DEF In
  <2>2. held' = held /\ suppressed' = suppressed /\ fed' = fed \cup {r} /\ merging' = merging
    BY <1>2 DEF Feed
  <2> HIDE DEF i
  <2>3. Everything' \ In' \subseteq Everything \ In
    BY <2>1, <2>2 DEF Everything
  <2>4. InFirst' = InFirst \cup {r}
    BY <2>1 DEF InFirst, In
  <2>5. \A q : Company(q)' \subseteq Company(q) \cup {r}
    BY <1>0, <2>2 DEF Company
  <2>6. opts.aggregate => TogetherBut(InFirst)'
    <3>1. SUFFICES ASSUME opts.aggregate, NEW x \in Everything' \ In', NEW q \in x.from \cap Reports
                   PROVE  Company(q)' \subseteq x.from \cup InFirst'
      BY DEF TogetherBut, In
    <3>2. Company(q) \subseteq x.from \cup InFirst
      BY <2>3, <3>1 DEF OneForEachKey, TogetherBut, In
    <3>3. QED
      BY <2>4, <2>5, <3>2
  <2>7. QED
    BY <1>0, <2>2, <2>6 DEF OneForEachKey, SameKey
<1>3. CASE CloseIncoming
  BY <1>3, <1>b DEF CloseIncoming
<1>4. ASSUME NEW i, Merge(i) PROVE OneForEachKey'
  BY <1>4, MergeKeepsKeys
<1>5. ASSUME NEW i \in merging, EmitMerged(i) PROVE OneForEachKey'
  <2>1. BeforeFilter' = BeforeFilter /\ AfterFilter' = AfterFilter /\ In' = In
    BY <1>0, <1>5, EmitMergedMoves DEF In
  <2>2. held' = held /\ suppressed' = suppressed /\ fed' = fed /\ merging' \subseteq merging
    BY <1>5 DEF EmitMerged
  <2>3. Everything' = Everything
    BY <2>1, <2>2 DEF Everything
  <2>4. QED
    BY <1>a, <2>1, <2>2, <2>3 DEF In
<1>6. CASE CloseAggregated
  BY <1>6, <1>b DEF CloseAggregated
<1>7. ASSUME NEW i, Filter(i) PROVE OneForEachKey'
  <2>1. CASE ~opts.aggregate
    BY <1>0, <2>1 DEF OneForEachKey
  <2>2. CASE opts.aggregate
    <3>1. BeforeFilter = BeforeFilter' \cup {i} /\ AfterFilter' = AfterFilter
          /\ \A d \in Channels : d # FilterIn => chan'[d] = chan[d]
      BY <1>7, FilterMoves
    <3>2. In' = In
      BY <1>0, <2>2, <3>1 DEF In, FilterIn
    <3>3. /\ held' \cup suppressed' = held \cup suppressed \cup {i}
          /\ fed' = fed /\ merging' = merging
      BY <1>7 DEF Filter
    <3>4. Everything' \subseteq Everything
      BY <3>1, <3>3 DEF Everything
    <3>5. QED
      BY <1>a, <3>2, <3>3, <3>4 DEF In
  <2>3. QED
    BY <2>1, <2>2
<1>8. ASSUME NEW i \in held, PassOn(i) PROVE OneForEachKey'
  <2>1. BeforeFilter' = BeforeFilter /\ AfterFilter' = AfterFilter \cup {i} /\ In' = In
    BY <1>0, <1>8, PassOnMoves DEF In
  <2>2. held' = {} /\ suppressed' = suppressed /\ fed' = fed /\ merging' = merging
    BY <1>8 DEF PassOn
  <2>3. Everything' \subseteq Everything
    BY <2>1, <2>2 DEF Everything
  <2>4. QED
    BY <1>a, <2>1, <2>2, <2>3 DEF In
<1>9. CASE FindUnused
  BY <1>9, <1>b DEF FindUnused
<1>10. ASSUME NEW u \in unused, WarnUnused(u) PROVE OneForEachKey'
  <2> DEFINE i == Unmatched(u[1], u[2])
  <2>1. BeforeFilter' = BeforeFilter /\ AfterFilter' = AfterFilter \cup {i} /\ In' = In
    BY <1>0, <1>10, WarnMoves DEF In
  <2>2. held' = held /\ suppressed' = suppressed /\ fed' = fed /\ merging' = merging
    BY <1>10 DEF WarnUnused
  <2>3. i.from \cap Reports = {}
    <3>1. i.from = {u} /\ u \in (Paths \X BOOLEAN) \X Nat
      BY RangeTypes DEF TypeOK
    <3> HIDE DEF i
    <3>2. QED
      BY <3>1, NamesAssumption
  <2> HIDE DEF i
  <2>4. Everything' \ Everything \subseteq {i}
    BY <2>1, <2>2 DEF Everything
  <2>5. QED
    BY <1>a, <2>1, <2>2, <2>3, <2>4 DEF In
<1>11. CASE CloseFiltered
  BY <1>11, <1>b DEF CloseFiltered
<1>12. ASSUME NEW i, Collect(i) PROVE OneForEachKey'
  <2>1. BeforeFilter' = BeforeFilter /\ AfterFilter' = AfterFilter /\ In' = In
    BY <1>0, <1>12, CollectMoves DEF In
  <2>2. held' = held /\ suppressed' = suppressed /\ fed' = fed /\ merging' = merging
    BY <1>12 DEF Collect
  <2>3. Everything' = Everything
    BY <2>1, <2>2 DEF Everything
  <2>4. QED
    BY <1>a, <2>1, <2>2, <2>3 DEF In
<1>13. ASSUME NEW i \in sorting, EmitSorted(i) PROVE OneForEachKey'
  <2>1. BeforeFilter' = BeforeFilter /\ AfterFilter' = AfterFilter /\ In' = In
    BY <1>0, <1>13, EmitSortedMoves DEF In
  <2>2. held' = held /\ suppressed' = suppressed /\ fed' = fed /\ merging' = merging
    BY <1>13 DEF EmitSorted
  <2>3. Everything' = Everything
    BY <2>1, <2>2 DEF Everything
  <2>4. QED
    BY <1>a, <2>1, <2>2, <2>3 DEF In
<1>14. CASE CloseSorted
  BY <1>14, <1>b DEF CloseSorted
<1>15. ASSUME NEW i, Output(i) PROVE OneForEachKey'
  <2>1. BeforeFilter' = BeforeFilter /\ AfterFilter' = AfterFilter /\ In' = In
    BY <1>0, <1>15, OutputMoves, ChannelNames DEF In
  <2>2. held' = held /\ suppressed' = suppressed /\ fed' = fed /\ merging' = merging
    BY <1>15 DEF Output
  <2>3. Everything' = Everything
    BY <2>1, <2>2 DEF Everything
  <2>4. QED
    BY <1>a, <2>1, <2>2, <2>3 DEF In
<1>16. CASE FinishOutput
  BY <1>16, <1>b DEF FinishOutput
<1>17. CASE UNCHANGED vars
  BY <1>17, <1>b DEF vars
<1>18. QED
  BY <1>1, <1>2, <1>3, <1>4, <1>5, <1>6, <1>7, <1>8, <1>9, <1>10, <1>11, <1>12, <1>13,
     <1>14, <1>15, <1>16, <1>17
     DEF Next, Aggregator, DirectiveFilter, Sorter, Main, Terminated

-----------------------------------------------------------------------------
(***************************************************************************)
(* Directives: the marks and the warnings.                                 *)
(***************************************************************************)
\* What matches an issue depends on nothing that changes.
LEMMA MatchingStays == \A i : MatchingRanges(i)' = MatchingRanges(i)
  BY DEF MatchingRanges, Matches, NamedBy

\* The filter marks the first range that matches what it suppresses, and no other.
LEMMA MarksStep ==
  ASSUME TypeOK, MarksAreRight, [Next]_vars
  PROVE  MarksAreRight'
<1> USE DEF envVars, filterVars, mainVars
<1>0. opts' = opts /\ \A path : LoadKey(path)' = LoadKey(path)
  BY OptionsStay DEF LoadKey
<1> DEFINE Marked == \A u \in matched : u[1][2] = FALSE
           First == \A path \in Paths : \A k \in DOMAIN Directives[path] :
                      <<IssueKey(path), k>> \in matched <=> MarkedFirst(path, k)
           Loaded == /\ opts.warnUnmatched => \A path \in Paths : LoadKey(path) \in files
                     /\ \A key \in files : key[2] => opts.absolute
<1>b. Marked /\ First /\ Loaded
  BY DEF MarksAreRight
<1>c. Marked' /\ First' /\ Loaded' => MarksAreRight'
  BY DEF MarksAreRight
<1>d. ASSUME UNCHANGED <<matched, suppressed>>
      PROVE  Marked' /\ First'
  <2>1. Marked'
    BY <1>b, <1>d
  <2>2. \A path, k : MarkedFirst(path, k)' <=> MarkedFirst(path, k)
    BY <1>d, MatchingStays DEF MarkedFirst
  <2>3. First'
    BY <1>b, <1>d, <2>2 DEF IssueKey
  <2>4. QED
    BY <2>1, <2>3
<1>a. ASSUME UNCHANGED <<matched, suppressed, files>>
      PROVE  MarksAreRight'
  <2>1. Loaded'
    BY <1>0, <1>a, <1>b
  <2>2. QED
    BY <1>a, <1>c, <1>d, <2>1
<1>7. ASSUME NEW i, Filter(i) PROVE MarksAreRight'
  <2>1. i \in Items /\ i.path \in Paths
    <3>1. i \in Items
      BY <1>7, FilterMoves
    <3>2. QED
      BY <3>1 DEF Items
  <2>2. files' = files \cup {IssueKey(i.path)} /\ IssueKey(i.path)[2] = FALSE
    BY <1>7 DEF Filter, IssueKey
  <2>3. Loaded'
    BY <1>0, <1>b, <2>2
  <2>4. CASE MatchingRanges(i) = {}
    <3>1. UNCHANGED <<matched, suppressed>>
      BY <1>7, <2>4 DEF Filter
    <3>2. QED
      BY <1>c, <1>d, <2>3, <3>1
  <2>5. CASE MatchingRanges(i) # {}
    <3>1. PICK k0 \in MatchingRanges(i) :
            /\ k0 \in DOMAIN Directives[i.path]
            /\ \A n \in MatchingRanges(i) : k0 <= n
            /\ Used(matched, IssueKey(i.path), MatchingRanges(i))
                 = matched \cup {<<IssueKey(i.path), k0>>}
      BY <2>1, <2>5, FirstMatch
    <3>2. matched' = matched \cup {<<IssueKey(i.path), k0>>} /\ suppressed' = suppressed \cup {i}
      BY <1>7, <2>5, <3>1 DEF Filter
    <3>3. Marked'
      BY <1>b, <2>2, <3>2
    <3>4. ASSUME NEW path \in Paths, NEW k \in DOMAIN Directives[path]
          PROVE  <<IssueKey(path), k>> \in matched' <=> MarkedFirst(path, k)'
      <4>1. MatchingRanges(i) \subseteq Nat
        <5>1. Directives[i.path] \in Seq([start : Nat, end : Nat, linters : SUBSET STRING])
          BY <2>1, DirectivesAssumption
        <5>2. QED
          BY <5>1, InSequence DEF MatchingRanges
      <4> DEFINE Hits(j) == /\ j.path = path /\ k \in MatchingRanges(j)
                            /\ \A n \in MatchingRanges(j) : k <= n
      <4>2. MarkedFirst(path, k) <=> \E j \in suppressed : Hits(j)
        BY DEF MarkedFirst
      <4>3. MarkedFirst(path, k)' <=> \E j \in suppressed' : Hits(j)
        BY MatchingStays DEF MarkedFirst
      <4>4. Hits(i) <=> path = i.path /\ k = k0
        BY <3>1, <4>1
      <4>5. <<IssueKey(path), k>> = <<IssueKey(i.path), k0>> <=> path = i.path /\ k = k0
        BY DEF IssueKey
      <4>6. <<IssueKey(path), k>> \in matched <=> MarkedFirst(path, k)
        BY DEF MarksAreRight
      <4> HIDE DEF Hits
      <4>7. QED
        BY <3>2, <4>2, <4>3, <4>4, <4>5, <4>6
    <3>5. QED
      BY <1>c, <2>3, <3>3, <3>4 DEF IssueKey
  <2>6. QED
    BY <2>4, <2>5
<1>18. QED
  BY <1>a, <1>7
     DEF vars, Next, StartReading, Feed, CloseIncoming, Aggregator, Merge, EmitMerged,
         CloseAggregated, DirectiveFilter, PassOn, FindUnused, WarnUnused,
         CloseFiltered, Sorter, Collect, EmitSorted, CloseSorted, Main, Output,
         FinishOutput, Terminated

\* A range that is not marked when the filter comes to its end is warned about once.
LEMMA WarningsStep ==
  ASSUME TypeOK, InOrder, IssuesAsReported, WarningsAreRight, [Next]_vars
  PROVE  WarningsAreRight'
<1> USE DEF envVars, filterVars, mainVars
<1> DEFINE Reported == filterAt = "filtering" => \A i \in AfterFilter : IsReported(i)
           Warned == filterAt = "warning" =>
             \A u \in AllRanges : WarnedAbout(u) <=> opts.warnUnmatched /\ u \notin matched
<1>0. Reported /\ Warned /\ opts' = opts /\ \A i : IsReported(i)' <=> IsReported(i)
  BY OptionsStay, IssueStays DEF WarningsAreRight
<1>a. Reported' /\ Warned' => WarningsAreRight'
  BY DEF WarningsAreRight
\* A step that neither the filter takes nor is seen behind it.
<1>b. ASSUME AfterFilter' = AfterFilter, UNCHANGED filterVars
      PROVE  WarningsAreRight'
  <2>1. Reported'
    BY <1>0, <1>b
  <2>2. AllRanges' = AllRanges /\ \A u : WarnedAbout(u)' <=> WarnedAbout(u)
    BY <1>b DEF AllRanges, RangesOf, WarnedAbout
  <2>3. Warned'
    BY <1>0, <1>b, <2>2
  <2>4. QED
    BY <1>a, <2>1, <2>3
<1>c. ASSUME UNCHANGED <<chan, sorting, received>>
      PROVE  AfterFilter' = AfterFilter
  BY <1>c DEF AfterFilter, IssuesIn
<1>1. CASE StartReading
  BY <1>1, <1>b, <1>c DEF StartReading
<1>2. ASSUME NEW r \in Reports, Feed(r) PROVE WarningsAreRight'
  BY <1>2, <1>b, FeedMoves DEF Feed
<1>3. CASE CloseIncoming
  BY <1>3, <1>b, <1>c DEF CloseIncoming
<1>4. ASSUME NEW i, Merge(i) PROVE WarningsAreRight'
  BY <1>4, <1>b, MergeMoves DEF Merge
<1>5. ASSUME NEW i \in merging, EmitMerged(i) PROVE WarningsAreRight'
  BY <1>5, <1>b, EmitMergedMoves DEF EmitMerged
<1>6. CASE CloseAggregated
  BY <1>6, <1>b, <1>c DEF CloseAggregated
<1>7. ASSUME NEW i, Filter(i) PROVE WarningsAreRight'
  <2>1. AfterFilter' = AfterFilter
    BY <1>7, FilterMoves
  <2>2. filterAt = "filtering" /\ filterAt' = "filtering"
    BY <1>7 DEF Filter
  <2>3. QED
    BY <1>0, <1>a, <2>1, <2>2
<1>8. ASSUME NEW i \in held, PassOn(i) PROVE WarningsAreRight'
  <2>1. AfterFilter' = AfterFilter \cup {i} /\ IsReported(i)
    BY <1>8, PassOnMoves DEF IssuesAsReported
  <2>2. filterAt' = "filtering" /\ filterAt = "filtering"
    BY <1>8 DEF PassOn, InOrder, TypeOK
  <2>3. QED
    BY <1>0, <1>a, <2>1, <2>2
<1>9. CASE FindUnused
  <2>1. AfterFilter' = AfterFilter
    BY <1>9, <1>c DEF FindUnused
  <2>2. /\ filterAt = "filtering" /\ filterAt' = "warning"
        /\ unused' = IF opts.warnUnmatched THEN AllRanges \ matched ELSE {}
        /\ matched' = matched /\ files' = files
    BY <1>9 DEF FindUnused, Unused
  <2>3. AllRanges' = AllRanges
    BY <2>2 DEF AllRanges, RangesOf
  <2>4. \A u \in AllRanges : \A i \in AfterFilter : i.from # {u}
    BY <1>0, <2>2, WarningIsNoReport
  <2>5. \A u \in AllRanges : WarnedAbout(u)' <=> u \in unused'
    BY <2>1, <2>4 DEF WarnedAbout
  <2>6. Warned'
    BY <1>0, <2>2, <2>3, <2>5
  <2>7. QED
    BY <1>a, <2>2, <2>6
<1>10. ASSUME NEW u \in unused, WarnUnused(u) PROVE WarningsAreRight'
  <2> DEFINE i == Unmatched(u[1], u[2])
  <2>1. AfterFilter' = AfterFilter \cup {i} /\ i.from = {u}
    BY <1>10, WarnMoves, RangeTypes DEF TypeOK
  <2> HIDE DEF i
  <2>2. unused' = unused \ {u} /\ matched' = matched /\ files' = files /\ filterAt' = filterAt
    BY <1>10 DEF WarnUnused
  <2>3. AllRanges' = AllRanges
    BY <2>2 DEF AllRanges, RangesOf
  <2>4. filterAt = "warning"
    BY DEF InOrder, TypeOK
  <2>5. \A w : WarnedAbout(w)' <=> WarnedAbout(w)
    BY <2>1, <2>2 DEF WarnedAbout
  <2>6. Warned'
    BY <1>0, <2>2, <2>3, <2>5
  <2>7. QED
    BY <1>a, <2>2, <2>4, <2>6
<1>11. CASE CloseFiltered
  BY <1>11, <1>b, <1>c DEF CloseFiltered
<1>12. ASSUME NEW i, Collect(i) PROVE WarningsAreRight'
  BY <1>12, <1>b, CollectMoves DEF Collect
<1>13. ASSUME NEW i \in sorting, EmitSorted(i) PROVE WarningsAreRight'
  BY <1>13, <1>b, EmitSortedMoves DEF EmitSorted
<1>14. CASE CloseSorted
  BY <1>14, <1>b, <1>c DEF CloseSorted
<1>15. ASSUME NEW i, Output(i) PROVE WarningsAreRight'
  BY <1>15, <1>b, OutputMoves DEF Output
<1>16. CASE FinishOutput
  BY <1>16, <1>b, <1>c DEF FinishOutput
<1>17. CASE UNCHANGED vars
  BY <1>17, <1>b, <1>c DEF vars
<1>18. QED
  BY <1>1, <1>2, <1>3, <1>4, <1>5, <1>6, <1>7, <1>8, <1>9, <1>10, <1>11, <1>12, <1>13,
     <1>14, <1>15, <1>16, <1>17
     DEF Next, Aggregator, DirectiveFilter, Sorter, Main, Terminated

-----------------------------------------------------------------------------
(***************************************************************************)
(* Sorting and the status.                                                 *)
(***************************************************************************)
\* A sequence stays in order if what is added does not belong before it.
LEMMA InOrderAppend ==
  ASSUME NEW seq \in Seq(Items), NEW i \in Items, SortedSoFar(seq),
         \A j \in IssuesIn(seq) : ~Before(i, j, SortOrder)
  PROVE  SortedSoFar(Append(seq, i))
<1> DEFINE s == Append(seq, i)
<1>1. /\ DOMAIN s = 1 .. Len(seq) + 1 /\ DOMAIN seq = 1 .. Len(seq) /\ Len(seq) \in Nat
      /\ \A n \in DOMAIN seq : s[n] = seq[n]
      /\ s[Len(seq) + 1] = i
  BY InAppend
<1> HIDE DEF s
<1>2. ASSUME NEW m \in DOMAIN s, NEW n \in DOMAIN s, m < n
      PROVE  ~Before(s[n], s[m], SortOrder)
  <2>1. m \in DOMAIN seq /\ s[m] = seq[m] /\ seq[m] \in IssuesIn(seq)
    BY <1>1, <1>2 DEF IssuesIn
  <2>2. CASE n \in DOMAIN seq
    BY <1>1, <1>2, <2>1, <2>2 DEF SortedSoFar
  <2>3. CASE n = Len(seq) + 1
    BY <1>1, <2>1, <2>3
  <2>4. QED
    BY <1>1, <2>2, <2>3
<1>3. QED
  BY <1>2 DEF SortedSoFar, s

\* What is behind the head of a sequence in order is in order and not before the head.
LEMMA InOrderTail ==
  ASSUME NEW seq \in Seq(Items), seq # <<>>, SortedSoFar(seq)
  PROVE  /\ SortedSoFar(Tail(seq))
         /\ \A j \in IssuesIn(Tail(seq)) : ~Before(j, Head(seq), SortOrder)
<1> DEFINE s == Tail(seq)
<1>1. /\ 1 \in DOMAIN seq /\ Head(seq) = seq[1]
      /\ \A n \in DOMAIN s : n \in Nat /\ n # 0 /\ n + 1 \in DOMAIN seq /\ s[n] = seq[n + 1]
  <2>1. s \in Seq(Items)
    BY InTail
  <2>2. \A n \in DOMAIN s : n \in Nat /\ n # 0
    BY <2>1
  <2>3. QED
    BY <2>2, InTail
<1> HIDE DEF s
<1>2. SortedSoFar(s)
  <2>1. ASSUME NEW m \in DOMAIN s, NEW n \in DOMAIN s, m < n
        PROVE  ~Before(s[n], s[m], SortOrder)
    <3>1. m + 1 < n + 1
      BY <1>1, <2>1
    <3>2. QED
      BY <1>1, <3>1 DEF SortedSoFar
  <2>2. QED
    BY <2>1 DEF SortedSoFar
<1>3. ASSUME NEW n \in DOMAIN s
      PROVE  ~Before(s[n], Head(seq), SortOrder)
  <2>1. 1 < n + 1
    BY <1>1
  <2>2. QED
    BY <1>1, <2>1 DEF SortedSoFar
<1>4. QED
  BY <1>2, <1>3 DEF s, IssuesIn

\* Without an order nothing comes before anything.
LEMMA NoOrder == SortOrder = <<>> => \A i, j : ~Before(i, j, SortOrder)
  BY DEF Before

\* What has left the sorting stage stays in order.
LEMMA SortStep ==
  ASSUME TypeOK, InOrder, InSortOrder, [Next]_vars
  PROVE  InSortOrder'
<1> USE DEF envVars, filterVars, mainVars
<1> DEFINE Out == IssuesIn(chan["sorted"])
           Shown == IssuesIn(received)
<1>0. /\ SortOrder' = SortOrder /\ "sorted" \in Channels
      /\ \A d : chan'[d] = chan[d] => IssuesIn(chan[d])' = IssuesIn(chan[d])
  BY NamesStay DEF Channels, IssuesIn
<1>r. /\ \A i, j, order : Before(i, j, order)' <=> Before(i, j, order)
      /\ MainIn = "sorted" \/ \A i, j : ~Before(i, j, SortOrder)
  BY NoOrder DEF Before, SortValue, MainIn
<1>s. /\ SortedSoFar(received) /\ SortedSoFar(chan["sorted"])
      /\ \A i \in Out, j \in Shown : ~Before(i, j, SortOrder)
      /\ \A i \in sorting, j \in Out \cup Shown : ~Before(i, j, SortOrder)
  BY DEF InSortOrder, NotBefore
<1>a. ASSUME SortedSoFar(received'), SortedSoFar(chan'["sorted"]),
             \A i \in Out', j \in Shown' : ~Before(i, j, SortOrder),
             \A i \in sorting', j \in Out' \cup Shown' : ~Before(i, j, SortOrder)
      PROVE  InSortOrder'
  <2>1. SortedSoFar(received)' /\ SortedSoFar(chan["sorted"])'
    BY <1>0, <1>a, <1>r DEF SortedSoFar
  <2>2. /\ NotBefore(IssuesIn(chan["sorted"]), IssuesIn(received))'
        /\ NotBefore(sorting, IssuesIn(chan["sorted"]) \cup IssuesIn(received))'
    BY <1>0, <1>a, <1>r DEF NotBefore
  <2>3. QED
    BY <2>1, <2>2 DEF InSortOrder
<1>b. ASSUME chan'["sorted"] = chan["sorted"], received' = received, sorting' \subseteq sorting
      PROVE  InSortOrder'
  <2>1. Out' = Out /\ Shown' = Shown
    BY <1>b DEF IssuesIn
  <2>2. QED
    BY <1>a, <1>b, <1>s, <2>1
<1> HIDE DEF Out, Shown
<1>1. CASE StartReading
  BY <1>1, <1>b DEF StartReading
<1>2. ASSUME NEW r \in Reports, Feed(r) PROVE InSortOrder'
  BY <1>0, <1>2, <1>b, FeedMoves DEF Feed
<1>3. CASE CloseIncoming
  BY <1>3, <1>b DEF CloseIncoming
<1>4. ASSUME NEW i, Merge(i) PROVE InSortOrder'
  BY <1>0, <1>4, <1>b, MergeMoves DEF Merge
<1>5. ASSUME NEW i \in merging, EmitMerged(i) PROVE InSortOrder'
  BY <1>0, <1>5, <1>b, EmitMergedMoves DEF EmitMerged
<1>6. CASE CloseAggregated
  BY <1>6, <1>b DEF CloseAggregated
<1>7. ASSUME NEW i, Filter(i) PROVE InSortOrder'
  BY <1>0, <1>7, <1>b, FilterMoves, ChannelNames DEF Filter
<1>8. ASSUME NEW i \in held, PassOn(i) PROVE InSortOrder'
  BY <1>0, <1>8, <1>b, PassOnMoves DEF PassOn
<1>9. CASE FindUnused
  BY <1>9, <1>b DEF FindUnused
<1>10. ASSUME NEW u \in unused, WarnUnused(u) PROVE InSortOrder'
  BY <1>0, <1>10, <1>b, WarnMoves DEF WarnUnused
<1>11. CASE CloseFiltered
  BY <1>11, <1>b DEF CloseFiltered
<1>12. ASSUME NEW i, Collect(i) PROVE InSortOrder'
  <2>1. chan["sorted"] = <<>> /\ received = <<>>
    BY <1>12, CollectMoves DEF Collect, InOrder, Drained
  <2>2. chan'["sorted"] = <<>> /\ received' = <<>>
    BY <1>0, <1>12, <2>1, CollectMoves DEF Collect
  <2>3. Out' = {} /\ Shown' = {}
    BY <2>2 DEF Out, Shown, IssuesIn
  <2>4. QED
    BY <1>a, <1>s, <2>1, <2>2, <2>3
<1>13. ASSUME NEW i \in sorting, EmitSorted(i) PROVE InSortOrder'
  <2>1. Out' = Out \cup {i} /\ chan'["sorted"] = Append(chan["sorted"], i)
        /\ chan["sorted"] \in Seq(Items) /\ i \in Items
    BY <1>0, <1>13, EmitSortedMoves, SendEffect DEF EmitSorted, Out, TypeOK
  <2>2. received' = received /\ sorting' = sorting \ {i} /\ Shown' = Shown
    BY <1>13 DEF EmitSorted, Shown, IssuesIn
  <2>3. SortedSoFar(chan'["sorted"])
    BY <1>s, <2>1, InOrderAppend DEF Out
  <2>4. \A j \in sorting : ~Before(j, i, SortOrder)
    BY <1>13 DEF EmitSorted, Least
  <2>5. QED
    BY <1>a, <1>s, <2>1, <2>2, <2>3, <2>4
<1>14. CASE CloseSorted
  BY <1>14, <1>b DEF CloseSorted
<1>15. ASSUME NEW i, Output(i) PROVE InSortOrder'
  <2>1. /\ i \in Items /\ chan[MainIn] # <<>> /\ i = Head(chan[MainIn])
        /\ chan'[MainIn] = Tail(chan[MainIn]) /\ Shown' = Shown \cup {i}
    BY <1>15, OutputMoves DEF Shown
  <2>2. received' = Append(received, i) /\ sorting' = sorting /\ received \in Seq(Items)
    BY <1>15 DEF Output, TypeOK
  <2>3. CASE MainIn = "sorted"
    <3>1. /\ i \in Out /\ Out' \subseteq Out /\ chan["sorted"] \in Seq(Items)
          /\ Out' = IssuesIn(Tail(chan["sorted"]))
      <4>1. chan["sorted"] \in Seq(Items)
        BY <1>0 DEF TypeOK
      <4>2. Out = {i} \cup IssuesIn(Tail(chan["sorted"]))
        BY <2>1, <2>3, <4>1, InTail DEF Out
      <4>3. Out' = IssuesIn(Tail(chan["sorted"]))
        BY <2>1, <2>3 DEF Out, IssuesIn
      <4>4. QED
        BY <4>1, <4>2, <4>3
    <3>2. SortedSoFar(received')
      BY <1>s, <2>1, <2>2, <3>1, InOrderAppend DEF Shown
    <3>3. SortedSoFar(chan'["sorted"]) /\ \A j \in Out' : ~Before(j, i, SortOrder)
      BY <1>s, <2>1, <2>3, <3>1, InOrderTail
    <3>4. QED
      BY <1>a, <1>s, <2>1, <2>2, <3>1, <3>2, <3>3
  <2>4. CASE MainIn # "sorted"
    BY <1>a, <1>r, <2>4 DEF SortedSoFar
  <2>5. QED
    BY <2>3, <2>4
<1>16. CASE FinishOutput
  BY <1>16, <1>b DEF FinishOutput
<1>17. CASE UNCHANGED vars
  BY <1>17, <1>b DEF vars
<1>18. QED
  BY <1>1, <1>2, <1>3, <1>4, <1>5, <1>6, <1>7, <1>8, <1>9, <1>10, <1>11, <1>12, <1>13,
     <1>14, <1>15, <1>16, <1>17
     DEF Next, Aggregator, DirectiveFilter, Sorter, Main, Terminated

\* The status is set with the first issue that is shown.
LEMMA StatusStep ==
  ASSUME TypeOK, StatusIsRight, [Next]_vars
  PROVE  StatusIsRight'
<1> USE DEF envVars, filterVars, mainVars
<1>0. \A i : IsShown(i)' <=> IsShown(i)
  BY OptionsStay DEF IsShown
<1>a. ASSUME UNCHANGED <<received, status>>
      PROVE  StatusIsRight'
  BY <1>0, <1>a DEF StatusIsRight, IssuesIn
<1>15. ASSUME NEW i, Output(i) PROVE StatusIsRight'
  <2>1. IssuesIn(received)' = IssuesIn(received) \cup {i}
    BY <1>15, OutputMoves
  <2>2. status' = IF IsShown(i) THEN 1 ELSE status
    BY <1>15 DEF Output
  <2>3. QED
    BY <1>0, <2>1, <2>2 DEF StatusIsRight
<1>18. QED
  BY <1>a, <1>15
     DEF vars, Next, StartReading, Feed, CloseIncoming, Aggregator, Merge, EmitMerged,
         CloseAggregated, DirectiveFilter, Filter, PassOn, FindUnused, WarnUnused,
         CloseFiltered, Sorter, Collect, EmitSorted, CloseSorted, Main,
         FinishOutput, Terminated

-----------------------------------------------------------------------------
(***************************************************************************)
(* The invariant.                                                          *)
(***************************************************************************)
LEMMA InvInit == Init => Inv
<1> SUFFICES ASSUME Init PROVE Inv
  OBVIOUS
<1>1. chan = [c \in Channels |-> <<>>] /\ received = <<>>
  BY DEF Init
<1>2. /\ \A c \in Channels : chan[c] = <<>>
      /\ IssuesIn(received) = {} /\ \A c \in Channels : IssuesIn(chan[c]) = {}
  BY <1>1 DEF IssuesIn
<1>3. Everything = {} /\ BeforeFilter = {} /\ AfterFilter = {}
  BY <1>2 DEF Init, Everything, BeforeFilter, AfterFilter, Channels
<1>4. TypeOK
  <2>1. ChanCap \in Nat
    BY PipelineAssumption
  <2>2. files \subseteq Paths \X BOOLEAN
    <3>1. opts.absolute \in BOOLEAN
      <4>1. opts \in OptionSet
        BY PipelineAssumption DEF Init
      <4>2. QED
        BY <4>1 DEF OptionSet
    <3>2. QED
      BY <3>1 DEF Init, LoadKey
  <2>3. chan \in [Channels -> Seq(Items)] /\ \A c \in Channels : Len(chan[c]) <= ChanCap
    BY <1>1, <2>1
  <2>4. received \in Seq(Items)
    BY <1>1
  <2>5. /\ opts \in Options /\ reading = FALSE /\ finished = FALSE /\ closed = {}
        /\ merging = {} /\ held = {} /\ sorting = {} /\ suppressed = {}
        /\ matched = {} /\ unused = {} /\ filterAt = "filtering" /\ status = 0 /\ fed = {}
    BY DEF Init
  <2>6. QED
    BY <2>2, <2>3, <2>4, <2>5 DEF TypeOK
<1>5. InOrder
  BY <1>2, ChannelNames DEF Init, InOrder, Drained, Channels
<1>6. Placed(Lines, Pools, fed)
  <2>1. \A c \in DOMAIN Lines : Lines[c] = <<>>
    BY <1>1, <1>2, LinesChange
  <2>2. \A p \in DOMAIN Pools : Pools[p] = {}
    BY PoolsChange DEF Init
  <2>3. QED
    BY <2>1, <2>2 DEF Placed, OncePlaced, OnLine, InPool, Init
<1>7. IssuesAsReported
  BY <1>2, <1>3 DEF Init, IssuesAsReported, Channels
<1>8. OneForEachKey
  BY <1>3 DEF Init, OneForEachKey, TogetherBut
<1>9. MarksAreRight
  <2>1. \A key \in files : key[2] => opts.absolute
    BY DEF Init, LoadKey
  <2>2. opts.warnUnmatched => \A path \in Paths : LoadKey(path) \in files
    BY DEF Init
  <2>3. matched = {} /\ suppressed = {}
    BY DEF Init
  <2>4. QED
    BY <2>1, <2>2, <2>3 DEF MarksAreRight, MarkedFirst
<1>10. WarningsAreRight
  BY <1>3 DEF Init, WarningsAreRight
<1>11. InSortOrder
  BY <1>1, <1>2 DEF Init, InSortOrder, SortedSoFar, NotBefore, Channels
<1>12. StatusIsRight
  BY <1>2 DEF Init, StatusIsRight
<1>13. QED
  BY <1>4, <1>5, <1>6, <1>7, <1>8, <1>9, <1>10, <1>11, <1>12 DEF Inv

\* The inductive invariant of the stages between the workers and the output holds for
\* any configuration, reports, directives and capacity (aggregate.go:25-48,
\* directives.go:186-226, issue.go:145-166, main.go:232-298).
THEOREM InvCorrect == Spec => []Inv
<1>1. Inv /\ [Next]_vars => Inv'
  BY TypeStep, OrderStep, PlacedStep, ReportedStep, KeysStep, MarksStep, WarningsStep,
     SortStep, StatusStep DEF Inv
<1>2. QED
  BY InvInit, <1>1, PTL DEF Spec

\* The variables have their types and no channel holds more than it can.
THEOREM TypeCorrect == Spec => []TypeOK
<1>1. Inv => TypeOK
  BY DEF Inv
<1>2. QED
  BY <1>1, InvCorrect, PTL

-----------------------------------------------------------------------------
(***************************************************************************)
(* Where the reports are.                                                  *)
(***************************************************************************)
\* No report is lost or doubled on its way: at every moment each that was sent is in
\* exactly one place (aggregate.go:25-48, directives.go:191-202, issue.go:156-163).
THEOREM NoneLost == Spec => []Accounted
<1>1. Inv => Accounted
  <2>1. SUFFICES ASSUME Inv, NEW r \in Reports
                 PROVE  Cardinality(Whereabouts(r)) = IF r \in fed THEN 1 ELSE 0
    BY DEF Accounted
  <2>2. OncePlaced(Lines, Pools, r) /\ (OnLine(Lines, r) \/ InPool(Pools, r) <=> r \in fed)
    BY <2>1 DEF Inv, Placed
  <2>3. ASSUME NEW x
        PROVE  x \in Whereabouts(r) <=>
                 \/ \E c \in DOMAIN Lines : \E n \in DOMAIN Lines[c] :
                      r \in Lines[c][n].from /\ x = <<c, n>>
                 \/ \E p \in DOMAIN Pools : \E i \in Pools[p] : r \in i.from /\ x = <<p, i>>
    <3> DEFINE OnLines == UNION {{<<c, n>> : n \in {m \in DOMAIN Lines[c] : r \in Lines[c][m].from}} :
                                   c \in DOMAIN Lines}
               InPools == UNION {{<<p, i>> : i \in {j \in Pools[p] : r \in j.from}} :
                                   p \in DOMAIN Pools}
    <3>1. x \in OnLines <=> \E c \in DOMAIN Lines : \E n \in DOMAIN Lines[c] :
                              r \in Lines[c][n].from /\ x = <<c, n>>
      <4>1. ASSUME x \in OnLines
            PROVE  \E c \in DOMAIN Lines : \E n \in DOMAIN Lines[c] :
                     r \in Lines[c][n].from /\ x = <<c, n>>
        BY <4>1
      <4>2. ASSUME NEW c \in DOMAIN Lines, NEW n \in DOMAIN Lines[c],
                   r \in Lines[c][n].from, x = <<c, n>>
            PROVE  x \in OnLines
        BY <4>2
      <4>3. QED
        BY <4>1, <4>2, Zenon
    <3>2. x \in InPools <=> \E p \in DOMAIN Pools : \E i \in Pools[p] :
                              r \in i.from /\ x = <<p, i>>
      <4>1. ASSUME x \in InPools
            PROVE  \E p \in DOMAIN Pools : \E i \in Pools[p] : r \in i.from /\ x = <<p, i>>
        BY <4>1
      <4>2. ASSUME NEW p \in DOMAIN Pools, NEW i \in Pools[p], r \in i.from, x = <<p, i>>
            PROVE  x \in InPools
        BY <4>2
      <4>3. QED
        BY <4>1, <4>2, Zenon
    <3>3. Whereabouts(r) = OnLines \cup InPools
      BY Zenon DEF Whereabouts
    <3> HIDE DEF OnLines, InPools
    <3>4. QED
      BY <3>1, <3>2, <3>3
  <2>4. CASE r \notin fed
    <3>1. Whereabouts(r) = {}
      BY <2>2, <2>3, <2>4 DEF OnLine, InPool
    <3>2. QED
      BY <2>4, <3>1, FS_EmptySet
  <2>5. CASE r \in fed
    <3>1. \E x : x \in Whereabouts(r)
      BY <2>2, <2>3, <2>5 DEF OnLine, InPool
    <3>2. \A x, y : x \in Whereabouts(r) /\ y \in Whereabouts(r) => x = y
      <4>1. SUFFICES ASSUME NEW x, NEW y, x \in Whereabouts(r), y \in Whereabouts(r)
                     PROVE  x = y
        OBVIOUS
      <4>2. CASE OnLine(Lines, r)
        <5>1. ~InPool(Pools, r)
          BY <2>2, <4>2 DEF OncePlaced
        <5>2. PICK c \in DOMAIN Lines : \E n \in DOMAIN Lines[c] :
                r \in Lines[c][n].from /\ x = <<c, n>>
          BY <2>3, <4>1, <5>1 DEF InPool
        <5>3. PICK d \in DOMAIN Lines : \E n \in DOMAIN Lines[d] :
                r \in Lines[d][n].from /\ y = <<d, n>>
          BY <2>3, <4>1, <5>1 DEF InPool
        <5>4. QED
          BY <2>2, <5>2, <5>3 DEF OncePlaced
      <4>3. CASE ~OnLine(Lines, r)
        <5>1. PICK p \in DOMAIN Pools : \E i \in Pools[p] : r \in i.from /\ x = <<p, i>>
          BY <2>3, <4>1, <4>3 DEF OnLine
        <5>2. PICK q \in DOMAIN Pools : \E i \in Pools[q] : r \in i.from /\ y = <<q, i>>
          BY <2>3, <4>1, <4>3 DEF OnLine
        <5>3. QED
          BY <2>2, <5>1, <5>2 DEF OncePlaced
      <4>4. QED
        BY <4>2, <4>3
    <3>3. PICK x : Whereabouts(r) = {x}
      BY <3>1, <3>2
    <3>4. QED
      BY <2>5, <3>3, FS_Singleton
  <2>6. QED
    BY <2>4, <2>5
<1>2. QED
  BY <1>1, InvCorrect, PTL

\* Once main has read all, every stage is empty and closed: what was sent has been
\* received or suppressed.
LEMMA AllSettled ==
  ASSUME Inv, finished
  PROVE  /\ \A c \in Channels : chan[c] = <<>>
         /\ merging = {} /\ held = {} /\ sorting = {} /\ unused = {}
         /\ filterAt = "warning"
         /\ BeforeFilter = {} /\ InFirst = {} /\ AfterFilter = IssuesIn(received)
         /\ \A r \in fed : \E i \in IssuesIn(received) \cup suppressed : r \in i.from
         /\ \A r \in Reports : Holds(IssuesIn(received) \cup suppressed, r) => r \in fed
<1> USE DEF Inv
<1>1. MainIn \in {"filtered", "sorted"} /\ Drained(MainIn)
  BY ChannelNames DEF InOrder
<1>2. Drained("filtered") /\ sorting = {} /\ chan["sorted"] = <<>>
  <2>1. CASE MainIn = "sorted"
    BY <1>1, <2>1 DEF InOrder, Drained
  <2>2. CASE MainIn = "filtered"
    BY <1>1, <2>2 DEF InOrder, Drained
  <2>3. QED
    BY <1>1, <2>1, <2>2
<1>3. filterAt = "warning" /\ unused = {} /\ held = {} /\ Drained(FilterIn)
  BY <1>2 DEF InOrder, Drained, TypeOK
<1>4. merging = {} /\ chan["incoming"] = <<>> /\ chan["aggregated"] = <<>>
  <2>1. CASE opts.aggregate
    <3>1. Drained("aggregated")
      BY <1>3, <2>1 DEF FilterIn
    <3>2. QED
      BY <3>1 DEF InOrder, Drained
  <2>2. CASE ~opts.aggregate
    <3>1. Drained("incoming")
      BY <1>3, <2>2 DEF FilterIn
    <3>2. QED
      BY <2>2, <3>1 DEF InOrder, Drained
  <2>3. QED
    BY <2>1, <2>2
<1>5. \A c \in Channels : chan[c] = <<>> /\ IssuesIn(chan[c]) = {}
  BY <1>2, <1>4 DEF Channels, Drained, IssuesIn
<1>6. BeforeFilter = {} /\ AfterFilter = IssuesIn(received) /\ InFirst = {}
  BY <1>2, <1>4, <1>5 DEF BeforeFilter, AfterFilter, InFirst, Channels
<1>7. ASSUME NEW r \in Reports
      PROVE  r \in fed <=> \E i \in IssuesIn(received) \cup suppressed : r \in i.from
  <2>1. r \in fed <=> OnLine(Lines, r) \/ InPool(Pools, r)
    BY DEF Placed
  <2>2. OnLine(Lines, r) <=> \E i \in IssuesIn(received) : r \in i.from
    BY <1>5, LinesChange DEF OnLine, IssuesIn
  <2>3. InPool(Pools, r) <=> \E i \in suppressed : r \in i.from
    BY <1>2, <1>3, <1>4, PoolsChange DEF InPool
  <2>4. QED
    BY <2>1, <2>2, <2>3
<1>8. QED
  BY <1>2, <1>3, <1>4, <1>5, <1>6, <1>7 DEF TypeOK, Holds

-----------------------------------------------------------------------------
(***************************************************************************)
(* Sorting.                                                                *)
(***************************************************************************)
\* The output follows the order asked for (issue.go:127-166).
THEOREM ComesSorted == Spec => []SortedOutput
<1>1. Inv => SortedOutput
  BY DEF Inv, InSortOrder, SortedSoFar, SortedOutput
<1>2. QED
  BY <1>1, InvCorrect, PTL

\* Paths can be ordered, each in a place of its own.
LEMMA PathRanks ==
  /\ PathRank \in [Paths -> 1 .. Cardinality(Paths)]
  /\ \A p, q \in Paths : PathRank[p] = PathRank[q] => p = q
<1>1. Cardinality(Paths) \in Nat /\ ExistsBijection(1 .. Cardinality(Paths), Paths)
  BY PipelineAssumption, FS_CardinalityType
<1>2. ExistsBijection(Paths, 1 .. Cardinality(Paths))
  BY <1>1, Fun_ExistsBijSymmetric
<1>3. PICK f \in [Paths -> 1 .. Cardinality(Paths)] : IsInjective(f)
  BY <1>2 DEF ExistsBijection, Bijection, Injection
<1>4. \A p, q \in Paths : f[p] = f[q] => p = q
  BY <1>3 DEF IsInjective
<1>5. \E g \in [Paths -> 1 .. Cardinality(Paths)] : \A p, q \in Paths : g[p] = g[q] => p = q
  BY <1>4
<1>6. QED
  BY <1>5 DEF PathRank

\* A file has one element in the checkstyle output, although the code only compares
\* each issue with the one before it (checkstyle.go:35-60, main.go:258-263).
THEOREM FilesAreTogether == Spec => []OneElementPerFile
<1>1. Inv => OneElementPerFile
  <2>1. SUFFICES ASSUME Inv, opts.output = "checkstyle",
                        NEW l \in DOMAIN received, NEW m \in DOMAIN received,
                        NEW n \in DOMAIN received,
                        l < m, m < n, received[l].path = received[n].path
                 PROVE  received[m].path = received[l].path
    BY DEF OneElementPerFile
  <2>2. SortOrder = <<"path">>
    BY <2>1 DEF SortOrder
  <2>3. \A i, j : PathRank[i.path] < PathRank[j.path] => Before(i, j, SortOrder)
    <3>1. SUFFICES ASSUME NEW i, NEW j, PathRank[i.path] < PathRank[j.path]
                   PROVE  Before(i, j, SortOrder)
      OBVIOUS
    <3>2. SortValue(i, "path") = PathRank[i.path] /\ SortValue(j, "path") = PathRank[j.path]
      BY DEF SortValue
    <3>3. 1 \in DOMAIN SortOrder /\ SortOrder[1] = "path" /\ 1 .. 1 - 1 = {}
      BY <2>2
    <3>4. QED
      BY <3>1, <3>2, <3>3 DEF Before
  <2>4. ASSUME NEW k \in DOMAIN received
        PROVE  received[k].path \in Paths /\ PathRank[received[k].path] \in Nat
    <3>1. received[k] \in Items
      BY <2>1, InSequence DEF Inv, TypeOK
    <3>2. received[k].path \in Paths
      BY <3>1 DEF Items
    <3>3. \A x \in 1 .. Cardinality(Paths) : x \in Nat
      OBVIOUS
    <3>4. QED
      BY <3>2, <3>3, PathRanks
  <2>5. /\ ~(PathRank[received[m].path] < PathRank[received[l].path])
        /\ ~(PathRank[received[n].path] < PathRank[received[m].path])
    BY <2>1, <2>3 DEF Inv, InSortOrder, SortedSoFar
  <2>6. PathRank[received[m].path] = PathRank[received[l].path]
    BY <2>1, <2>4, <2>5
  <2>7. QED
    BY <2>4, <2>6, PathRanks
<1>2. QED
  BY <1>1, InvCorrect, PTL

-----------------------------------------------------------------------------
(***************************************************************************)
(* Directives.                                                             *)
(***************************************************************************)
\* The ranges that match an issue are about every report in it, by its position; an
\* issue with one report is matched by the ranges that cover the report.
LEMMA MatchesAreCovers ==
  ASSUME NEW i, IsReported(i), NEW r \in i.from
  PROVE  /\ r \in Reports /\ i.path = ReportOf[r].path /\ i.line = ReportOf[r].line
         /\ MatchingRanges(i) \subseteq Covering(r)
         /\ \A k \in MatchingRanges(i) : Directives[i.path][k].linters = {} \/ i.from = {r}
         /\ \A k \in Covering(r) :
              Directives[i.path][k].linters = {} \/ i.from = {r} => k \in MatchingRanges(i)
<1>1. r \in Reports /\ i.path = ReportOf[r].path /\ i.line = ReportOf[r].line
  BY DEF IsReported
<1>2. ReportOf[r].path \in Paths /\ ReportOf[r].line \in Nat
  BY <1>1, PipelineAssumption
<1>3. ASSUME NEW k \in DOMAIN Directives[i.path]
      PROVE  /\ Matches(Directives[i.path][k], i)
                => CoversReport(Directives[i.path][k], r)
                   /\ (Directives[i.path][k].linters = {} \/ i.from = {r})
             /\ CoversReport(Directives[i.path][k], r)
                /\ (Directives[i.path][k].linters = {} \/ i.from = {r})
                => Matches(Directives[i.path][k], i)
  <2> DEFINE range == Directives[i.path][k]
  <2>1. range.start \in Nat /\ range.end \in Nat
    <3>1. Directives[i.path] \in Seq([start : Nat, end : Nat, linters : SUBSET STRING])
      BY <1>1, <1>2, DirectivesAssumption
    <3>2. range \in [start : Nat, end : Nat, linters : SUBSET STRING]
      BY <3>1, InSequence
    <3>3. QED
      BY <3>2
  <2>2. ReportOf[r].line \in range.start .. range.end
        <=> range.start <= i.line /\ i.line <= range.end
    BY <1>1, <1>2, <2>1
  <2>3. \A l : NamedBy(i, l) <=> i.from = {r} /\ ReportOf[r].linter = l
    BY <1>1 DEF NamedBy
  <2> HIDE DEF range
  <2>4. /\ Matches(range, i) => CoversReport(range, r) /\ (range.linters = {} \/ i.from = {r})
        /\ CoversReport(range, r) /\ (range.linters = {} \/ i.from = {r}) => Matches(range, i)
    BY <2>2, <2>3 DEF Matches, CoversReport
  <2>5. QED
    BY <2>4 DEF range
<1>4. QED
  BY <1>1, <1>3 DEF MatchingRanges, Covering

\* An issue that main has received and that has a report in it is no warning, and no
\* directive matches it.
LEMMA LetThrough ==
  ASSUME Inv, NEW i \in AfterFilter, NEW r \in i.from, r \in Reports
  PROVE  IsReported(i) /\ MatchingRanges(i) = {}
<1>1. IsLetThrough(i)
  BY DEF Inv, IssuesAsReported
<1>2. ~IsWarning(i)
  <2>1. SUFFICES ASSUME NEW u \in AllRanges, i = Unmatched(u[1], u[2])
                 PROVE  FALSE
    BY DEF IsWarning
  <2>2. i.from = {u} /\ u \in (Paths \X BOOLEAN) \X Nat
    BY <2>1, RangeTypes DEF Inv
  <2>3. QED
    BY <2>2, NamesAssumption
<1>3. QED
  BY <1>1, <1>2 DEF IsLetThrough

\* What is suppressed was covered by a directive, and without --aggregate everything
\* covered is suppressed (directives.go:22-35, 188-195).
LEMMA InvSuppresses == Inv => SuppressesWhatItSays
<1>1. SUFFICES ASSUME Inv, finished, NEW r \in fed
               PROVE  /\ Holds(suppressed, r) => Covering(r) # {}
                      /\ ~opts.aggregate /\ Covering(r) # {} => Holds(suppressed, r)
  BY DEF SuppressesWhatItSays
<1>2. r \in Reports
  BY <1>1 DEF Inv, TypeOK
<1>3. ASSUME NEW i \in suppressed, r \in i.from
      PROVE  Covering(r) # {}
  <2>1. IsReported(i) /\ MatchingRanges(i) # {}
    BY <1>1 DEF Inv, IssuesAsReported
  <2>2. QED
    BY <1>3, <2>1, MatchesAreCovers
<1>4. ASSUME ~opts.aggregate, Covering(r) # {}
      PROVE  Holds(suppressed, r)
  <2>1. PICK i \in IssuesIn(received) \cup suppressed : r \in i.from
    BY <1>1, AllSettled
  <2>2. CASE i \in suppressed
    BY <2>1, <2>2 DEF Holds
  <2>3. CASE i \in IssuesIn(received)
    <3>1. i \in AfterFilter
      BY <2>3 DEF AfterFilter
    <3>2. IsReported(i) /\ MatchingRanges(i) = {}
      BY <1>1, <1>2, <2>1, <3>1, LetThrough
    <3>3. i.from = {r}
      BY <1>4, <2>1, <3>2 DEF IsReported
    <3>4. Covering(r) \subseteq MatchingRanges(i)
      BY <2>1, <3>2, <3>3, MatchesAreCovers
    <3>5. QED
      BY <1>4, <3>2, <3>4
  <2>4. QED
    BY <2>1, <2>2, <2>3
<1>5. QED
  BY <1>3, <1>4 DEF Holds

\* The same of every reachable state (directives.go:22-35, 188-195).
THEOREM SuppressesAsSaid == Spec => []SuppressesWhatItSays
  BY InvSuppresses, InvCorrect, PTL

\* A report that was reported alone and suppressed was suppressed by itself.
LEMMA Alone ==
  ASSUME Inv, ~opts.aggregate, NEW i \in suppressed
  PROVE  \E r \in fed : /\ i.from = {r} /\ i.path = ReportOf[r].path
                        /\ MatchingRanges(i) = Covering(r)
<1>1. IsReported(i)
  BY DEF Inv, IssuesAsReported
<1>2. PICK r \in Reports : i.from = {r}
  BY <1>1 DEF IsReported
<1>3. InPool(Pools, r)
  BY <1>2, PoolsChange DEF InPool
<1>4. r \in fed
  BY <1>3 DEF Inv, Placed
<1>5. i.path = ReportOf[r].path /\ MatchingRanges(i) = Covering(r)
  <2>1. r \in i.from
    BY <1>2
  <2>2. MatchingRanges(i) \subseteq Covering(r) /\ i.path = ReportOf[r].path
    BY <1>1, <2>1, MatchesAreCovers
  <2>3. Covering(r) \subseteq MatchingRanges(i)
    BY <1>1, <1>2, <2>1, MatchesAreCovers
  <2>4. QED
    BY <2>2, <2>3
<1>6. QED
  BY <1>2, <1>4, <1>5

\* The indices of the ranges are numbers.
LEMMA RangesAreNumbered ==
  /\ \A path \in Paths : DOMAIN Directives[path] \subseteq Nat
  /\ \A r \in Reports : Covering(r) \subseteq Nat /\ Covering(r) \subseteq DOMAIN Directives[ReportOf[r].path]
<1>1. ASSUME NEW path \in Paths
      PROVE  DOMAIN Directives[path] \subseteq Nat
  <2>1. Directives[path] \in Seq([start : Nat, end : Nat, linters : SUBSET STRING])
    BY DirectivesAssumption
  <2>2. QED
    BY <2>1, InSequence
<1>2. \A r \in Reports : ReportOf[r].path \in Paths
  BY PipelineAssumption
<1>3. QED
  BY <1>1, <1>2 DEF Covering

\* A warning about a range has been received if and only if the file is known by one
\* of its names and the range is not marked under that name.
LEMMA WarnedAtTheEnd ==
  ASSUME Inv, finished, opts.warnUnmatched,
         NEW path \in Paths, NEW k \in DOMAIN Directives[path]
  PROVE  WarnedOf(path, k)
           <=> \E b \in BOOLEAN : <<<<path, b>>, k>> \in AllRanges \ matched
<1>1. AfterFilter = IssuesIn(received) /\ filterAt = "warning" /\ unused = {}
  BY AllSettled
<1>2. \A u \in AllRanges : (\E i \in IssuesIn(received) : i.from = {u}) <=> u \notin matched
  BY <1>1 DEF Inv, WarningsAreRight, WarnedAbout
<1>3. ASSUME NEW b \in BOOLEAN, NEW i \in IssuesIn(received), i.from = {<<<<path, b>>, k>>}
      PROVE  <<<<path, b>>, k>> \in AllRanges
  <2> DEFINE u == <<<<path, b>>, k>>
  <2>1. IsLetThrough(i)
    BY <1>1 DEF Inv, IssuesAsReported
  <2>2. CASE IsWarning(i)
    <3>1. PICK v \in AllRanges : i = Unmatched(v[1], v[2])
      BY <2>2 DEF IsWarning
    <3>2. i.from = {v}
      BY <3>1, RangeTypes DEF Inv
    <3>3. QED
      BY <1>3, <3>2
  <2>3. CASE IsReported(i)
    <3>1. u \in Reports
      BY <1>3, <2>3 DEF IsReported
    <3>2. u \in (Paths \X BOOLEAN) \X Nat
      BY RangesAreNumbered
    <3>3. QED
      BY <3>1, <3>2, NamesAssumption
  <2>4. QED
    BY <2>1, <2>2, <2>3 DEF IsLetThrough
<1>4. QED
  BY <1>2, <1>3 DEF WarnedOf

\* A range is reported as unmatched only if every report it covers was suppressed by an
\* earlier range, and one that covers no report is reported; with directories named
\* absolutely every range is reported (directives.go:71, 90-99, 106-113, 207-226).
LEMMA InvUnmatched == Inv => UnmatchedExact
<1>1. SUFFICES ASSUME Inv, finished, opts.warnUnmatched, ~opts.aggregate,
                      NEW path \in Paths, NEW k \in DOMAIN Directives[path]
               PROVE  LET covered == {r \in fed : ReportOf[r].path = path /\ k \in Covering(r)}
                      IN  WarnedOf(path, k) <=> opts.absolute \/
                            \A r \in covered : \E n \in Covering(r) : n < k
  BY DEF UnmatchedExact
<1> DEFINE covered == {r \in fed : ReportOf[r].path = path /\ k \in Covering(r)}
<1>2. LoadKey(path) = <<path, opts.absolute>> /\ LoadKey(path) \in files
  BY <1>1 DEF Inv, MarksAreRight, LoadKey
<1>3. <<LoadKey(path), k>> \in AllRanges
  BY <1>1, <1>2, RangeFound
<1>4. WarnedOf(path, k) <=> \E b \in BOOLEAN : <<<<path, b>>, k>> \in AllRanges \ matched
  BY <1>1, WarnedAtTheEnd
<1>5. k \in Nat /\ \A r \in Reports : Covering(r) \subseteq Nat
  BY RangesAreNumbered
<1>6. opts.absolute \in BOOLEAN
  BY <1>1, OptionTypes DEF Inv
<1>7. CASE opts.absolute
  <2>1. <<<<path, TRUE>>, k>> \in AllRanges
    BY <1>2, <1>3, <1>6, <1>7
  <2>2. <<<<path, TRUE>>, k>> \notin matched
    BY <1>1 DEF Inv, MarksAreRight
  <2>3. QED
    BY <1>4, <1>7, <2>1, <2>2
<1>8. CASE ~opts.absolute
  <2>1. <<<<path, FALSE>>, k>> \in AllRanges /\ <<path, FALSE>> = IssueKey(path)
    BY <1>2, <1>3, <1>6, <1>8 DEF IssueKey
  <2>2. <<<<path, TRUE>>, k>> \notin AllRanges
    <3>1. SUFFICES ASSUME <<<<path, TRUE>>, k>> \in AllRanges
                   PROVE  FALSE
      OBVIOUS
    <3>2. <<path, TRUE>> \in files
      BY <1>1, <3>1, RangeTypes DEF Inv
    <3>3. QED
      BY <1>1, <1>8, <3>2 DEF Inv, MarksAreRight
  <2>3. WarnedOf(path, k) <=> <<IssueKey(path), k>> \notin matched
    BY <1>4, <2>1, <2>2
  <2>4. WarnedOf(path, k) <=> ~MarkedFirst(path, k)
    BY <1>1, <2>3 DEF Inv, MarksAreRight
  <2>5. ASSUME MarkedFirst(path, k)
        PROVE  \E r \in covered : \A n \in Covering(r) : ~(n < k)
    <3>1. PICK i \in suppressed : /\ i.path = path /\ k \in MatchingRanges(i)
                                  /\ \A n \in MatchingRanges(i) : k <= n
      BY <2>5 DEF MarkedFirst
    <3>2. PICK r \in fed : /\ i.from = {r} /\ i.path = ReportOf[r].path
                           /\ MatchingRanges(i) = Covering(r)
      BY <1>1, Alone
    <3>3. r \in Reports
      BY <1>1 DEF Inv, TypeOK
    <3>4. r \in covered /\ \A n \in Covering(r) : ~(n < k)
      BY <1>5, <3>1, <3>2, <3>3
    <3>5. QED
      BY <3>4
  <2>6. ASSUME NEW r \in covered, \A n \in Covering(r) : ~(n < k)
        PROVE  MarkedFirst(path, k)
    <3>1. r \in fed /\ ReportOf[r].path = path /\ k \in Covering(r) /\ r \in Reports
      BY <1>1 DEF Inv, TypeOK
    <3>2. Holds(suppressed, r)
      BY <1>1, <3>1, InvSuppresses DEF SuppressesWhatItSays
    <3>3. PICK i \in suppressed : r \in i.from
      BY <3>2 DEF Holds
    <3>4. i.from = {r} /\ i.path = path /\ MatchingRanges(i) = Covering(r)
      BY <1>1, <3>1, <3>3, Alone
    <3>5. QED
      BY <1>5, <2>6, <3>1, <3>3, <3>4 DEF MarkedFirst
  <2>7. QED
    BY <1>8, <2>4, <2>5, <2>6
<1>9. QED
  BY <1>7, <1>8

\* The same of every reachable state (directives.go:71, 90-99, 106-113, 207-226).
THEOREM UnmatchedAsSaid == Spec => []UnmatchedExact
  BY InvUnmatched, InvCorrect, PTL

-----------------------------------------------------------------------------
(***************************************************************************)
(* Aggregation and the status.                                             *)
(***************************************************************************)
\* At the end a report is in an issue with its company, and with nothing else.
LEMMA WithCompany ==
  ASSUME Inv, finished, NEW i \in AfterFilter \cup suppressed, NEW r \in i.from, r \in Reports
  PROVE  Company(r) = i.from
<1>1. IsReported(i)
  BY LetThrough DEF Inv, IssuesAsReported
<1>2. r \in fed /\ \A q \in i.from : q \in fed
  <2>1. \A q \in i.from : q \in Reports
    BY <1>1 DEF IsReported
  <2>2. AfterFilter = IssuesIn(received)
    BY AllSettled
  <2>3. QED
    BY <2>1, <2>2, AllSettled DEF Holds
<1>3. CASE opts.aggregate
  <2>1. Company(r) \subseteq i.from
    <3>1. /\ InFirst = {} /\ i \in Everything
          /\ i \notin IssuesIn(chan["incoming"])
      <4>1. InFirst = {} /\ chan["incoming"] = <<>>
        BY AllSettled DEF Channels
      <4>2. IssuesIn(chan["incoming"]) = {}
        BY <4>1 DEF IssuesIn
      <4>3. QED
        BY <4>1, <4>2 DEF Everything
    <3>2. QED
      BY <1>3, <3>1 DEF Inv, OneForEachKey, TogetherBut
  <2>2. i.from \subseteq Company(r)
    BY <1>1, <1>2, <1>3 DEF IsReported, Company
  <2>3. QED
    BY <2>1, <2>2
<1>4. CASE ~opts.aggregate
  <2>1. i.from = {r}
    BY <1>1, <1>4 DEF IsReported
  <2>2. Company(r) = {r}
    BY <1>2, <1>4 DEF Company
  <2>3. QED
    BY <2>1, <2>2
<1>5. QED
  BY <1>3, <1>4

\* With --aggregate, reports with the same position and message are printed as one
\* issue or, if a directive covers them, suppressed as one (aggregate.go:25-41).
THEOREM MergedIsTogether == Spec => []MergedTogether
<1>1. Inv => MergedTogether
  <2>1. SUFFICES ASSUME Inv, finished, NEW r \in fed
                 PROVE  \E i \in IssuesIn(received) \cup suppressed : Company(r) \subseteq i.from
    BY DEF MergedTogether
  <2>2. PICK i \in IssuesIn(received) \cup suppressed : r \in i.from
    BY <2>1, AllSettled
  <2>3. i \in AfterFilter \cup suppressed /\ r \in Reports
    BY <2>1, <2>2 DEF AfterFilter, Inv, TypeOK
  <2>4. Company(r) = i.from
    BY <2>1, <2>2, <2>3, WithCompany
  <2>5. QED
    BY <2>2, <2>4
<1>2. QED
  BY <1>1, InvCorrect, PTL

\* A report that main has received is not silent; one that is suppressed is.
LEMMA SilentIsSuppressed ==
  ASSUME Inv, finished, NEW i \in AfterFilter \cup suppressed, NEW r \in i.from, r \in Reports
  PROVE  Silent(r) <=> i \in suppressed
<1>1. IsReported(i) /\ Company(r) = i.from
  BY WithCompany, LetThrough DEF Inv, IssuesAsReported
<1>2. i \in suppressed <=> MatchingRanges(i) # {}
  <2>1. i \in suppressed => MatchingRanges(i) # {}
    BY DEF Inv, IssuesAsReported
  <2>2. i \in AfterFilter => MatchingRanges(i) = {}
    BY LetThrough
  <2>3. QED
    BY <2>1, <2>2
<1>3. Silent(r) <=> MatchingRanges(i) # {}
  <2>1. ReportOf[r].path = i.path
    BY <1>1, MatchesAreCovers
  <2>2. \A k \in MatchingRanges(i) :
          k \in Covering(r) /\ (Company(r) = {r} \/ Directives[ReportOf[r].path][k].linters = {})
    BY <1>1, <2>1, MatchesAreCovers
  <2>3. \A k \in Covering(r) :
          Company(r) = {r} \/ Directives[ReportOf[r].path][k].linters = {} => k \in MatchingRanges(i)
    BY <1>1, <2>1, MatchesAreCovers
  <2>4. QED
    BY <2>2, <2>3 DEF Silent
<1>4. QED
  BY <1>2, <1>3

\* The severity of an issue that main has received is that of a report it was made
\* from, none of them silent.
LEMMA ShownReports ==
  ASSUME Inv, finished, NEW i \in IssuesIn(received), IsReported(i)
  PROVE  \E r \in fed : /\ r \in i.from /\ Company(r) = i.from /\ ~Silent(r)
                        /\ i.severity = ReportOf[r].severity
<1>1. PICK r \in i.from : i.severity = ReportOf[r].severity
  BY DEF IsReported
<1>2. r \in Reports /\ i \in AfterFilter
  BY DEF IsReported, AfterFilter
<1>3. Company(r) = i.from
  BY <1>2, WithCompany
<1>4. r \in fed
  BY <1>2, AllSettled DEF Holds
<1>5. ~Silent(r)
  <2>1. MatchingRanges(i) = {}
    BY <1>2, LetThrough
  <2>2. i \notin suppressed
    BY <2>1 DEF Inv, IssuesAsReported
  <2>3. QED
    BY <1>2, <2>2, SilentIsSuppressed
<1>6. QED
  BY <1>1, <1>3, <1>4, <1>5

\* The warnings that main has received are of severity "warning".
LEMMA WarningsWarn ==
  ASSUME Inv, NEW i \in AfterFilter, IsWarning(i)
  PROVE  /\ i.severity = "warning"
         /\ \E path \in Paths : \E k \in DOMAIN Directives[path], b \in BOOLEAN :
              i.from = {<<<<path, b>>, k>>}
<1>1. PICK u \in AllRanges : i = Unmatched(u[1], u[2])
  BY DEF IsWarning
<1>2. PICK key \in files : u \in {<<key, k>> : k \in DOMAIN RangesOf(key)}
  BY DEF AllRanges
<1>3. PICK k \in DOMAIN RangesOf(key) : u = <<key, k>>
  BY <1>2
<1>4. PICK path \in Paths, b \in BOOLEAN : key = <<path, b>>
  BY <1>2 DEF Inv, TypeOK
<1>5. i.from = {<<<<path, b>>, k>>} /\ i.severity = "warning"
  BY <1>1, <1>3, <1>4 DEF Unmatched
<1>6. k \in DOMAIN Directives[path]
  BY <1>3, <1>4 DEF RangesOf
<1>7. QED
  BY <1>4, <1>5, <1>6

\* Bit 0 of the status says whether there was something to show (aggregate.go:34,
\* main.go:286-296, README.md:275).
LEMMA InvStatus == Inv => StatusTells
<1> DEFINE warning == ~opts.errors /\ \E path \in Paths : \E k \in DOMAIN Directives[path] : WarnedOf(path, k)
           shown   == {r \in fed : ~Silent(r)}
<1>1. ASSUME Inv, finished, status = 1
      PROVE  warning \/ \E r \in shown : opts.errors => \E q \in Company(r) : IsError(q)
  <2>1. PICK i \in IssuesIn(received) : IsShown(i)
    BY <1>1 DEF Inv, StatusIsRight
  <2>2. i \in AfterFilter /\ IsLetThrough(i)
    BY <1>1, <2>1 DEF AfterFilter, Inv, IssuesAsReported
  <2>3. CASE IsWarning(i)
    <3>1. i.severity = "warning"
      BY <1>1, <2>2, <2>3, WarningsWarn
    <3>2. PICK path \in Paths : \E k \in DOMAIN Directives[path], b \in BOOLEAN :
            i.from = {<<<<path, b>>, k>>}
      BY <1>1, <2>2, <2>3, WarningsWarn
    <3>3. \E k \in DOMAIN Directives[path] : WarnedOf(path, k)
      BY <2>1, <3>2 DEF WarnedOf
    <3>4. ~opts.errors
      BY <2>1, <3>1 DEF IsShown
    <3>5. QED
      BY <3>3, <3>4
  <2>4. CASE IsReported(i)
    <3>1. PICK r \in fed : /\ r \in i.from /\ Company(r) = i.from /\ ~Silent(r)
                           /\ i.severity = ReportOf[r].severity
      BY <1>1, <2>1, <2>4, ShownReports
    <3>2. r \in shown /\ (opts.errors => IsError(r)) /\ r \in Company(r)
      BY <2>1, <3>1 DEF IsShown, IsError
    <3>3. QED
      BY <3>2
  <2>5. QED
    BY <2>2, <2>3, <2>4 DEF IsLetThrough
<1>2. ASSUME Inv, finished, warning
      PROVE  status = 1
  <2>1. PICK path \in Paths, i \in IssuesIn(received) : \E k \in DOMAIN Directives[path] :
          \E b \in BOOLEAN : i.from = {<<<<path, b>>, k>>}
    BY <1>2 DEF WarnedOf
  <2>2. IsShown(i)
    BY <1>2 DEF IsShown
  <2>3. QED
    BY <1>2, <2>2 DEF Inv, StatusIsRight
<1>3. ASSUME Inv, finished, NEW r \in shown, opts.errors => \A q \in Company(r) : IsError(q)
      PROVE  status = 1
  <2>1. PICK i \in IssuesIn(received) \cup suppressed : r \in i.from
    BY <1>3, AllSettled
  <2>2. r \in Reports /\ i \in AfterFilter \cup suppressed
    BY <1>3, <2>1 DEF Inv, TypeOK, AfterFilter
  <2>3. i \in IssuesIn(received) /\ i \in AfterFilter
    BY <1>3, <2>1, <2>2, SilentIsSuppressed DEF AfterFilter
  <2>4. IsReported(i)
    BY <1>3, <2>1, <2>2, <2>3, LetThrough
  <2>5. PICK q \in fed : q \in i.from /\ i.severity = ReportOf[q].severity
    BY <1>3, <2>3, <2>4, ShownReports
  <2>6. Company(r) = i.from
    BY <1>3, <2>1, <2>2, WithCompany
  <2>7. IsShown(i)
    BY <1>3, <2>5, <2>6 DEF IsShown, IsError
  <2>8. QED
    BY <1>3, <2>3, <2>7 DEF Inv, StatusIsRight
<1>4. QED
  BY <1>1, <1>2, <1>3 DEF StatusTells

\* The same of every reachable state (aggregate.go:34, main.go:286-296, README.md:275).
THEOREM StatusIsTold == Spec => []StatusTells
  BY InvStatus, InvCorrect, PTL
===============================================================================
