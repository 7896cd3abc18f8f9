------------------------- MODULE SourceMergeProofs -------------------------
(***************************************************************************)
(* The fan-in of channels: alignment cannot deadlock and its barriers are  *)
(* aligned cuts, replaying is exact, and no record is made late, for any   *)
(* number of channels, any scripts and idle spans, any idle timeout and    *)
(* any number of seeks.                                                    *)
(***************************************************************************)
EXTENDS SourceMerge, FiniteSetTheorems, SequenceTheorems, WellFoundedInduction, TLAPS

-----------------------------------------------------------------------------
(***************************************************************************)
(* Channels.                                                               *)
(***************************************************************************)
Shape(c) ==
    c = [cursor |-> c.cursor, exhausted |-> c.exhausted, next_span |-> c.next_span,
         gap_remaining |-> c.gap_remaining, data_pulled |-> c.data_pulled,
         consecutive_empty |-> c.consecutive_empty, idle |-> c.idle,
         barriers_seen |-> c.barriers_seen]

\* The state c of channel i.
ChannelOK(i, c) ==
    /\ Shape(c)
    /\ c.cursor \in Nat /\ c.cursor =< Len(script[i]) /\ c.next_span \in Nat /\ c.next_span >= 1
    /\ c.gap_remaining \in Nat /\ c.data_pulled \in Nat /\ c.consecutive_empty \in Nat
    /\ c.barriers_seen \in Nat /\ c.exhausted \in BOOLEAN /\ c.idle \in BOOLEAN
    /\ c.exhausted => c.cursor = Len(script[i])

ConfigOK ==
    /\ live \in BOOLEAN
    /\ \A i \in Channels : script[i] \in Seq(Items)
                           /\ spans[i] \in Seq([start : Nat, length : Nat])

ChannelsOK == ch = [i \in Channels |-> ch[i]] /\ \A i \in Channels : ChannelOK(i, ch[i])

LEMMA ChannelFacts ==
    /\ NumChannels \in Nat /\ NumChannels >= 1 /\ IsFiniteSet(Channels) /\ Channels \subseteq Nat
    /\ \A i \in Channels : i \in Nat /\ i < NumChannels
    /\ \A i \in Nat : i < NumChannels => i \in Channels
<1>1. NumChannels \in Nat /\ NumChannels >= 1
  BY MergeAssumption
<1>2. IsFiniteSet(0..(NumChannels - 1))
  BY <1>1, FS_Interval
<1> QED BY <1>1, <1>2 DEF Channels

LEMMA ScriptFacts ==
    ASSUME ConfigOK, NEW i \in Channels
    PROVE  /\ Len(script[i]) \in Nat /\ Len(spans[i]) \in Nat
           /\ \A n \in 1..Len(script[i]) :
                 /\ script[i][n].type \in {"record", "watermark", "barrier"}
                 /\ script[i][n].type = "watermark" => script[i][n].time \in Nat
           /\ \A n \in 1..Len(spans[i]) : spans[i][n].length \in Nat
<1>1. script[i] \in Seq(Items) /\ spans[i] \in Seq([start : Nat, length : Nat])
  BY DEF ConfigOK
<1>2. Len(script[i]) \in Nat /\ Len(spans[i]) \in Nat
  BY <1>1, LenProperties
<1>3. ASSUME NEW n \in 1..Len(script[i])
      PROVE  /\ script[i][n].type \in {"record", "watermark", "barrier"}
             /\ script[i][n].type = "watermark" => script[i][n].time \in Nat
  <2>1. PICK x : x = script[i][n] /\ x \in Items
    BY <1>1, ElementOfSeq
  <2>2. x.type \in {"record", "watermark", "barrier"} /\ (x.type = "watermark" => x.time \in Nat)
    BY <2>1 DEF Items
  <2> QED BY <2>1, <2>2
<1>4. ASSUME NEW n \in 1..Len(spans[i]) PROVE spans[i][n].length \in Nat
  <2>1. spans[i][n] \in [start : Nat, length : Nat]
    BY <1>1, ElementOfSeq
  <2> QED BY <2>1
<1> QED BY <1>2, <1>3, <1>4

\* Opening a gap changes nothing but the gap.
LEMMA OpenGapFacts ==
    ASSUME ConfigOK, ChannelsOK, NEW i \in Channels, NEW c, c = OpenGap(i)
    PROVE  /\ ChannelOK(i, c) /\ c.cursor = ch[i].cursor /\ c.exhausted = ch[i].exhausted
           /\ c.data_pulled = ch[i].data_pulled /\ c.idle = ch[i].idle
           /\ c.consecutive_empty = ch[i].consecutive_empty
           /\ c.barriers_seen = ch[i].barriers_seen
<1>1. PICK b : b = ch[i] /\ ChannelOK(i, b)
  BY DEF ChannelsOK
<1>2. CASE c = b
  BY <1>1, <1>2
<1>3. CASE c # b
  <2>1. /\ b.next_span =< Len(spans[i])
        /\ c = [b EXCEPT !.gap_remaining = spans[i][b.next_span].length, !.next_span = @ + 1]
    BY <1>1, <1>3 DEF OpenGap
  <2>2. b.next_span \in 1..Len(spans[i])
    BY <1>1, <2>1, ScriptFacts DEF ChannelOK
  <2>3. PICK len \in Nat : len = spans[i][b.next_span].length
    BY <2>2, ScriptFacts
  <2>4. c = [b EXCEPT !.gap_remaining = len, !.next_span = @ + 1]
    BY <2>1, <2>3
  <2>5. Shape(b) /\ b.next_span \in Nat
    BY <1>1 DEF ChannelOK
  <2>6. /\ Shape(c) /\ c.cursor = b.cursor /\ c.exhausted = b.exhausted
        /\ c.data_pulled = b.data_pulled /\ c.idle = b.idle
        /\ c.consecutive_empty = b.consecutive_empty /\ c.barriers_seen = b.barriers_seen
        /\ c.gap_remaining = len /\ c.next_span = b.next_span + 1
    BY <2>4, <2>5 DEF Shape
  <2>7. c.next_span \in Nat /\ c.next_span >= 1
    BY <2>5, <2>6
  <2>8. ChannelOK(i, c)
    BY <1>1, <2>6, <2>7 DEF ChannelOK
  <2> QED BY <1>1, <2>6, <2>8
<1> QED BY <1>2, <1>3

-----------------------------------------------------------------------------
(***************************************************************************)
(* A step of channel i, which becomes v.                                   *)
(***************************************************************************)
Becomes(i, v) ==
    /\ ch' = [ch EXCEPT ![i] = v] /\ ChannelOK(i, v)
    /\ ~ch[i].exhausted /\ ~(ch[i].barriers_seen > epoch_closed)

\* It leaves the minimum and the alignment set.
Leaves(i, v) ==
    /\ v.cursor = ch[i].cursor /\ v.barriers_seen = ch[i].barriers_seen
    /\ \/ v.idle /\ ~v.exhausted /\ idled' = idled \cup {i}
       \/ v.exhausted /\ v.idle = ch[i].idle /\ idled' = idled
    /\ active' = [active EXCEPT ![i] = FALSE] /\ per_source' = per_source
    /\ emitted' = Recompute(per_source, active', emitted)
    /\ epoch_closed' = MaybeCloseEpoch(ch')
    /\ merged_offset' = merged_offset /\ Output(emitted)

\* A turn without an item.
Passes(i, v) ==
    /\ v.cursor = ch[i].cursor /\ v.barriers_seen = ch[i].barriers_seen
    /\ v.exhausted = ch[i].exhausted /\ v.idle = ch[i].idle
    /\ active' = active /\ per_source' = per_source /\ emitted' = emitted
    /\ epoch_closed' = epoch_closed /\ merged_offset' = merged_offset
    /\ forwarded' = forwarded /\ cuts' = cuts /\ idled' = idled

\* It delivers an item.
Delivers(i, v) ==
    /\ ch[i].cursor < Len(script[i]) /\ v.cursor = ch[i].cursor + 1
    /\ ~v.exhausted /\ ~v.idle /\ active' = [active EXCEPT ![i] = TRUE]
    /\ idled' = idled

DeliversRecord(i, v) ==
    /\ Delivers(i, v) /\ script[i][v.cursor].type = "record"
    /\ v.barriers_seen = ch[i].barriers_seen
    /\ per_source' = per_source /\ emitted' = ResumedEmitted(i)
    /\ epoch_closed' = epoch_closed /\ merged_offset' = merged_offset + 1
    /\ forwarded' = forwarded /\ cuts' = cuts

DeliversWatermark(i, v) ==
    /\ Delivers(i, v) /\ script[i][v.cursor].type = "watermark"
    /\ v.barriers_seen = ch[i].barriers_seen
    /\ per_source' = [per_source EXCEPT ![i] = Max({@, script[i][v.cursor].time})]
    /\ emitted' = Recompute(per_source', active', ResumedEmitted(i))
    /\ epoch_closed' = epoch_closed /\ merged_offset' = merged_offset
    /\ Output(ResumedEmitted(i))

DeliversBarrier(i, v) ==
    /\ Delivers(i, v) /\ script[i][v.cursor].type = "barrier"
    /\ v.barriers_seen = ch[i].barriers_seen + 1
    /\ per_source' = per_source /\ emitted' = ResumedEmitted(i)
    /\ epoch_closed' = MaybeCloseEpoch(ch') /\ merged_offset' = merged_offset
    /\ Output(emitted')

Steps(i, v) == \/ Leaves(i, v) \/ Passes(i, v) \/ DeliversRecord(i, v)
               \/ DeliversWatermark(i, v) \/ DeliversBarrier(i, v)

LEMMA ServiceableFacts ==
    ASSUME NEW i, HasTurn(i)
    PROVE  ~ch[i].exhausted /\ ~(ch[i].barriers_seen > epoch_closed)
  BY DEF HasTurn, Serviceable, IsChannelBlocked

\* A channel's state with some of its fields replaced.
SameBut(v, c, changed) ==
    /\ Shape(v)
    /\ "cursor" \notin changed => v.cursor = c.cursor
    /\ "exhausted" \notin changed => v.exhausted = c.exhausted
    /\ "next_span" \notin changed => v.next_span = c.next_span
    /\ "gap_remaining" \notin changed => v.gap_remaining = c.gap_remaining
    /\ "data_pulled" \notin changed => v.data_pulled = c.data_pulled
    /\ "consecutive_empty" \notin changed => v.consecutive_empty = c.consecutive_empty
    /\ "idle" \notin changed => v.idle = c.idle
    /\ "barriers_seen" \notin changed => v.barriers_seen = c.barriers_seen

LEMMA SetIdle ==
    ASSUME NEW c, Shape(c), NEW x, NEW v, v = [c EXCEPT !.idle = x]
    PROVE  SameBut(v, c, {"idle"}) /\ v.idle = x
<1>1. Shape(v)
  BY DEF Shape
<1> QED BY <1>1 DEF SameBut, Shape

LEMMA SetExhausted ==
    ASSUME NEW c, Shape(c), NEW x, NEW v, v = [c EXCEPT !.exhausted = x]
    PROVE  SameBut(v, c, {"exhausted"}) /\ v.exhausted = x
<1>1. Shape(v)
  BY DEF Shape
<1> QED BY <1>1 DEF SameBut, Shape

LEMMA SetRecord ==
    ASSUME NEW c, Shape(c), NEW x, NEW v, v = [c EXCEPT !.data_pulled = x]
    PROVE  SameBut(v, c, {"data_pulled"}) /\ v.data_pulled = x
<1>1. Shape(v)
  BY DEF Shape
<1> QED BY <1>1 DEF SameBut, Shape

LEMMA SetBarrier ==
    ASSUME NEW c, Shape(c), NEW x, NEW v, v = [c EXCEPT !.barriers_seen = x]
    PROVE  SameBut(v, c, {"barriers_seen"}) /\ v.barriers_seen = x
<1>1. Shape(v)
  BY DEF Shape
<1> QED BY <1>1 DEF SameBut, Shape

LEMMA ChExcept ==
    ASSUME ChannelsOK, NEW i \in Channels, NEW u, NEW chs, chs = [ch EXCEPT ![i] = u]
    PROVE  /\ chs[i] = u /\ \A j \in Channels : j # i => chs[j] = ch[j]
           /\ chs = [j \in Channels |-> chs[j]]
           /\ \A v : v = [u EXCEPT !.idle = TRUE] =>
                 [chs EXCEPT ![i].idle = TRUE] = [ch EXCEPT ![i] = v]
  BY DEF ChannelsOK

LEMMA IdleMoves ==
    ASSUME ConfigOK, ChannelsOK, NEW i \in Channels, HasTurn(i), IdleTick(i)
    PROVE  \E v : Becomes(i, v) /\ Steps(i, v)
<1>1. PICK c : c = OpenGap(i)
  OBVIOUS
<1>2. /\ ChannelOK(i, c) /\ c.cursor = ch[i].cursor /\ c.exhausted = ch[i].exhausted
      /\ c.idle = ch[i].idle /\ c.barriers_seen = ch[i].barriers_seen
  BY <1>1, OpenGapFacts
<1>3. c.gap_remaining > 0 /\ per_source' = per_source /\ merged_offset' = merged_offset
  BY <1>1 DEF IdleTick
<1>4. PICK t : t = [c EXCEPT !.gap_remaining = c.gap_remaining - 1,
                             !.consecutive_empty = c.consecutive_empty + 1]
  OBVIOUS
<1>5. SameBut(t, c, {"gap_remaining", "consecutive_empty"})
      /\ t.gap_remaining = c.gap_remaining - 1 /\ t.consecutive_empty = c.consecutive_empty + 1
  <2>1. Shape(c)
    BY <1>2 DEF ChannelOK
  <2>2. PICK g, e : g = c.gap_remaining - 1 /\ e = c.consecutive_empty + 1
    OBVIOUS
  <2>3. t = [c EXCEPT !.gap_remaining = g, !.consecutive_empty = e]
    BY <1>4, <2>2
  <2>4. SameBut(t, c, {"gap_remaining", "consecutive_empty"})
        /\ t.gap_remaining = g /\ t.consecutive_empty = e
    <3>1. Shape(t)
      BY <2>1, <2>3 DEF Shape
    <3> QED BY <2>1, <2>3, <3>1 DEF Shape, SameBut
  <2> QED BY <2>2, <2>4
<1>6. ChannelOK(i, t)
  BY <1>2, <1>3, <1>5 DEF ChannelOK, SameBut
<1>7. PICK ticked : ticked = [ch EXCEPT ![i] = t]
  OBVIOUS
<1>8. \/ MarkChannelIdle(ticked, i)
      \/ ch' = ticked /\ UNCHANGED <<active, emitted, epoch_closed, forwarded, cuts, idled>>
  BY <1>1, <1>4, <1>7 DEF IdleTick
<1>9. CASE MarkChannelIdle(ticked, i)
  <2>1. PICK v : v = [t EXCEPT !.idle = TRUE]
    OBVIOUS
  <2>2. SameBut(v, t, {"idle"}) /\ v.idle = TRUE
    BY <1>6, <2>1, SetIdle DEF ChannelOK
  <2>3. ChannelOK(i, v)
    BY <1>6, <2>2 DEF ChannelOK, SameBut
  <2>4. [ticked EXCEPT ![i].idle = TRUE] = [ch EXCEPT ![i] = v]
    BY <1>7, <2>1, ChExcept
  <2>5. ch' = [ch EXCEPT ![i] = v]
    BY <1>9, <2>4 DEF MarkChannelIdle, Exclude
  <2>6. Becomes(i, v)
    BY <2>3, <2>5, ServiceableFacts DEF Becomes
  <2>7. /\ active' = [active EXCEPT ![i] = FALSE] /\ idled' = idled \cup {i}
        /\ emitted' = Recompute(per_source, active', emitted)
        /\ epoch_closed' = MaybeCloseEpoch(ch') /\ Output(emitted)
    BY <1>9, <2>4, <2>5 DEF MarkChannelIdle, Exclude
  <2>8. v.cursor = ch[i].cursor /\ v.barriers_seen = ch[i].barriers_seen /\ ~v.exhausted /\ v.idle
    BY <1>2, <1>5, <2>2, ServiceableFacts DEF SameBut
  <2>9. Leaves(i, v)
    BY <1>3, <2>7, <2>8 DEF Leaves
  <2> QED BY <2>6, <2>9 DEF Steps
<1>10. CASE ch' = ticked /\ UNCHANGED <<active, emitted, epoch_closed, forwarded, cuts, idled>>
  <2>1. Becomes(i, t)
    BY <1>6, <1>7, <1>10, ServiceableFacts DEF Becomes
  <2>2. /\ t.cursor = ch[i].cursor /\ t.barriers_seen = ch[i].barriers_seen
        /\ t.exhausted = ch[i].exhausted /\ t.idle = ch[i].idle
    BY <1>2, <1>5 DEF SameBut
  <2>3. Passes(i, t)
    BY <1>3, <1>10, <2>2 DEF Passes
  <2> QED BY <2>1, <2>3 DEF Steps
<1> QED BY <1>8, <1>9, <1>10

LEMMA ExhaustMoves ==
    ASSUME ConfigOK, ChannelsOK, NEW i \in Channels, HasTurn(i), Exhaust(i)
    PROVE  \E v : Becomes(i, v) /\ Steps(i, v)
<1>1. PICK c : c = OpenGap(i)
  OBVIOUS
<1>2. /\ ChannelOK(i, c) /\ c.cursor = ch[i].cursor /\ c.exhausted = ch[i].exhausted
      /\ c.idle = ch[i].idle /\ c.barriers_seen = ch[i].barriers_seen
  BY <1>1, OpenGapFacts
<1>3. PICK v : v = [c EXCEPT !.exhausted = TRUE]
  OBVIOUS
<1>4. /\ c.cursor = Len(script[i]) /\ Exclude([ch EXCEPT ![i] = v], i)
      /\ per_source' = per_source /\ merged_offset' = merged_offset /\ idled' = idled
  BY <1>1, <1>3 DEF Exhaust
<1>5. SameBut(v, c, {"exhausted"}) /\ v.exhausted = TRUE
  BY <1>2, <1>3, SetExhausted DEF ChannelOK
<1>6. ChannelOK(i, v)
  BY <1>2, <1>4, <1>5 DEF ChannelOK, SameBut
<1>7. /\ ch' = [ch EXCEPT ![i] = v] /\ active' = [active EXCEPT ![i] = FALSE]
      /\ emitted' = Recompute(per_source, active', emitted)
      /\ epoch_closed' = MaybeCloseEpoch(ch') /\ Output(emitted)
  BY <1>4 DEF Exclude
<1>8. Becomes(i, v)
  BY <1>6, <1>7, ServiceableFacts DEF Becomes
<1>9. /\ v.cursor = ch[i].cursor /\ v.barriers_seen = ch[i].barriers_seen
      /\ v.exhausted /\ v.idle = ch[i].idle
  BY <1>2, <1>5 DEF SameBut
<1>10. Leaves(i, v)
  BY <1>4, <1>7, <1>9 DEF Leaves
<1> QED BY <1>8, <1>10 DEF Steps

LEMMA QuietMoves ==
    ASSUME ConfigOK, ChannelsOK, NEW i \in Channels, HasTurn(i), Quiet(i)
    PROVE  \E v : Becomes(i, v) /\ Steps(i, v)
<1>1. PICK c : c = OpenGap(i)
  OBVIOUS
<1>2. /\ ChannelOK(i, c) /\ c.cursor = ch[i].cursor /\ c.exhausted = ch[i].exhausted
      /\ c.idle = ch[i].idle /\ c.barriers_seen = ch[i].barriers_seen
  BY <1>1, OpenGapFacts
<1>3. PICK same : same = [ch EXCEPT ![i] = c]
  OBVIOUS
<1>4. /\ per_source' = per_source /\ merged_offset' = merged_offset
      /\ \/ MarkChannelIdle(same, i)
         \/ ch' = same /\ UNCHANGED <<active, emitted, epoch_closed, forwarded, cuts, idled>>
  BY <1>1, <1>3 DEF Quiet
<1>5. CASE MarkChannelIdle(same, i)
  <2>1. PICK v : v = [c EXCEPT !.idle = TRUE]
    OBVIOUS
  <2>2. SameBut(v, c, {"idle"}) /\ v.idle = TRUE
    <3>1. Shape(c)
      BY <1>2 DEF ChannelOK
    <3> QED BY <2>1, <3>1, SetIdle
  <2>3. ChannelOK(i, v)
    BY <1>2, <2>2 DEF ChannelOK, SameBut
  <2>4. [same EXCEPT ![i].idle = TRUE] = [ch EXCEPT ![i] = v]
    BY <1>3, <2>1, ChExcept
  <2>5. ch' = [ch EXCEPT ![i] = v]
    BY <1>5, <2>4 DEF MarkChannelIdle, Exclude
  <2>6. Becomes(i, v)
    BY <2>3, <2>5, ServiceableFacts DEF Becomes
  <2>7. /\ active' = [active EXCEPT ![i] = FALSE] /\ idled' = idled \cup {i}
        /\ emitted' = Recompute(per_source, active', emitted)
        /\ epoch_closed' = MaybeCloseEpoch(ch') /\ Output(emitted)
    BY <1>5, <2>4, <2>5 DEF MarkChannelIdle, Exclude
  <2>8. v.cursor = ch[i].cursor /\ v.barriers_seen = ch[i].barriers_seen /\ ~v.exhausted /\ v.idle
    BY <1>2, <2>2, ServiceableFacts DEF SameBut
  <2>9. Leaves(i, v)
    BY <1>4, <2>7, <2>8 DEF Leaves
  <2> QED BY <2>6, <2>9 DEF Steps
<1>6. CASE ch' = same /\ UNCHANGED <<active, emitted, epoch_closed, forwarded, cuts, idled>>
  <2>1. Becomes(i, c)
    BY <1>2, <1>3, <1>6, ServiceableFacts DEF Becomes
  <2>2. Passes(i, c)
    BY <1>2, <1>4, <1>6 DEF Passes
  <2> QED BY <2>1, <2>2 DEF Steps
<1> QED BY <1>4, <1>5, <1>6

\* The channel once its next item was pulled.
LEMMA PulledFacts ==
    ASSUME ConfigOK, ChannelsOK, NEW i \in Channels, HasTurn(i), ch[i].cursor < Len(script[i]),
           NEW v, v = Pulled(i)
    PROVE  /\ ChannelOK(i, v) /\ v.cursor = ch[i].cursor + 1 /\ ~v.exhausted /\ ~v.idle
           /\ v.barriers_seen = ch[i].barriers_seen /\ v.data_pulled = ch[i].data_pulled
<1>1. PICK c : c = OpenGap(i)
  OBVIOUS
<1>2. /\ ChannelOK(i, c) /\ c.cursor = ch[i].cursor /\ c.exhausted = ch[i].exhausted
      /\ c.barriers_seen = ch[i].barriers_seen /\ c.data_pulled = ch[i].data_pulled
  BY <1>1, OpenGapFacts
<1>3. v = [c EXCEPT !.cursor = c.cursor + 1, !.idle = FALSE, !.consecutive_empty = 0]
  BY <1>1 DEF Pulled
<1>4. SameBut(v, c, {"cursor", "idle", "consecutive_empty"})
      /\ v.cursor = c.cursor + 1 /\ v.idle = FALSE /\ v.consecutive_empty = 0
  <2>1. Shape(c)
    BY <1>2 DEF ChannelOK
  <2>2. PICK n : n = c.cursor + 1
    OBVIOUS
  <2>3. v = [c EXCEPT !.cursor = n, !.idle = FALSE, !.consecutive_empty = 0]
    BY <1>3, <2>2
  <2>4. SameBut(v, c, {"cursor", "idle", "consecutive_empty"})
        /\ v.cursor = n /\ v.idle = FALSE /\ v.consecutive_empty = 0
    <3>1. Shape(v)
      BY <2>1, <2>3 DEF Shape
    <3> QED BY <2>1, <2>3, <3>1 DEF Shape, SameBut
  <2> QED BY <2>2, <2>4
<1>5. ~v.exhausted
  BY <1>2, <1>4, ServiceableFacts DEF SameBut
<1>6. c.cursor + 1 \in Nat /\ c.cursor + 1 =< Len(script[i])
  BY <1>2, ScriptFacts DEF ChannelOK
<1>7. ChannelOK(i, v)
  <2>1. /\ c.next_span \in Nat /\ c.next_span >= 1 /\ c.gap_remaining \in Nat
        /\ c.data_pulled \in Nat /\ c.barriers_seen \in Nat
    BY <1>2 DEF ChannelOK
  <2>2. /\ Shape(v) /\ v.next_span = c.next_span /\ v.gap_remaining = c.gap_remaining
        /\ v.data_pulled = c.data_pulled /\ v.barriers_seen = c.barriers_seen
        /\ v.exhausted = c.exhausted
    BY <1>4 DEF SameBut
  <2>3. v.exhausted \in BOOLEAN
    BY <1>2, <2>2 DEF ChannelOK
  <2>4. v.idle \in BOOLEAN /\ (v.exhausted => v.cursor = Len(script[i]))
    BY <1>4, <1>5, Zenon
  <2>5. v.cursor \in Nat /\ v.cursor =< Len(script[i]) /\ v.consecutive_empty \in Nat
    BY <1>4, <1>6
  <2>6. /\ v.next_span \in Nat /\ v.next_span >= 1 /\ v.gap_remaining \in Nat
        /\ v.data_pulled \in Nat /\ v.barriers_seen \in Nat
    BY <2>1, <2>2
  <2> QED BY <2>2, <2>3, <2>4, <2>5, <2>6, Zenon DEF ChannelOK
<1> QED BY <1>2, <1>4, <1>5, <1>7 DEF SameBut

LEMMA DeliverMoves ==
    ASSUME ConfigOK, ChannelsOK, NEW i \in Channels, HasTurn(i),
           DeliverRecord(i) \/ DeliverWatermark(i) \/ DeliverBarrier(i)
    PROVE  \E v : Becomes(i, v) /\ Steps(i, v)
<1>1. PICK u : u = Pulled(i)
  OBVIOUS
<1>2. ch[i].cursor < Len(script[i])
  BY DEF DeliverRecord, DeliverWatermark, DeliverBarrier, CanDeliver
<1>3. /\ ChannelOK(i, u) /\ u.cursor = ch[i].cursor + 1 /\ ~u.exhausted /\ ~u.idle
      /\ u.barriers_seen = ch[i].barriers_seen
  BY <1>1, <1>2, PulledFacts
<1>4. CASE DeliverRecord(i)
  <2>1. PICK v : v = [u EXCEPT !.data_pulled = u.data_pulled + 1]
    OBVIOUS
  <2>2. SameBut(v, u, {"data_pulled"}) /\ v.data_pulled = u.data_pulled + 1
    <3>1. Shape(u)
      BY <1>3 DEF ChannelOK
    <3>2. PICK n : n = u.data_pulled + 1
      OBVIOUS
    <3>3. SameBut(v, u, {"data_pulled"}) /\ v.data_pulled = n
      BY <2>1, <3>1, <3>2, SetRecord
    <3> QED BY <3>2, <3>3
  <2>3. ChannelOK(i, v)
    BY <1>3, <2>2 DEF ChannelOK, SameBut
  <2>4. /\ v.cursor = ch[i].cursor + 1 /\ ~v.exhausted /\ ~v.idle
        /\ v.barriers_seen = ch[i].barriers_seen
    BY <1>3, <2>2 DEF SameBut
  <2>5. /\ ch' = [ch EXCEPT ![i] = v] /\ active' = [active EXCEPT ![i] = TRUE]
        /\ emitted' = ResumedEmitted(i) /\ merged_offset' = merged_offset + 1
        /\ per_source' = per_source /\ epoch_closed' = epoch_closed
        /\ forwarded' = forwarded /\ cuts' = cuts /\ idled' = idled
        /\ script[i][ch[i].cursor + 1].type = "record"
    BY <1>1, <1>4, <2>1 DEF DeliverRecord, Resumed, CanDeliver, Item
  <2>6. Becomes(i, v)
    BY <2>3, <2>5, ServiceableFacts DEF Becomes
  <2>7. DeliversRecord(i, v)
    BY <1>2, <2>4, <2>5 DEF DeliversRecord, Delivers
  <2> QED BY <2>6, <2>7 DEF Steps
<1>5. CASE DeliverWatermark(i)
  <2>1. /\ ch' = [ch EXCEPT ![i] = u] /\ active' = [active EXCEPT ![i] = TRUE]
        /\ per_source' = [per_source EXCEPT ![i] = Max({@, script[i][ch[i].cursor + 1].time})]
        /\ emitted' = Recompute(per_source', active', ResumedEmitted(i))
        /\ merged_offset' = merged_offset /\ epoch_closed' = epoch_closed /\ idled' = idled
        /\ Output(ResumedEmitted(i)) /\ script[i][ch[i].cursor + 1].type = "watermark"
    BY <1>1, <1>5 DEF DeliverWatermark, Resumed, CanDeliver, Item
  <2>2. Becomes(i, u)
    BY <1>3, <2>1, ServiceableFacts DEF Becomes
  <2>3. DeliversWatermark(i, u)
    BY <1>2, <1>3, <2>1 DEF DeliversWatermark, Delivers
  <2> QED BY <2>2, <2>3 DEF Steps
<1>6. CASE DeliverBarrier(i)
  <2>1. PICK v : v = [u EXCEPT !.barriers_seen = u.barriers_seen + 1]
    OBVIOUS
  <2>2. SameBut(v, u, {"barriers_seen"}) /\ v.barriers_seen = u.barriers_seen + 1
    <3>1. Shape(u)
      BY <1>3 DEF ChannelOK
    <3>2. PICK n : n = u.barriers_seen + 1
      OBVIOUS
    <3>3. SameBut(v, u, {"barriers_seen"}) /\ v.barriers_seen = n
      BY <2>1, <3>1, <3>2, SetBarrier
    <3> QED BY <3>2, <3>3
  <2>3. ChannelOK(i, v)
    BY <1>3, <2>2 DEF ChannelOK, SameBut
  <2>4. /\ v.cursor = ch[i].cursor + 1 /\ ~v.exhausted /\ ~v.idle
        /\ v.barriers_seen = ch[i].barriers_seen + 1
    BY <1>3, <2>2 DEF SameBut
  <2>5. /\ ch' = [ch EXCEPT ![i] = v] /\ active' = [active EXCEPT ![i] = TRUE]
        /\ emitted' = ResumedEmitted(i) /\ merged_offset' = merged_offset
        /\ per_source' = per_source /\ epoch_closed' = MaybeCloseEpoch(ch')
        /\ idled' = idled /\ Output(emitted') /\ script[i][ch[i].cursor + 1].type = "barrier"
    BY <1>1, <1>6, <2>1 DEF DeliverBarrier, Resumed, CanDeliver, Item
  <2>6. Becomes(i, v)
    BY <2>3, <2>5, ServiceableFacts DEF Becomes
  <2>7. DeliversBarrier(i, v)
    BY <1>2, <2>4, <2>5 DEF DeliversBarrier, Delivers
  <2> QED BY <2>6, <2>7 DEF Steps
<1> QED BY <1>4, <1>5, <1>6

\* A step of the merge is a step of one channel.
LEMMA MergeMoves ==
    ASSUME ConfigOK, ChannelsOK, ProduceOneMergedStep
    PROVE  /\ \E i \in Channels : \E v : Becomes(i, v) /\ Steps(i, v)
           /\ live' = live /\ script' = script /\ spans' = spans /\ target' = target
           /\ ended' = ended /\ ~ended /\ seeks' = seeks
<1>1. PICK i \in Channels : /\ HasTurn(i)
                            /\ \/ IdleTick(i) \/ Exhaust(i) \/ Quiet(i)
                               \/ DeliverRecord(i) \/ DeliverWatermark(i) \/ DeliverBarrier(i)
  BY DEF ProduceOneMergedStep
<1>2. \E v : Becomes(i, v) /\ Steps(i, v)
  BY <1>1, IdleMoves, ExhaustMoves, QuietMoves, DeliverMoves
<1>3. /\ live' = live /\ script' = script /\ spans' = spans /\ target' = target
      /\ ended' = ended /\ ~ended /\ seeks' = seeks
  BY DEF ProduceOneMergedStep, config
<1> QED BY <1>2, <1>3

-----------------------------------------------------------------------------
(***************************************************************************)
(* The inductive invariant.  No channel is more than one barrier ahead, an *)
(* idle one is not ahead at all, and while some channel is in the          *)
(* alignment set one of them still has its barrier to come: it cannot      *)
(* happen that all wait for each other.                                    *)
(***************************************************************************)
Aligning(c) == ~c.exhausted /\ ~c.idle

Alignment(chs, e) ==
    /\ \A i \in Channels : /\ chs[i].barriers_seen =< e + 1
                           /\ chs[i].idle => chs[i].barriers_seen =< e
    /\ \A i \in Channels : Aligning(chs[i]) =>
          \E j \in Channels : Aligning(chs[j]) /\ chs[j].barriers_seen =< e

\* The records delivered, by channel and place.
Sent(chs) == {p \in Channels \X Nat :
                 /\ p[2] >= 1 /\ p[2] =< chs[p[1]].cursor
                 /\ script[p[1]][p[2]].type = "record"}

Delivery ==
    /\ epoch_closed \in Nat /\ Alignment(ch, epoch_closed)
    /\ IsFiniteSet(Sent(ch)) /\ merged_offset = Cardinality(Sent(ch))
    /\ ended \in BOOLEAN /\ (ended => \A i \in Channels : ch[i].exhausted)

IInv == ConfigOK /\ ChannelsOK /\ Delivery

\* When an epoch closes every aligning channel was at its barrier.
LEMMA CloseFacts ==
    ASSUME epoch_closed \in Nat, NEW chs, NEW e, e = MaybeCloseEpoch(chs),
           \A i \in Channels : /\ chs[i].barriers_seen \in Nat
                               /\ chs[i].barriers_seen =< epoch_closed + 1
                               /\ chs[i].idle => chs[i].barriers_seen =< epoch_closed
    PROVE  /\ e \in Nat /\ Alignment(chs, e) /\ e \in {epoch_closed, epoch_closed + 1}
           /\ e = epoch_closed + 1 =>
                 \A i \in Channels : chs[i].idle \/ chs[i].exhausted \/ chs[i].barriers_seen = e
<1>1. PICK A : A = {i \in Channels : ~chs[i].exhausted /\ ~chs[i].idle}
  OBVIOUS
<1>2. CASE A # {} /\ \A i \in A : chs[i].barriers_seen > epoch_closed
  <2>1. e = epoch_closed + 1 /\ e \in Nat
    BY <1>1, <1>2 DEF MaybeCloseEpoch
  <2>2. \A i \in Channels : chs[i].barriers_seen =< e /\ chs[i].barriers_seen =< e + 1
    BY <2>1
  <2>3. \A i \in Channels : chs[i].idle \/ chs[i].exhausted \/ chs[i].barriers_seen = e
    <3> SUFFICES ASSUME NEW i \in Channels, ~chs[i].idle, ~chs[i].exhausted
                 PROVE  chs[i].barriers_seen = e
      OBVIOUS
    <3>1. chs[i].barriers_seen > epoch_closed
      BY <1>1, <1>2
    <3> QED BY <2>1, <2>2, <3>1
  <2>4. Alignment(chs, e)
    BY <2>2 DEF Alignment
  <2> QED BY <2>1, <2>3, <2>4
<1>3. CASE ~(A # {} /\ \A i \in A : chs[i].barriers_seen > epoch_closed)
  <2>1. e = epoch_closed /\ e # epoch_closed + 1
    BY <1>1, <1>3 DEF MaybeCloseEpoch
  <2>2. \A i \in Channels : Aligning(chs[i]) =>
           \E j \in Channels : Aligning(chs[j]) /\ chs[j].barriers_seen =< e
    <3> SUFFICES ASSUME NEW i \in Channels, Aligning(chs[i])
                 PROVE  \E j \in Channels : Aligning(chs[j]) /\ chs[j].barriers_seen =< e
      OBVIOUS
    <3>1. A # {}
      BY <1>1 DEF Aligning
    <3>2. PICK j \in A : ~(chs[j].barriers_seen > epoch_closed)
      BY <1>3, <3>1
    <3>3. j \in Channels /\ Aligning(chs[j])
      BY <1>1, <3>2 DEF Aligning
    <3> QED BY <2>1, <3>2, <3>3
  <2> QED BY <2>1, <2>2 DEF Alignment
<1> QED BY <1>2, <1>3

LEMMA BecomesFacts ==
    ASSUME ConfigOK, ChannelsOK, NEW i \in Channels, NEW v, Becomes(i, v), script' = script
    PROVE  /\ ch'[i] = v /\ \A j \in Channels : j # i => ch'[j] = ch[j]
           /\ ChannelsOK'
           /\ ch[i].exhausted = FALSE /\ ch[i].barriers_seen \in Nat
           /\ (epoch_closed \in Nat => ch[i].barriers_seen =< epoch_closed)
<1>1. ch' = [ch EXCEPT ![i] = v] /\ ChannelOK(i, v)
  BY DEF Becomes
<1>2. /\ ch'[i] = v /\ \A j \in Channels : j # i => ch'[j] = ch[j]
      /\ ch' = [j \in Channels |-> ch'[j]]
  BY <1>1, ChExcept
<1>3. \A j \in Channels : ChannelOK(j, ch'[j])
  BY <1>1, <1>2 DEF ChannelsOK
<1>4. \A j \in Channels : ChannelOK(j, ch[j])'
  BY <1>3 DEF ChannelOK, Shape
<1>5. ChannelOK(i, ch[i])
  BY DEF ChannelsOK
<1>6. ch[i].exhausted \in BOOLEAN /\ ch[i].barriers_seen \in Nat /\ ~ch[i].exhausted
      /\ ~(ch[i].barriers_seen > epoch_closed)
  BY <1>5 DEF ChannelOK, Becomes
<1>7. ch[i].exhausted = FALSE
  BY <1>6, Zenon
<1> QED BY <1>2, <1>4, <1>6, <1>7 DEF ChannelsOK

\* The alignment after a step, and what the closing of an epoch means.
LEMMA AlignmentStep ==
    ASSUME ConfigOK, ChannelsOK, script' = script, epoch_closed \in Nat, Alignment(ch, epoch_closed),
           NEW i \in Channels, NEW v, Becomes(i, v), Steps(i, v)
    PROVE  /\ epoch_closed' \in Nat /\ Alignment(ch, epoch_closed)'
           /\ epoch_closed' = epoch_closed + 1 =>
                 \A j \in Channels : ch'[j].idle \/ ch'[j].exhausted
                                     \/ ch'[j].barriers_seen = epoch_closed'
<1>1. PICK chs, e : chs = ch' /\ e = epoch_closed'
  OBVIOUS
<1>2. /\ chs[i] = v /\ \A j \in Channels : j # i => chs[j] = ch[j]
      /\ ch[i].barriers_seen \in Nat /\ ch[i].barriers_seen =< epoch_closed
      /\ ~ch[i].exhausted
  BY <1>1, BecomesFacts
<1>3. \A j \in Channels : /\ ch[j].barriers_seen \in Nat /\ ch[j].barriers_seen =< epoch_closed + 1
                          /\ ch[j].idle => ch[j].barriers_seen =< epoch_closed
  BY DEF Alignment, ChannelsOK, ChannelOK
<1>4. ASSUME e = MaybeCloseEpoch(chs), v.barriers_seen \in Nat,
             v.barriers_seen =< epoch_closed + 1, v.idle => v.barriers_seen =< epoch_closed
      PROVE  /\ e \in Nat /\ Alignment(chs, e)
             /\ e = epoch_closed + 1 =>
                   \A j \in Channels : chs[j].idle \/ chs[j].exhausted \/ chs[j].barriers_seen = e
  <2>1. \A j \in Channels : /\ chs[j].barriers_seen \in Nat
                            /\ chs[j].barriers_seen =< epoch_closed + 1
                            /\ chs[j].idle => chs[j].barriers_seen =< epoch_closed
    BY <1>2, <1>3, <1>4
  <2> QED BY <1>4, <2>1, CloseFacts
<1>5. CASE Leaves(i, v)
  <2>1. e = MaybeCloseEpoch(chs) /\ v.barriers_seen = ch[i].barriers_seen
    BY <1>1, <1>5 DEF Leaves
  <2>2. v.barriers_seen =< epoch_closed + 1
    BY <1>3, <2>1
  <2> QED BY <1>1, <1>2, <1>4, <2>1, <2>2
<1>6. CASE Passes(i, v)
  <2>1. /\ e = epoch_closed /\ v.barriers_seen = ch[i].barriers_seen
        /\ v.exhausted = ch[i].exhausted /\ v.idle = ch[i].idle
    BY <1>1, <1>6 DEF Passes
  <2>2. \A j \in Channels : /\ chs[j].barriers_seen = ch[j].barriers_seen
                            /\ chs[j].idle = ch[j].idle
                            /\ Aligning(chs[j]) <=> Aligning(ch[j])
    BY <1>2, <2>1 DEF Aligning
  <2>3. Alignment(chs, e)
    BY <2>1, <2>2 DEF Alignment
  <2> QED BY <1>1, <2>1, <2>3
<1>7. CASE DeliversRecord(i, v) \/ DeliversWatermark(i, v)
  <2>1. /\ e = epoch_closed /\ v.barriers_seen = ch[i].barriers_seen
        /\ ~v.exhausted /\ ~v.idle
    BY <1>1, <1>7 DEF DeliversRecord, DeliversWatermark, Delivers
  <2>2. Aligning(chs[i]) /\ chs[i].barriers_seen =< e
    BY <1>2, <2>1 DEF Aligning
  <2>3. \A j \in Channels : /\ chs[j].barriers_seen =< e + 1
                            /\ chs[j].idle => chs[j].barriers_seen =< e
    BY <1>2, <1>3, <2>1
  <2>4. Alignment(chs, e)
    BY <2>2, <2>3 DEF Alignment
  <2> QED BY <1>1, <2>1, <2>4
<1>8. CASE DeliversBarrier(i, v)
  <2>1. /\ e = MaybeCloseEpoch(chs) /\ v.barriers_seen = ch[i].barriers_seen + 1 /\ ~v.idle
    BY <1>1, <1>8 DEF DeliversBarrier, Delivers
  <2>2. v.barriers_seen \in Nat /\ v.barriers_seen =< epoch_closed + 1
    BY <1>2, <2>1
  <2> QED BY <1>1, <1>4, <2>1, <2>2
<1> QED BY <1>5, <1>6, <1>7, <1>8 DEF Steps

\* One record more when a record is delivered, else none.
LEMMA SentStep ==
    ASSUME ConfigOK, ChannelsOK, script' = script, IsFiniteSet(Sent(ch)),
           merged_offset = Cardinality(Sent(ch)),
           NEW i \in Channels, NEW v, Becomes(i, v), Steps(i, v)
    PROVE  IsFiniteSet(Sent(ch))' /\ (merged_offset = Cardinality(Sent(ch)))'
<1>1. PICK chs, S, T : chs = ch' /\ S = Sent(ch) /\ T = Sent(chs)
  OBVIOUS
<1>2. /\ chs[i] = v /\ \A j \in Channels : j # i => chs[j] = ch[j]
  BY <1>1, BecomesFacts
<1>3. Sent(ch)' = T
  BY <1>1 DEF Sent
<1>4. ch[i].cursor \in Nat
  BY DEF ChannelsOK, ChannelOK
<1>5. CASE v.cursor = ch[i].cursor
  <2>1. \A j \in Channels : chs[j].cursor = ch[j].cursor
    BY <1>2, <1>5
  <2>2. T = S
    BY <1>1, <2>1 DEF Sent
  <2>3. merged_offset' = merged_offset
    BY <1>4, <1>5 DEF Steps, Leaves, Passes, DeliversRecord, DeliversWatermark, DeliversBarrier,
                      Delivers
  <2> QED BY <1>1, <1>3, <2>2, <2>3
<1>6. CASE v.cursor = ch[i].cursor + 1
  <2>1. PICK n : n = ch[i].cursor + 1
    OBVIOUS
  <2>2. n \in Nat /\ n >= 1 /\ \A k \in Nat : k =< n <=> (k =< ch[i].cursor \/ k = n)
    BY <1>4, <2>1
  <2>3. T = {p \in Channels \X Nat : /\ p[2] >= 1 /\ (p[2] =< ch[p[1]].cursor \/ p = <<i, n>>)
                                     /\ script[p[1]][p[2]].type = "record"}
    <3>1. ASSUME NEW p \in Channels \X Nat
          PROVE  p[2] =< chs[p[1]].cursor <=> (p[2] =< ch[p[1]].cursor \/ p = <<i, n>>)
      <4>1. p = <<p[1], p[2]>> /\ p[1] \in Channels /\ p[2] \in Nat
        OBVIOUS
      <4>2. CASE p[1] = i
        BY <1>2, <1>6, <2>1, <2>2, <4>1, <4>2
      <4>3. CASE p[1] # i
        BY <1>2, <4>1, <4>3
      <4> QED BY <4>2, <4>3
    <3> QED BY <1>1, <3>1 DEF Sent
  <2>4. CASE script[i][n].type = "record"
    <3>1. T = S \cup {<<i, n>>}
      BY <1>1, <2>2, <2>3, <2>4 DEF Sent
    <3>2. <<i, n>> \notin S
      BY <1>1, <1>4, <2>1 DEF Sent
    <3>3. IsFiniteSet(T) /\ Cardinality(T) = Cardinality(S) + 1
      BY <1>1, <3>1, <3>2, FS_AddElement
    <3>4. merged_offset' = merged_offset + 1
      <4>1. script[i][v.cursor].type = "record" /\ v.cursor # ch[i].cursor
        BY <1>4, <1>6, <2>1, <2>4
      <4> QED BY <4>1 DEF Steps, Leaves, Passes, DeliversRecord, DeliversWatermark, DeliversBarrier
    <3> QED BY <1>1, <1>3, <3>3, <3>4
  <2>5. CASE script[i][n].type # "record"
    <3>1. T = S
      BY <1>1, <2>3, <2>5 DEF Sent
    <3>2. merged_offset' = merged_offset
      <4>1. script[i][v.cursor].type # "record"
        BY <1>6, <2>1, <2>5
      <4> QED BY <4>1 DEF Steps, Leaves, Passes, DeliversRecord, DeliversWatermark, DeliversBarrier
    <3> QED BY <1>1, <1>3, <3>1, <3>2
  <2> QED BY <2>4, <2>5
<1>7. v.cursor = ch[i].cursor \/ v.cursor = ch[i].cursor + 1
  BY DEF Steps, Leaves, Passes, DeliversRecord, DeliversWatermark, DeliversBarrier, Delivers
<1> QED BY <1>5, <1>6, <1>7

-----------------------------------------------------------------------------
LEMMA FreshFacts ==
    ASSUME NEW c, c = Fresh
    PROVE  /\ Shape(c) /\ c.cursor = 0 /\ c.exhausted = FALSE /\ c.next_span = 1
           /\ c.gap_remaining = 0 /\ c.data_pulled = 0 /\ c.consecutive_empty = 0
           /\ c.idle = FALSE /\ c.barriers_seen = 0
  BY DEF Fresh, Shape

\* The state all channels start from, and that ResetProgress returns to.
LEMMA StartFacts ==
    ASSUME ConfigOK, NEW chs, chs = [i \in Channels |-> Fresh]
    PROVE  /\ \A i \in Channels : ChannelOK(i, chs[i]) /\ chs[i] = Fresh
           /\ Alignment(chs, 0) /\ Sent(chs) = {} /\ chs = [i \in Channels |-> chs[i]]
<1>1. \A i \in Channels : chs[i] = Fresh
  OBVIOUS
<1>2. ASSUME NEW i \in Channels PROVE ChannelOK(i, chs[i])
  <2>1. PICK c : c = chs[i] /\ c = Fresh
    BY <1>1
  <2>2. Len(script[i]) \in Nat
    BY ScriptFacts
  <2>3. /\ Shape(c) /\ c.cursor = 0 /\ c.exhausted = FALSE /\ c.next_span = 1
        /\ c.gap_remaining = 0 /\ c.data_pulled = 0 /\ c.consecutive_empty = 0
        /\ c.idle = FALSE /\ c.barriers_seen = 0
    BY <2>1, FreshFacts
  <2>4. c.exhausted \in BOOLEAN /\ c.idle \in BOOLEAN /\ ~c.exhausted
    BY <2>3, Zenon
  <2>5. /\ c.cursor \in Nat /\ c.cursor =< Len(script[i]) /\ c.next_span \in Nat
        /\ c.next_span >= 1 /\ c.gap_remaining \in Nat /\ c.data_pulled \in Nat
        /\ c.consecutive_empty \in Nat /\ c.barriers_seen \in Nat
    BY <2>2, <2>3
  <2> QED BY <2>1, <2>3, <2>4, <2>5, Zenon DEF ChannelOK
<1>3. \A i \in Channels : chs[i].barriers_seen = 0 /\ ~chs[i].idle /\ chs[i].cursor = 0
  BY <1>1, FreshFacts
<1>4. Alignment(chs, 0)
  BY <1>3 DEF Alignment
<1>5. Sent(chs) = {}
  <2> SUFFICES ASSUME NEW p \in Channels \X Nat, p[2] >= 1, p[2] =< chs[p[1]].cursor PROVE FALSE
    BY DEF Sent
  <2>1. p[1] \in Channels /\ p[2] \in Nat
    OBVIOUS
  <2> QED BY <1>3, <2>1
<1> QED BY <1>1, <1>2, <1>4, <1>5

LEMMA InitInv == Init => IInv
<1> SUFFICES ASSUME Init PROVE IInv
  OBVIOUS
<1>1. ConfigOK
  BY MergeAssumption DEF Init, ConfigOK
<1>2. ch = [i \in Channels |-> Fresh] /\ epoch_closed = 0 /\ merged_offset = 0 /\ ended = FALSE
  BY DEF Init
<1>3. ChannelsOK
  BY <1>1, <1>2, StartFacts DEF ChannelsOK
<1>4. Alignment(ch, 0) /\ Sent(ch) = {}
  BY <1>1, <1>2, StartFacts
<1> QED BY <1>1, <1>2, <1>3, <1>4, FS_EmptySet DEF IInv, Delivery

LEMMA MergeInv == IInv /\ ProduceOneMergedStep => IInv'
<1> SUFFICES ASSUME IInv, ProduceOneMergedStep PROVE IInv'
  OBVIOUS
<1>1. PICK i \in Channels : \E v : Becomes(i, v) /\ Steps(i, v)
  BY MergeMoves DEF IInv
<1>2. PICK v : Becomes(i, v) /\ Steps(i, v)
  BY <1>1
<1>3. live' = live /\ script' = script /\ spans' = spans /\ ended' = ended /\ ~ended
  BY MergeMoves DEF IInv
<1>4. ConfigOK'
  BY <1>3 DEF IInv, ConfigOK
<1>5. ChannelsOK'
  BY <1>2, <1>3, BecomesFacts DEF IInv
<1>6. epoch_closed' \in Nat /\ Alignment(ch, epoch_closed)'
  BY <1>2, <1>3, AlignmentStep DEF IInv, Delivery
<1>7. IsFiniteSet(Sent(ch))' /\ (merged_offset = Cardinality(Sent(ch)))'
  BY <1>2, <1>3, SentStep DEF IInv, Delivery
<1>8. ended' \in BOOLEAN /\ ~ended'
  BY <1>3 DEF IInv, Delivery
<1> QED BY <1>4, <1>5, <1>6, <1>7, <1>8 DEF IInv, Delivery

\* Nothing left to service: since not all can be blocked, all are exhausted.
LEMMA NoneServed ==
    ASSUME IInv, Serviceable = {}, NEW i \in Channels
    PROVE  ch[i].exhausted
<1> SUFFICES ASSUME ~ch[i].exhausted PROVE FALSE
  OBVIOUS
<1>1. \A j \in Channels : /\ ch[j].barriers_seen \in Nat
                          /\ ~ch[j].exhausted => ch[j].barriers_seen > epoch_closed
  BY DEF Serviceable, IsChannelBlocked, IInv, ChannelsOK, ChannelOK
<1>2. epoch_closed \in Nat /\ Alignment(ch, epoch_closed)
  BY DEF IInv, Delivery
<1>3. ~ch[i].idle
  BY <1>1, <1>2 DEF Alignment
<1>4. PICK j \in Channels : Aligning(ch[j]) /\ ch[j].barriers_seen =< epoch_closed
  BY <1>2, <1>3 DEF Alignment, Aligning
<1> QED BY <1>1, <1>2, <1>4 DEF Aligning

LEMMA NulloptInv == IInv /\ ReturnNullopt => IInv'
<1> SUFFICES ASSUME IInv, ReturnNullopt PROVE IInv'
  OBVIOUS
<1>1. /\ Serviceable = {} /\ ended' = TRUE /\ live' = live /\ script' = script /\ spans' = spans
      /\ ch' = ch /\ merged_offset' = merged_offset /\ epoch_closed' = epoch_closed
  BY DEF ReturnNullopt, config, merge
<1>2. \A i \in Channels : ch[i].exhausted
  BY <1>1, NoneServed
<1>3. ConfigOK' /\ ChannelsOK'
  BY <1>1 DEF IInv, ConfigOK, ChannelsOK, ChannelOK
<1>4. Delivery'
  BY <1>1, <1>2 DEF IInv, Delivery, Alignment, Sent
<1> QED BY <1>3, <1>4 DEF IInv

LEMMA SeekInv == IInv /\ Seek => IInv'
<1> SUFFICES ASSUME IInv, Seek PROVE IInv'
  OBVIOUS
<1>1. /\ ended' = FALSE /\ live' = live /\ script' = script /\ spans' = spans
      /\ ch' = [i \in Channels |-> Fresh] /\ merged_offset' = 0 /\ epoch_closed' = 0
  BY DEF Seek, ResetProgress, config
<1>2. ConfigOK /\ ConfigOK'
  BY <1>1 DEF IInv, ConfigOK
<1>3. PICK chs : chs = ch' /\ chs = [i \in Channels |-> Fresh]
  BY <1>1
<1>4. /\ \A i \in Channels : ChannelOK(i, chs[i])
      /\ Alignment(chs, 0) /\ Sent(chs) = {} /\ chs = [i \in Channels |-> chs[i]]
  BY <1>2, <1>3, StartFacts
<1>5. ChannelsOK'
  <2>1. \A i \in Channels : ChannelOK(i, ch[i])'
    BY <1>1, <1>3, <1>4 DEF ChannelOK
  <2> QED BY <1>3, <1>4, <2>1 DEF ChannelsOK
<1>6. Sent(ch)' = {}
  BY <1>1, <1>3, <1>4 DEF Sent
<1>7. Delivery'
  BY <1>1, <1>3, <1>4, <1>6, FS_EmptySet DEF Delivery
<1> QED BY <1>2, <1>5, <1>7 DEF IInv

LEMMA NextInv == IInv /\ [Next]_vars => IInv'
<1>1. IInv /\ UNCHANGED vars => IInv'
  BY DEF IInv, ConfigOK, ChannelsOK, ChannelOK, Delivery, Alignment, Sent, vars, config, merge
<1> QED BY <1>1, MergeInv, NulloptInv, SeekInv DEF Next

(***************************************************************************)
(* Every reachable state of the merge satisfies the inductive invariant.   *)
(***************************************************************************)
THEOREM Invariance == Spec => []IInv
  BY InitInv, NextInv, PTL DEF Spec

(***************************************************************************)
(* Alignment never deadlocks (EndsWhole): when no channel can be serviced, *)
(* and so when Next() returns nullopt, every channel is exhausted and the  *)
(* merged stream holds every record of every script, for every number of   *)
(* channels.                                                               *)
(***************************************************************************)
THEOREM EndsTheorem == Spec => []EndsWhole
<1>1. IInv => EndsWhole
  <2> SUFFICES ASSUME IInv, ended \/ Serviceable = {}
               PROVE  /\ \A i \in Channels : ch[i].exhausted
                      /\ merged_offset = Cardinality(
                            RecordsIn([i \in Channels |-> Len(script[i])]))
    BY DEF EndsWhole
  <2>1. \A i \in Channels : ch[i].exhausted
    BY NoneServed DEF IInv, Delivery
  <2>2. \A i \in Channels : ch[i].cursor = Len(script[i]) /\ ch[i].cursor \in Nat
    BY <2>1 DEF IInv, ChannelsOK, ChannelOK
  <2>3. PICK u : u = [i \in Channels |-> Len(script[i])]
    OBVIOUS
  <2>4. \A i \in Channels : u[i] = ch[i].cursor
    BY <2>2, <2>3
  <2>5. ASSUME NEW p PROVE p \in RecordsIn(u) <=> p \in Sent(ch)
    <3>1. p \in RecordsIn(u) <=>
             \E i \in Channels : p \in {i} \X {n \in 1..u[i] : script[i][n].type = "record"}
      BY DEF RecordsIn
    <3>2. ASSUME NEW i \in Channels
          PROVE  p \in {i} \X {n \in 1..u[i] : script[i][n].type = "record"} <=>
                    p \in Sent(ch) /\ p[1] = i
      <4>1. u[i] = ch[i].cursor /\ u[i] \in Nat
        BY <2>2, <2>4
      <4> QED BY <4>1 DEF Sent
    <3>3. p \in Sent(ch) => p[1] \in Channels
      BY DEF Sent
    <3> QED BY <3>1, <3>2, <3>3
  <2>6. RecordsIn(u) = Sent(ch)
    BY <2>5
  <2>7. merged_offset = Cardinality(Sent(ch))
    BY DEF IInv, Delivery
  <2> QED BY <2>1, <2>3, <2>6, <2>7
<1> QED BY <1>1, Invariance, PTL

(***************************************************************************)
(* A merged barrier is an aligned cut (AlignedCut): when an epoch closes,  *)
(* every channel that is neither idle nor exhausted stands exactly at its  *)
(* barrier of that epoch.                                                  *)
(***************************************************************************)
THEOREM AlignedTheorem == Spec => AlignedCut
<1>1. IInv /\ [Next]_vars =>
         [epoch_closed' = epoch_closed + 1 =>
            \A i \in Channels : ch'[i].idle \/ ch'[i].exhausted
                                \/ ch'[i].barriers_seen = epoch_closed']_vars
  <2> SUFFICES ASSUME IInv, [Next]_vars, epoch_closed' = epoch_closed + 1
               PROVE  \A i \in Channels : ch'[i].idle \/ ch'[i].exhausted
                                          \/ ch'[i].barriers_seen = epoch_closed'
    OBVIOUS
  <2>1. epoch_closed \in Nat
    BY DEF IInv, Delivery
  <2>2. CASE ProduceOneMergedStep
    <3>1. PICK i \in Channels : \E v : Becomes(i, v) /\ Steps(i, v)
      BY <2>2, MergeMoves DEF IInv
    <3>2. PICK v : Becomes(i, v) /\ Steps(i, v)
      BY <3>1
    <3>3. script' = script
      BY <2>2, MergeMoves DEF IInv
    <3> QED BY <3>2, <3>3, AlignmentStep DEF IInv, Delivery
  <2>3. CASE ~ProduceOneMergedStep
    <3>1. epoch_closed' = epoch_closed \/ epoch_closed' = 0
      BY <2>3 DEF Next, ReturnNullopt, Seek, ResetProgress, vars, merge
    <3> QED BY <2>1, <3>1
  <2> QED BY <2>2, <2>3
<1> QED BY <1>1, Invariance, PTL DEF Spec, AlignedCut

-----------------------------------------------------------------------------
(***************************************************************************)
(* Least and greatest elements.                                            *)
(***************************************************************************)
LEMMA NatLeast == ASSUME NEW T, T \subseteq Nat, T # {} PROVE \E x \in T : \A y \in T : x =< y
<1> DEFINE R == OpToRel(<, Nat)
<1>1. IsWellFoundedOn(R, Nat)
  BY NatLessThanWellFounded, Zenon
<1>2. PICK x \in T : \A y \in T : ~ (<<y, x>> \in R)
  <2> HIDE DEF R
  <2> QED BY <1>1, WFMin
<1>3. ASSUME NEW y \in T PROVE x =< y
  <2>1. <<y, x>> \notin R /\ x \in Nat /\ y \in Nat
    BY <1>2
  <2>2. ~(y < x)
    BY <2>1, Zenon DEF OpToRel
  <2> HIDE DEF R
  <2> QED BY <2>1, <2>2
<1> QED BY <1>3

\* Min of a set of integers with a lower bound is its least element.
LEMMA MinLeast ==
    ASSUME NEW S, S \subseteq Int, S # {}, NEW b \in Int, \A x \in S : x >= b
    PROVE  Min(S) \in S /\ \A y \in S : Min(S) =< y
<1> DEFINE T == {x - b : x \in S}
<1>0. \A x \in S : x - b \in Nat
  OBVIOUS
<1>1. T \subseteq Nat /\ T # {}
  BY <1>0, Zenon
<1>2. PICK t \in T : \A u \in T : t =< u
  <2> HIDE DEF T
  <2> QED BY <1>1, NatLeast
<1>3. PICK x \in S : t = x - b
  BY <1>2
<1>4. ASSUME NEW y \in S PROVE x =< y
  <2>1. y - b \in T
    OBVIOUS
  <2>2. t =< y - b
    BY <1>2, <2>1
  <2> QED BY <1>3, <2>2
<1> QED BY <1>4, Zenon DEF Min

\* Max of a set that has a greatest element.
LEMMA MaxIs ==
    ASSUME NEW S, S \subseteq Int, NEW x \in S, \A y \in S : y =< x
    PROVE  Max(S) = x
<1>1. \A y \in S : x >= y
  OBVIOUS
<1>2. Max(S) \in S /\ \A y \in S : Max(S) >= y
  BY <1>1, Zenon DEF Max
<1>3. Max(S) \in Int /\ x \in Int /\ Max(S) >= x /\ Max(S) =< x
  BY <1>2
<1> QED BY <1>3

LEMMA MaxOfTwo ==
    ASSUME NEW a \in Int, NEW b \in Int
    PROVE  Max({a, b}) = IF a >= b THEN a ELSE b
<1>1. PICK m \in Int : m = (IF a >= b THEN a ELSE b)
  OBVIOUS
<1>2. m \in {a, b} /\ \A y \in {a, b} : y =< m
  BY <1>1
<1>3. {a, b} \subseteq Int
  OBVIOUS
<1> QED BY <1>1, <1>2, <1>3, MaxIs

-----------------------------------------------------------------------------
(***************************************************************************)
(* The combiner.  m is the merged watermark after a step that found was,   *)
(* with the channels' watermarks w and the active channels a.              *)
(***************************************************************************)
Bounded(m, was, w, a) ==
    /\ m \in Int /\ m >= was
    /\ \A i \in Channels : a[i] => m =< was \/ m =< w[i]

LEMMA RecomputeFacts ==
    ASSUME NEW w \in [Channels -> Int], \A i \in Channels : w[i] >= NoWatermark, NEW a,
           NEW was \in Int, NEW m, m = Recompute(w, a, was)
    PROVE  Bounded(m, was, w, a)
<1>1. PICK held : held = {w[i] : i \in {j \in Channels : a[j]}}
  OBVIOUS
<1>2. CASE held = {}
  <2>1. m = was
    BY <1>1, <1>2 DEF Recompute
  <2> QED BY <2>1 DEF Bounded
<1>3. CASE held # {}
  <2>1. held \subseteq Int /\ \A x \in held : x >= NoWatermark
    BY <1>1
  <2>2. NoWatermark \in Int
    BY DEF NoWatermark
  <2>3. PICK l : l = Min(held) /\ l \in held /\ \A y \in held : l =< y
    BY <1>3, <2>1, <2>2, MinLeast
  <2>4. m = Max({was, l})
    BY <1>1, <1>3, <2>3 DEF Recompute
  <2>5. l \in Int /\ m = IF was >= l THEN was ELSE l
    BY <2>1, <2>3, <2>4, MaxOfTwo
  <2>6. \A i \in Channels : a[i] => w[i] \in held /\ w[i] \in Int
    BY <1>1
  <2>7. \A i \in Channels : a[i] => l =< w[i] /\ w[i] \in Int
    BY <2>3, <2>6
  <2>8. m \in Int /\ m >= was /\ (m =< was \/ m = l)
    BY <2>5
  <2>9. \A i \in Channels : a[i] => m =< was \/ m =< w[i]
    BY <2>5, <2>7, <2>8
  <2> QED BY <2>8, <2>9 DEF Bounded
<1> QED BY <1>2, <1>3

\* What a channel declared: its watermark is the greatest one it delivered.
Declared(i) ==
    /\ per_source[i] = NoWatermark \/ per_source[i] \in Watermark(i)
    /\ \A t \in Watermark(i) : t \in Int /\ t =< per_source[i]

WatermarksOK ==
    /\ per_source \in [Channels -> Int] /\ emitted \in Int /\ emitted >= NoWatermark
    /\ \A i \in Channels : per_source[i] >= NoWatermark /\ Declared(i)

\* A channel is in the minimum exactly while it is neither idle nor
\* exhausted, and the merged watermark is not ahead of one that always was.
CombinerOK ==
    /\ active = [i \in Channels |-> active[i]]
    /\ \A i \in Channels : /\ active[i] <=> ~(ch[i].idle \/ ch[i].exhausted)
                           /\ ch[i].idle => i \in idled
                           /\ i \in idled \/ ch[i].exhausted \/ emitted =< per_source[i]

LEMMA WatermarkStep ==
    ASSUME IInv, WatermarksOK, CombinerOK, script' = script,
           NEW i \in Channels, NEW v, Becomes(i, v), Steps(i, v)
    PROVE  /\ per_source' \in [Channels -> Int]
           /\ \A j \in Channels : per_source'[j] >= per_source[j]
           /\ Bounded(emitted', emitted, per_source', active')
<1>0. per_source \in [Channels -> Int] /\ emitted \in Int
      /\ \A j \in Channels : per_source[j] >= NoWatermark
  BY DEF WatermarksOK
<1>1. \A j \in Channels : per_source[j] >= per_source[j]
  BY <1>0
<1>2. PICK w, a, m : w = per_source /\ a = active' /\ m = emitted'
  OBVIOUS
<1>3. CASE Leaves(i, v)
  <2>1. per_source' = w /\ m = Recompute(w, a, emitted)
    BY <1>2, <1>3 DEF Leaves
  <2>2. Bounded(m, emitted, w, a)
    BY <1>0, <1>2, <2>1, RecomputeFacts
  <2> QED BY <1>0, <1>1, <1>2, <2>1, <2>2
<1>4. CASE Passes(i, v)
  <2>1. per_source' = w /\ m = emitted
    BY <1>2, <1>4 DEF Passes
  <2>2. Bounded(m, emitted, w, a)
    BY <1>0, <2>1 DEF Bounded
  <2> QED BY <1>0, <1>1, <1>2, <2>1, <2>2
<1>5. ASSUME Delivers(i, v), NEW r, r = ResumedEmitted(i) PROVE Bounded(r, emitted, w, a)
  <2>1. a = Resumed(i)
    BY <1>2, <1>5 DEF Delivers, Resumed
  <2>2. CASE ch[i].idle
    <3>1. r = Recompute(w, a, emitted)
      BY <1>2, <1>5, <2>1, <2>2 DEF ResumedEmitted
    <3> QED BY <1>0, <1>2, <3>1, RecomputeFacts
  <2>3. CASE ~ch[i].idle
    <3>1. r = emitted
      BY <1>5, <2>3 DEF ResumedEmitted
    <3> QED BY <1>0, <3>1 DEF Bounded
  <2> QED BY <2>2, <2>3
<1>6. CASE DeliversRecord(i, v) \/ DeliversBarrier(i, v)
  <2>1. Delivers(i, v) /\ per_source' = w /\ m = ResumedEmitted(i)
    BY <1>2, <1>6 DEF DeliversRecord, DeliversBarrier
  <2>2. Bounded(m, emitted, w, a)
    BY <1>5, <2>1
  <2> QED BY <1>0, <1>1, <1>2, <2>1, <2>2
<1>7. CASE DeliversWatermark(i, v)
  <2>1. PICK w2, r : w2 = per_source' /\ r = ResumedEmitted(i)
    OBVIOUS
  <2>2. /\ Delivers(i, v) /\ m = Recompute(w2, a, r) /\ script[i][v.cursor].type = "watermark"
        /\ w2 = [per_source EXCEPT ![i] = Max({@, script[i][v.cursor].time})]
    BY <1>2, <1>7, <2>1 DEF DeliversWatermark
  <2>3. PICK t \in Nat : t = script[i][v.cursor].time
    <3>1. v.cursor \in 1..Len(script[i])
      <4>1. ChannelOK(i, v) /\ ch[i].cursor \in Nat /\ v.cursor = ch[i].cursor + 1
        BY <2>2 DEF Becomes, Delivers, IInv, ChannelsOK, ChannelOK
      <4> QED BY <4>1, ScriptFacts DEF ChannelOK, IInv
    <3> QED BY <2>2, <3>1, ScriptFacts DEF IInv
  <2>4. PICK x \in Int : x = Max({per_source[i], t}) /\ x >= per_source[i]
    <3>1. per_source[i] \in Int /\ t \in Int
      BY <1>0
    <3> QED BY <3>1, MaxOfTwo
  <2>5. w2 = [per_source EXCEPT ![i] = x]
    BY <2>2, <2>3, <2>4
  <2>6. /\ w2 \in [Channels -> Int] /\ w2[i] = x
        /\ \A j \in Channels : j # i => w2[j] = per_source[j]
    BY <1>0, <2>5
  <2>7. \A j \in Channels : w2[j] >= w[j] /\ w2[j] \in Int /\ w[j] \in Int
    BY <1>0, <1>2, <2>4, <2>6
  <2>8. \A j \in Channels : w2[j] >= NoWatermark
    BY <1>0, <1>2, <2>7 DEF NoWatermark
  <2>9. Bounded(r, emitted, w, a)
    BY <1>5, <2>1, <2>2
  <2>10. r \in Int /\ r >= emitted
    BY <2>9 DEF Bounded
  <2>11. Bounded(m, r, w2, a)
    BY <2>2, <2>6, <2>8, <2>10, RecomputeFacts
  <2>12. m \in Int /\ m >= emitted
    BY <1>0, <2>10, <2>11 DEF Bounded
  <2>13. ASSUME NEW j \in Channels, a[j] PROVE m =< emitted \/ m =< w2[j]
    <3>1. m =< r \/ m =< w2[j]
      BY <2>11, <2>13 DEF Bounded
    <3>2. r =< emitted \/ r =< w[j]
      BY <2>9, <2>13 DEF Bounded
    <3> QED BY <1>0, <2>7, <2>10, <2>12, <3>1, <3>2
  <2>14. Bounded(m, emitted, w2, a)
    BY <2>12, <2>13 DEF Bounded
  <2> QED BY <1>2, <2>1, <2>6, <2>7, <2>14
<1> QED BY <1>3, <1>4, <1>6, <1>7 DEF Steps

\* The watermarks among the first n items of channel i.
Times(i, n) == {script[i][k].time : k \in {k \in 1..n : script[i][k].type = "watermark"}}

LEMMA TimesStep ==
    ASSUME NEW i, NEW n \in Nat
    PROVE  /\ script[i][n + 1].type = "watermark" =>
                 Times(i, n + 1) = Times(i, n) \cup {script[i][n + 1].time}
           /\ script[i][n + 1].type # "watermark" => Times(i, n + 1) = Times(i, n)
<1>1. 1..(n + 1) = (1..n) \cup {n + 1}
  OBVIOUS
<1>2. PICK N, M : N = 1..n /\ M = 1..(n + 1) /\ M = N \cup {n + 1}
  BY <1>1
<1>3. PICK m : m = n + 1
  OBVIOUS
<1> QED BY <1>2, <1>3, Zenon DEF Times

LEMMA DeclaredStep ==
    ASSUME IInv, WatermarksOK, script' = script,
           NEW i \in Channels, NEW v, Becomes(i, v), Steps(i, v), NEW j \in Channels
    PROVE  Declared(j)'
<1>1. /\ ch'[i] = v /\ \A k \in Channels : k # i => ch'[k] = ch[k]
  BY BecomesFacts DEF IInv
<1>2. /\ Watermark(j) = Times(j, ch[j].cursor)
      /\ Watermark(j)' = Times(j, ch'[j].cursor)
  BY DEF Watermark, Times
<1>3. /\ per_source[j] = NoWatermark \/ per_source[j] \in Times(j, ch[j].cursor)
      /\ \A t \in Times(j, ch[j].cursor) : t \in Int /\ t =< per_source[j]
      /\ per_source[j] \in Int /\ per_source[j] >= NoWatermark
      /\ per_source \in [Channels -> Int]
  BY <1>2 DEF WatermarksOK, Declared
<1>4. CASE Times(j, ch'[j].cursor) = Times(j, ch[j].cursor) /\ per_source'[j] = per_source[j]
  BY <1>2, <1>3, <1>4 DEF Declared
<1>5. CASE j # i
  <2>1. per_source'[j] = per_source[j]
    BY <1>3, <1>5 DEF Steps, Leaves, Passes, DeliversRecord, DeliversWatermark, DeliversBarrier
  <2> QED BY <1>1, <1>4, <1>5, <2>1
<1>6. CASE j = i /\ (Leaves(i, v) \/ Passes(i, v))
  <2>1. per_source'[j] = per_source[j] /\ v.cursor = ch[i].cursor
    BY <1>6 DEF Leaves, Passes
  <2> QED BY <1>1, <1>4, <1>6, <2>1
<1>7. PICK n \in Nat : n = ch[i].cursor
  BY DEF IInv, ChannelsOK, ChannelOK
<1>8. CASE j = i /\ (DeliversRecord(i, v) \/ DeliversBarrier(i, v))
  <2>1. per_source'[j] = per_source[j] /\ v.cursor = n + 1 /\ script[i][v.cursor].type # "watermark"
    BY <1>7, <1>8 DEF DeliversRecord, DeliversBarrier, Delivers
  <2>2. Times(i, n + 1) = Times(i, n)
    BY <2>1, TimesStep
  <2> QED BY <1>1, <1>4, <1>7, <1>8, <2>1, <2>2
<1>9. CASE j = i /\ DeliversWatermark(i, v)
  <2>1. /\ v.cursor = n + 1 /\ script[i][n + 1].type = "watermark" /\ n < Len(script[i])
        /\ per_source' = [per_source EXCEPT ![i] = Max({@, script[i][n + 1].time})]
    BY <1>7, <1>9 DEF DeliversWatermark, Delivers
  <2>2. PICK t \in Nat : t = script[i][n + 1].time
    <3>1. n + 1 \in 1..Len(script[i])
      BY <2>1, ScriptFacts DEF IInv
    <3> QED BY <2>1, <3>1, ScriptFacts DEF IInv
  <2>3. Times(i, n + 1) = Times(i, n) \cup {t}
    BY <2>1, <2>2, TimesStep
  <2>4. PICK x, y : x = per_source[i] /\ y = per_source'[i]
    OBVIOUS
  <2>5. x \in Int /\ t \in Int /\ y = Max({x, t})
    BY <1>3, <1>9, <2>1, <2>2, <2>4
  <2>6. y = IF x >= t THEN x ELSE t
    BY <2>5, MaxOfTwo
  <2>7. \A u \in Times(i, n) : u \in Int /\ u =< x
    BY <1>3, <1>7, <1>9, <2>4
  <2>8. \A u \in Times(i, n + 1) : u \in Int /\ u =< y
    BY <2>3, <2>5, <2>6, <2>7
  <2>9. y = NoWatermark \/ y \in Times(i, n + 1)
    BY <1>3, <1>7, <1>9, <2>3, <2>4, <2>6
  <2> QED BY <1>1, <1>2, <1>9, <2>1, <2>4, <2>8, <2>9 DEF Declared
<1> QED BY <1>5, <1>6, <1>8, <1>9 DEF Steps

LEMMA CombinerStep ==
    ASSUME IInv, WatermarksOK, CombinerOK, script' = script,
           NEW i \in Channels, NEW v, Becomes(i, v), Steps(i, v)
    PROVE  /\ WatermarksOK' /\ CombinerOK'
           /\ \A j \in Channels : j \in idled' <=> j \in idled \/ ch'[j].idle
<1>1. /\ ch'[i] = v /\ \A k \in Channels : k # i => ch'[k] = ch[k]
      /\ ~ch[i].exhausted
  BY BecomesFacts DEF IInv
<1>2. /\ per_source' \in [Channels -> Int] /\ \A j \in Channels : per_source'[j] >= per_source[j]
      /\ Bounded(emitted', emitted, per_source', active')
  BY WatermarkStep
<1>3. WatermarksOK'
  <2>1. \A j \in Channels : Declared(j)'
    BY DeclaredStep
  <2>2. \A j \in Channels : /\ per_source[j] >= NoWatermark /\ per_source[j] \in Int
                            /\ per_source'[j] \in Int
    BY <1>2 DEF WatermarksOK
  <2>3. NoWatermark \in Int /\ emitted \in Int /\ emitted >= NoWatermark /\ NoWatermark' = NoWatermark
    BY DEF WatermarksOK, NoWatermark
  <2>4. \A j \in Channels : per_source'[j] >= NoWatermark
    BY <1>2, <2>2, <2>3
  <2>5. emitted' \in Int /\ emitted' >= NoWatermark
    BY <1>2, <2>3 DEF Bounded
  <2> QED BY <1>2, <2>1, <2>3, <2>4, <2>5 DEF WatermarksOK
<1>4. /\ active = [j \in Channels |-> active[j]]
      /\ \A j \in Channels : /\ active[j] <=> ~(ch[j].idle \/ ch[j].exhausted)
                             /\ ch[j].idle => j \in idled
                             /\ j \in idled \/ ch[j].exhausted \/ emitted =< per_source[j]
  BY DEF CombinerOK
<1>5. /\ active' = [j \in Channels |-> active'[j]]
      /\ \A j \in Channels : j # i => active'[j] = active[j]
      /\ active'[i] <=> ~(v.idle \/ v.exhausted)
  <2>1. CASE Leaves(i, v)
    BY <1>4, <2>1 DEF Leaves
  <2>2. CASE Passes(i, v)
    BY <1>4, <2>2 DEF Passes
  <2>3. CASE Delivers(i, v)
    BY <1>4, <2>3 DEF Delivers
  <2> QED BY <2>1, <2>2, <2>3 DEF Steps, DeliversRecord, DeliversWatermark, DeliversBarrier
<1>6. \A j \in Channels : active'[j] <=> ~(ch'[j].idle \/ ch'[j].exhausted)
  BY <1>1, <1>4, <1>5
<1>7. /\ idled \subseteq idled' /\ \A j \in Channels : j # i => (j \in idled' => j \in idled)
      /\ (v.idle => i \in idled') /\ (i \in idled' => i \in idled \/ v.idle)
  <2>1. CASE Leaves(i, v)
    BY <1>4, <2>1 DEF Leaves
  <2>2. CASE Passes(i, v)
    BY <1>4, <2>2 DEF Passes
  <2>3. CASE Delivers(i, v)
    BY <1>4, <2>3 DEF Delivers
  <2> QED BY <2>1, <2>2, <2>3 DEF Steps, DeliversRecord, DeliversWatermark, DeliversBarrier
<1>8. \A j \in Channels : /\ ch'[j].idle => j \in idled'
                          /\ j \in idled' <=> j \in idled \/ ch'[j].idle
  BY <1>1, <1>4, <1>7
<1>9. ASSUME NEW j \in Channels, j \notin idled', ~ch'[j].exhausted PROVE emitted' =< per_source'[j]
  <2>1. active'[j] /\ j \notin idled
    BY <1>6, <1>7, <1>8, <1>9
  <2>2. ~ch[j].exhausted
    BY <1>1, <1>9
  <2>3. emitted =< per_source[j]
    BY <1>4, <2>1, <2>2
  <2>4. /\ emitted \in Int /\ emitted' \in Int /\ per_source[j] \in Int /\ per_source'[j] \in Int
        /\ per_source'[j] >= per_source[j]
    BY <1>2, <1>3 DEF WatermarksOK
  <2>5. emitted' =< emitted \/ emitted' =< per_source'[j]
    BY <1>2, <2>1 DEF Bounded
  <2> QED BY <2>3, <2>4, <2>5
<1>10. CombinerOK'
  BY <1>5, <1>6, <1>8, <1>9 DEF CombinerOK
<1> QED BY <1>3, <1>8, <1>10

\* The consumer's watermark and its cuts after a step.
Hands ==
    /\ \/ forwarded' = forwarded
       \/ ~Seeking /\ forwarded' = Max({forwarded, emitted'})
    /\ \/ cuts' = cuts
       \/ /\ ~Seeking /\ merged_offset' = merged_offset
          /\ cuts' = [n \in DOMAIN cuts \cup {merged_offset} |->
                         IF n = merged_offset THEN forwarded' ELSE cuts[n]]

LEMMA HandsStep == ASSUME NEW i, NEW v, Steps(i, v) PROVE Hands
<1>1. ASSUME NEW was, Output(was), merged_offset' = merged_offset PROVE Hands
  BY <1>1 DEF Output, Hands
<1>2. CASE Passes(i, v) \/ DeliversRecord(i, v)
  BY <1>2 DEF Passes, DeliversRecord, Hands
<1>3. CASE Leaves(i, v)
  BY <1>1, <1>3 DEF Leaves
<1>4. CASE DeliversWatermark(i, v)
  BY <1>1, <1>4 DEF DeliversWatermark
<1>5. CASE DeliversBarrier(i, v)
  <2>1. PICK m : m = emitted'
    OBVIOUS
  <2>2. Output(m) /\ merged_offset' = merged_offset
    BY <1>5, <2>1 DEF DeliversBarrier
  <2> QED BY <1>1, <2>2
<1> QED BY <1>2, <1>3, <1>4, <1>5 DEF Steps

-----------------------------------------------------------------------------
(***************************************************************************)
(* A replayable merge (~live) is a function of its state: the channels'    *)
(* states c, their watermarks w, the active ones a, the merged watermark   *)
(* e, the turn r, the merged offset n and the closed epochs k.             *)
(***************************************************************************)
Rank(r, i) == (i - r + NumChannels) % NumChannels
CanServe(c, k) == {i \in Channels : ~c[i].exhausted /\ ~(c[i].barriers_seen > k)}
First(c, r, k, i) == i \in CanServe(c, k) /\ \A j \in CanServe(c, k) : Rank(r, i) =< Rank(r, j)

Opened(c, i) ==
    IF c.gap_remaining = 0 /\ c.next_span =< Len(spans[i])
         /\ spans[i][c.next_span].start = c.data_pulled
    THEN [c EXCEPT !.gap_remaining = spans[i][c.next_span].length, !.next_span = @ + 1]
    ELSE c

Closed(c, k) ==
    LET aligning == {i \in Channels : ~c[i].exhausted /\ ~c[i].idle}
    IN  IF aligning # {} /\ \A i \in aligning : c[i].barriers_seen > k THEN k + 1 ELSE k

\* Channel i leaves; c already says so.
WithoutChannel(c, w, a, e, r, n, k, i) ==
    LET act == [a EXCEPT ![i] = FALSE]
    IN  <<c, <<w, act, Recompute(w, act, e)>>, r, n, Closed(c, k)>>

Trips(o) == IdleTimeout > 0 /\ ~o.idle /\ o.consecutive_empty + 1 >= IdleTimeout
AfterTick(o) == [o EXCEPT !.gap_remaining = @ - 1, !.consecutive_empty = @ + 1]
AfterPull(o) == [o EXCEPT !.cursor = @ + 1, !.idle = FALSE, !.consecutive_empty = 0]
Turned(i) == (i + 1) % NumChannels
Resumes(c, w, a, e, i) == IF c[i].idle THEN Recompute(w, [a EXCEPT ![i] = TRUE], e) ELSE e

TickTurn(c, w, a, e, n, k, i, o) ==
    IF Trips(o)
    THEN WithoutChannel([c EXCEPT ![i] = [AfterTick(o) EXCEPT !.idle = TRUE]],
                        w, a, e, Turned(i), n, k, i)
    ELSE <<[c EXCEPT ![i] = AfterTick(o)], <<w, a, e>>, Turned(i), n, k>>

RecordTurn(c, w, a, e, n, k, i, o) ==
    <<[c EXCEPT ![i] = [AfterPull(o) EXCEPT !.data_pulled = @ + 1]],
      <<w, [a EXCEPT ![i] = TRUE], Resumes(c, w, a, e, i)>>, Turned(i), n + 1, k>>

BarrierTurn(c, w, a, e, n, k, i, o) ==
    LET arrived == [c EXCEPT ![i] = [AfterPull(o) EXCEPT !.barriers_seen = @ + 1]]
    IN  <<arrived, <<w, [a EXCEPT ![i] = TRUE], Resumes(c, w, a, e, i)>>, Turned(i), n,
          Closed(arrived, k)>>

WatermarkTurn(c, w, a, e, n, k, i, o, t) ==
    LET wms == [w EXCEPT ![i] = Max({@, t})]
        act == [a EXCEPT ![i] = TRUE]
    IN  <<[c EXCEPT ![i] = AfterPull(o)],
          <<wms, act, Recompute(wms, act, Resumes(c, w, a, e, i))>>, Turned(i), n, k>>

Turn(c, w, a, e, r, n, k, i) ==
    LET o == Opened(c[i], i)
        item == script[i][c[i].cursor + 1]
    IN  IF o.gap_remaining > 0 THEN TickTurn(c, w, a, e, n, k, i, o)
        ELSE IF c[i].cursor = Len(script[i])
        THEN WithoutChannel([c EXCEPT ![i] = [o EXCEPT !.exhausted = TRUE]], w, a, e, r, n, k, i)
        ELSE IF item.type = "record" THEN RecordTurn(c, w, a, e, n, k, i, o)
        ELSE IF item.type = "barrier" THEN BarrierTurn(c, w, a, e, n, k, i, o)
        ELSE WatermarkTurn(c, w, a, e, n, k, i, o, item.time)

Stepped(x) ==
    Turn(x[1], x[2][1], x[2][2], x[2][3], x[3], x[4], x[5],
         CHOOSE i \in Channels : First(x[1], x[3], x[5], i))

LEMMA RemainderFacts ==
    ASSUME NEW d \in Nat, d >= 1, NEW x \in Nat, x < d + d
    PROVE  x % d = IF x < d THEN x ELSE x - d
<1>1. CASE x < d
  BY <1>1, SMT
<1>2. CASE ~(x < d)
  <2>1. PICK y \in Nat : y = x - d /\ y < d
    BY <1>2
  <2>2. x = d * 1 + y
    BY <2>1
  <2>3. x % d = y
    BY <2>1, <2>2, SMT
  <2> QED BY <1>2, <2>1, <2>3
<1> QED BY <1>1, <1>2

\* No two channels have the same rank, so that one has the turn.
LEMMA OneTurn ==
    ASSUME NEW c, NEW r \in Channels, NEW k, NEW i, NEW j, First(c, r, k, i), First(c, r, k, j)
    PROVE  i = j
<1>1. i \in Channels /\ j \in Channels /\ i \in CanServe(c, k) /\ j \in CanServe(c, k)
  BY DEF First, CanServe
<1>2. PICK d \in Nat : d = NumChannels /\ d >= 1 /\ r \in Nat /\ r < d /\ i \in Nat /\ i < d
                       /\ j \in Nat /\ j < d
  BY <1>1, ChannelFacts
<1>3. ASSUME NEW m \in Nat, m < d PROVE Rank(r, m) = IF m < r THEN m - r + d ELSE m - r
  <2>1. PICK x \in Nat : x = m - r + d /\ x < d + d
    BY <1>2, <1>3
  <2>2. x % d = IF x < d THEN x ELSE x - d
    BY <1>2, <2>1, RemainderFacts
  <2>3. Rank(r, m) = x % d
    BY <1>2, <2>1 DEF Rank
  <2> QED BY <1>2, <1>3, <2>1, <2>2, <2>3
<1>4. Rank(r, i) =< Rank(r, j) /\ Rank(r, j) =< Rank(r, i)
  BY <1>1 DEF First
<1>5. /\ Rank(r, i) = IF i < r THEN i - r + d ELSE i - r
      /\ Rank(r, j) = IF j < r THEN j - r + d ELSE j - r
  BY <1>2, <1>3
<1> QED BY <1>2, <1>4, <1>5

LEMMA SameClosed == ASSUME NEW c PROVE MaybeCloseEpoch(c) = Closed(c, epoch_closed)
  BY DEF MaybeCloseEpoch, Closed

LEMMA SameOpened == ASSUME NEW i PROVE OpenGap(i) = Opened(ch[i], i)
  BY DEF OpenGap, Opened

LEMMA SameTurn == ASSUME NEW i \in Channels PROVE HasTurn(i) <=> First(ch, rr, epoch_closed, i)
  BY DEF HasTurn, First, Serviceable, IsChannelBlocked, CanServe, Rank

LEMMA SameResumes ==
    ASSUME NEW i
    PROVE  ResumedEmitted(i) = Resumes(ch, per_source, active, emitted, i)
  BY DEF ResumedEmitted, Resumed, Resumes

\* The turn of channel i in a replayable merge.
Acts(i) == IdleTick(i) \/ Exhaust(i) \/ DeliverRecord(i) \/ DeliverWatermark(i) \/ DeliverBarrier(i)

TurnHere(i) == Turn(ch, per_source, active, emitted, rr, merged_offset, epoch_closed, i)

LEMMA TickIsTurn ==
    ASSUME ConfigOK, ChannelsOK, NEW i \in Channels, IdleTick(i) PROVE merge' = TurnHere(i)
<1>1. PICK o : o = OpenGap(i) /\ o = Opened(ch[i], i)
  BY SameOpened
<1>2. o.gap_remaining > 0 /\ Rotate(i) /\ per_source' = per_source /\ merged_offset' = merged_offset
  BY <1>1 DEF IdleTick
<1>3. TurnHere(i) = TickTurn(ch, per_source, active, emitted, merged_offset, epoch_closed, i, o)
  BY <1>1, <1>2 DEF TurnHere, Turn
<1>4. rr' = Turned(i)
  BY <1>2 DEF Rotate, Turned
<1>5. PICK u : u = AfterTick(o)
  OBVIOUS
<1>6. PICK chs : chs = [ch EXCEPT ![i] = u]
  OBVIOUS
<1>7. \/ Trips(o) /\ MarkChannelIdle(chs, i)
      \/ ~Trips(o) /\ ch' = chs /\ active' = active /\ emitted' = emitted
         /\ epoch_closed' = epoch_closed
  BY <1>1, <1>5, <1>6 DEF IdleTick, Trips, AfterTick
<1>8. CASE ~Trips(o)
  BY <1>2, <1>3, <1>4, <1>5, <1>6, <1>7, <1>8 DEF TickTurn, merge, combiner
<1>9. CASE Trips(o)
  <2>1. PICK v : v = [u EXCEPT !.idle = TRUE]
    OBVIOUS
  <2>2. PICK left : left = [ch EXCEPT ![i] = v] /\ left = [chs EXCEPT ![i].idle = TRUE]
    <3>1. [chs EXCEPT ![i].idle = TRUE] = [ch EXCEPT ![i] = v]
      BY <1>6, <2>1, ChExcept
    <3> QED BY <3>1
  <2>3. Exclude(left, i)
    BY <1>7, <1>9, <2>2 DEF MarkChannelIdle
  <2>4. TurnHere(i) = WithoutChannel(left, per_source, active, emitted, rr', merged_offset,
                                     epoch_closed, i)
    BY <1>3, <1>4, <1>5, <1>9, <2>1, <2>2 DEF TickTurn
  <2>5. /\ ch' = left /\ active' = [active EXCEPT ![i] = FALSE]
        /\ emitted' = Recompute(per_source, active', emitted)
        /\ epoch_closed' = Closed(left, epoch_closed)
    BY <2>3, SameClosed DEF Exclude
  <2> QED BY <1>2, <2>4, <2>5 DEF WithoutChannel, merge, combiner
<1> QED BY <1>8, <1>9

LEMMA ExhaustIsTurn ==
    ASSUME ConfigOK, ChannelsOK, NEW i \in Channels, Exhaust(i) PROVE merge' = TurnHere(i)
<1>1. PICK o : o = OpenGap(i) /\ o = Opened(ch[i], i)
  BY SameOpened
<1>2. PICK left : left = [ch EXCEPT ![i] = [o EXCEPT !.exhausted = TRUE]]
  OBVIOUS
<1>3. /\ o.gap_remaining = 0 /\ o.cursor = Len(script[i]) /\ Exclude(left, i)
      /\ per_source' = per_source /\ rr' = rr /\ merged_offset' = merged_offset
  BY <1>1, <1>2 DEF Exhaust
<1>4. ch[i].cursor = Len(script[i]) /\ ~(o.gap_remaining > 0)
  <2>1. o.cursor = ch[i].cursor
    BY <1>1, OpenGapFacts
  <2> QED BY <1>3, <2>1
<1>5. TurnHere(i) = WithoutChannel(left, per_source, active, emitted, rr, merged_offset,
                                   epoch_closed, i)
  BY <1>1, <1>2, <1>4 DEF TurnHere, Turn
<1>6. /\ ch' = left /\ active' = [active EXCEPT ![i] = FALSE]
      /\ emitted' = Recompute(per_source, active', emitted)
      /\ epoch_closed' = Closed(left, epoch_closed)
  BY <1>3, SameClosed DEF Exclude
<1> QED BY <1>3, <1>5, <1>6 DEF WithoutChannel, merge, combiner

\* The branch of Turn for the type of the next item.
LEMMA DeliverBranch ==
    ASSUME ConfigOK, ChannelsOK, NEW i \in Channels, NEW type, CanDeliver(i, type), NEW o,
           o = OpenGap(i)
    PROVE  /\ o = Opened(ch[i], i) /\ ~(o.gap_remaining > 0) /\ ch[i].cursor # Len(script[i])
           /\ script[i][ch[i].cursor + 1].type = type
<1>1. o.gap_remaining = 0 /\ ch[i].cursor < Len(script[i]) /\ script[i][ch[i].cursor + 1].type = type
  BY DEF CanDeliver, Item
<1>2. ch[i].cursor \in Nat /\ Len(script[i]) \in Nat
  BY ScriptFacts DEF ChannelsOK, ChannelOK
<1>3. o = Opened(ch[i], i)
  BY SameOpened
<1> QED BY <1>1, <1>2, <1>3

LEMMA RecordIsTurn ==
    ASSUME ConfigOK, ChannelsOK, NEW i \in Channels, DeliverRecord(i) PROVE merge' = TurnHere(i)
<1>1. PICK o : o = OpenGap(i)
  OBVIOUS
<1>2. CanDeliver(i, "record")
  BY DEF DeliverRecord
<1>3. /\ o = Opened(ch[i], i) /\ ~(o.gap_remaining > 0) /\ ch[i].cursor # Len(script[i])
      /\ script[i][ch[i].cursor + 1].type = "record"
  BY <1>1, <1>2, DeliverBranch
<1>4. TurnHere(i) = RecordTurn(ch, per_source, active, emitted, merged_offset, epoch_closed, i, o)
  BY <1>3 DEF TurnHere, Turn
<1>5. Pulled(i) = AfterPull(o)
  BY <1>1 DEF Pulled, AfterPull
<1>6. PICK e : e = ResumedEmitted(i) /\ e = Resumes(ch, per_source, active, emitted, i)
  BY SameResumes
<1>7. /\ ch' = [ch EXCEPT ![i] = [AfterPull(o) EXCEPT !.data_pulled = @ + 1]]
      /\ active' = [active EXCEPT ![i] = TRUE] /\ emitted' = e /\ merged_offset' = merged_offset + 1
      /\ per_source' = per_source /\ epoch_closed' = epoch_closed /\ rr' = Turned(i)
  BY <1>5, <1>6 DEF DeliverRecord, Resumed, Rotate, Turned
<1> QED BY <1>4, <1>6, <1>7 DEF RecordTurn, merge, combiner

LEMMA WatermarkIsTurn ==
    ASSUME ConfigOK, ChannelsOK, NEW i \in Channels, DeliverWatermark(i) PROVE merge' = TurnHere(i)
<1>1. PICK o : o = OpenGap(i)
  OBVIOUS
<1>2. CanDeliver(i, "watermark")
  BY DEF DeliverWatermark
<1>3. /\ o = Opened(ch[i], i) /\ ~(o.gap_remaining > 0) /\ ch[i].cursor # Len(script[i])
      /\ script[i][ch[i].cursor + 1].type = "watermark"
  BY <1>1, <1>2, DeliverBranch
<1>4. PICK t : t = script[i][ch[i].cursor + 1].time
  OBVIOUS
<1>5. TurnHere(i) = WatermarkTurn(ch, per_source, active, emitted, merged_offset, epoch_closed, i,
                                  o, t)
  BY <1>3, <1>4 DEF TurnHere, Turn
<1>6. Pulled(i) = AfterPull(o)
  BY <1>1 DEF Pulled, AfterPull
<1>7. PICK e : e = ResumedEmitted(i) /\ e = Resumes(ch, per_source, active, emitted, i)
  BY SameResumes
<1>8. /\ ch' = [ch EXCEPT ![i] = AfterPull(o)] /\ active' = [active EXCEPT ![i] = TRUE]
      /\ per_source' = [per_source EXCEPT ![i] = Max({@, t})]
      /\ emitted' = Recompute(per_source', active', e) /\ merged_offset' = merged_offset
      /\ epoch_closed' = epoch_closed /\ rr' = Turned(i)
  BY <1>4, <1>6, <1>7 DEF DeliverWatermark, Resumed, Rotate, Turned, Item
<1> QED BY <1>5, <1>7, <1>8 DEF WatermarkTurn, merge, combiner

LEMMA BarrierIsTurn ==
    ASSUME ConfigOK, ChannelsOK, NEW i \in Channels, DeliverBarrier(i) PROVE merge' = TurnHere(i)
<1>1. PICK o : o = OpenGap(i)
  OBVIOUS
<1>2. CanDeliver(i, "barrier")
  BY DEF DeliverBarrier
<1>3. /\ o = Opened(ch[i], i) /\ ~(o.gap_remaining > 0) /\ ch[i].cursor # Len(script[i])
      /\ script[i][ch[i].cursor + 1].type = "barrier"
  BY <1>1, <1>2, DeliverBranch
<1>4. TurnHere(i) = BarrierTurn(ch, per_source, active, emitted, merged_offset, epoch_closed, i, o)
  BY <1>3 DEF TurnHere, Turn
<1>5. Pulled(i) = AfterPull(o)
  BY <1>1 DEF Pulled, AfterPull
<1>6. PICK e : e = ResumedEmitted(i) /\ e = Resumes(ch, per_source, active, emitted, i)
  BY SameResumes
<1>7. PICK arrived : arrived = [ch EXCEPT ![i] = [AfterPull(o) EXCEPT !.barriers_seen = @ + 1]]
  OBVIOUS
<1>8. /\ ch' = arrived /\ active' = [active EXCEPT ![i] = TRUE] /\ emitted' = e
      /\ epoch_closed' = MaybeCloseEpoch(arrived) /\ per_source' = per_source
      /\ merged_offset' = merged_offset /\ rr' = Turned(i)
  BY <1>5, <1>6, <1>7 DEF DeliverBarrier, Resumed, Rotate, Turned
<1>9. epoch_closed' = Closed(arrived, epoch_closed)
  BY <1>8, SameClosed
<1> QED BY <1>4, <1>6, <1>7, <1>8, <1>9 DEF BarrierTurn, merge, combiner

\* A step of a replayable merge is the one its state determines.
LEMMA Deterministic ==
    ASSUME ConfigOK, ChannelsOK, ~live, rr \in Channels, ProduceOneMergedStep
    PROVE  merge' = Stepped(merge)
<1>1. PICK i \in Channels : HasTurn(i) /\ (IdleTick(i) \/ Exhaust(i) \/ Quiet(i)
                               \/ DeliverRecord(i) \/ DeliverWatermark(i) \/ DeliverBarrier(i))
  BY DEF ProduceOneMergedStep
<1>2. Acts(i)
  BY <1>1 DEF Acts, Quiet
<1>3. merge' = TurnHere(i)
  BY <1>2, TickIsTurn, ExhaustIsTurn, RecordIsTurn, WatermarkIsTurn, BarrierIsTurn DEF Acts
<1>4. First(ch, rr, epoch_closed, i)
  BY <1>1, SameTurn
<1>5. PICK y : y = (CHOOSE j \in Channels : First(ch, rr, epoch_closed, j))
  OBVIOUS
<1>6. First(ch, rr, epoch_closed, y)
  BY <1>4, <1>5
<1>7. y = i
  BY <1>4, <1>6, OneTurn
<1>8. Stepped(merge) = TurnHere(y)
  BY <1>5 DEF Stepped, TurnHere, merge, combiner
<1> QED BY <1>3, <1>7, <1>8

\* What a step does to the turn, the offset and the remembered states.
LEMMA StepFacts ==
    ASSUME rr \in Channels, ProduceOneMergedStep
    PROVE  /\ rr' \in Channels
           /\ \/ merged_offset' = merged_offset /\ at' = at
              \/ merged_offset' = merged_offset + 1 /\ Remember(merged_offset')
<1>1. PICK i \in Channels : IdleTick(i) \/ Exhaust(i) \/ Quiet(i)
                               \/ DeliverRecord(i) \/ DeliverWatermark(i) \/ DeliverBarrier(i)
  BY DEF ProduceOneMergedStep
<1>2. rr' = rr \/ rr' = (i + 1) % NumChannels
  BY <1>1 DEF IdleTick, Exhaust, Quiet, DeliverRecord, DeliverWatermark, DeliverBarrier, Rotate
<1>3. (i + 1) % NumChannels \in Channels
  <2>1. PICK d \in Nat : d = NumChannels /\ d >= 1 /\ i \in Nat /\ i < d
    BY ChannelFacts
  <2>2. PICK x \in Nat : x = i + 1 /\ x < d + d
    BY <2>1
  <2>3. x % d = IF x < d THEN x ELSE x - d
    BY <2>1, <2>2, RemainderFacts
  <2>4. x % d \in Nat /\ x % d < d
    BY <2>1, <2>2, <2>3
  <2> QED BY <2>1, <2>2, <2>4, ChannelFacts
<1>4. CASE DeliverRecord(i)
  <2>1. merged_offset' = merged_offset + 1 /\ Remember(merged_offset')
    BY <1>4 DEF DeliverRecord
  <2> QED BY <1>2, <1>3, <2>1
<1>5. CASE ~DeliverRecord(i)
  <2>1. merged_offset' = merged_offset /\ at' = at
    BY <1>1, <1>5 DEF IdleTick, Exhaust, Quiet, DeliverWatermark, DeliverBarrier
  <2> QED BY <1>2, <1>3, <2>1
<1> QED BY <1>4, <1>5

-----------------------------------------------------------------------------
(***************************************************************************)
(* The run of a replayable merge: the states it goes through from its      *)
(* start, as far as any incarnation has got.  A seek goes back to its      *)
(* first state, and the current state is always one of them.               *)
(***************************************************************************)
Offset(x) == x[4]
IdleIn(x, i) == x[1][i].idle
DoneIn(x, i) == x[1][i].exhausted
TimeIn(x, i) == x[2][1][i]

Start == <<[i \in Channels |-> Fresh],
           <<[i \in Channels |-> NoWatermark], [i \in Channels |-> TRUE], NoWatermark>>, 0, 0, 0>>

Numbers(x) == Offset(x) \in Nat /\ \A i \in Channels : TimeIn(x, i) \in Int

\* y comes no earlier than x in the run.
Before(x, y) ==
    /\ Offset(x) =< Offset(y)
    /\ \A i \in Channels : TimeIn(x, i) =< TimeIn(y, i) /\ (DoneIn(x, i) => DoneIn(y, i))

IsRun(run, top) ==
    /\ top \in Nat /\ run[0] = Start
    /\ \A j \in Nat : j =< top => Numbers(run[j])
    /\ \A j \in Nat : j < top => run[j + 1] = Stepped(run[j]) /\ Before(run[j], run[j + 1])

\* Each remembered state is the first one of its offset.
Recorded(run, top) ==
    \A n \in Nat : n >= 1 /\ n =< Len(at) =>
       \E j \in Nat : /\ j < top /\ run[j + 1] = at[n]
                      /\ Offset(run[j]) = n - 1 /\ Offset(run[j + 1]) = n

WasIdle(run, k, i) == \E j \in Nat : j =< k /\ IdleIn(run[j], i)

\* Watermark t was declared by state k of the run.
Covers(run, t, k) ==
    \A i \in Channels : WasIdle(run, k, i) \/ DoneIn(run[k], i) \/ t =< TimeIn(run[k], i)

Covered(run, top, t, n) ==
    \E k \in Nat : k =< top /\ Offset(run[k]) =< n /\ Covers(run, t, k)

OnRun(run, top, k) ==
    /\ IsRun(run, top) /\ k \in Nat /\ k =< top /\ merge = run[k]
    /\ Recorded(run, top)
    /\ \A i \in Channels : i \in idled <=> WasIdle(run, k, i)
    /\ Covered(run, top, forwarded, merged_offset) \/ Covered(run, top, forwarded, target)
    /\ \A n \in DOMAIN cuts : Covered(run, top, cuts[n], n)

Replayable == ~live => \E run, top, k : OnRun(run, top, k)

Consumer ==
    /\ rr \in Channels /\ target \in Nat /\ forwarded \in Int /\ forwarded >= NoWatermark
    /\ \A n \in DOMAIN cuts : n \in Nat /\ cuts[n] \in Int /\ cuts[n] >= NoWatermark
    /\ \E S : at \in Seq(S)
    /\ merged_offset \in Nat /\ (~live => merged_offset =< Len(at))
    /\ live => forwarded =< emitted

StreamInv == IInv /\ WatermarksOK /\ CombinerOK /\ Consumer /\ Replayable

LEMMA SameRun ==
    ASSUME script' = script, spans' = spans, NEW run, NEW top, IsRun(run, top)
    PROVE  IsRun(run, top)'
<1>1. ASSUME NEW x PROVE Stepped(x)' = Stepped(x)
  <2>1. ASSUME NEW c, NEW i PROVE Opened(c, i)' = Opened(c, i)
    BY DEF Opened
  <2>2. ASSUME NEW c, NEW w, NEW a, NEW e, NEW r, NEW n, NEW k, NEW i
        PROVE  Turn(c, w, a, e, r, n, k, i)' = Turn(c, w, a, e, r, n, k, i)
    <3>1. PICK o : o = Opened(c[i], i) /\ o = Opened(c[i], i)'
      BY <2>1
    <3> QED BY <3>1, Zenon DEF Turn
  <2> QED BY <2>2, Zenon DEF Stepped
<1> QED BY <1>1 DEF IsRun

\* The offset and the watermarks never go back along a run.
LEMMA Monotone ==
    ASSUME NEW run, NEW top, IsRun(run, top), NEW j \in Nat, NEW k \in Nat, j =< k, k =< top
    PROVE  Before(run[j], run[k]) /\ Numbers(run[j]) /\ Numbers(run[k])
<1>0. top \in Nat /\ \A m \in Nat : m =< top => Numbers(run[m])
  BY DEF IsRun
<1>1. PICK T : T = {m \in Nat : j =< m /\ m =< top /\ ~Before(run[j], run[m])}
  OBVIOUS
<1>2. T = {}
  <2> SUFFICES ASSUME T # {} PROVE FALSE
    OBVIOUS
  <2>1. PICK m \in T : \A y \in T : m =< y
    BY <1>1, NatLeast
  <2>2. m \in Nat /\ j =< m /\ m =< top /\ ~Before(run[j], run[m])
    BY <1>1, <2>1
  <2>3. m # j
    <3>1. Before(run[j], run[j])
      BY <1>0 DEF Before, Numbers
    <3> QED BY <2>2, <3>1
  <2>4. PICK l \in Nat : m = l + 1 /\ j =< l /\ l =< top /\ l < top /\ ~(m =< l)
    BY <1>0, <2>2, <2>3
  <2>5. Before(run[j], run[l])
    BY <1>1, <2>1, <2>4
  <2>6. Before(run[l], run[m])
    BY <2>4 DEF IsRun
  <2>7. Numbers(run[j]) /\ Numbers(run[l]) /\ Numbers(run[m])
    BY <1>0, <2>2, <2>4
  <2>8. Before(run[j], run[m])
    <3>1. Offset(run[j]) =< Offset(run[m])
      BY <2>5, <2>6, <2>7 DEF Before, Numbers
    <3>2. ASSUME NEW i \in Channels
          PROVE  TimeIn(run[j], i) =< TimeIn(run[m], i) /\ (DoneIn(run[j], i) => DoneIn(run[m], i))
      BY <2>5, <2>6, <2>7 DEF Before, Numbers
    <3> QED BY <3>1, <3>2 DEF Before
  <2> QED BY <2>2, <2>8
<1> QED BY <1>0, <1>1, <1>2

LEMMA CoversLater ==
    ASSUME NEW run, NEW top, IsRun(run, top), NEW j \in Nat, NEW k \in Nat, j =< k, k =< top,
           NEW t \in Int, Covers(run, t, j)
    PROVE  Covers(run, t, k)
<1>1. Before(run[j], run[k]) /\ Numbers(run[j]) /\ Numbers(run[k])
  BY Monotone
<1> SUFFICES ASSUME NEW i \in Channels
             PROVE  WasIdle(run, k, i) \/ DoneIn(run[k], i) \/ t =< TimeIn(run[k], i)
  BY DEF Covers
<1>2. WasIdle(run, j, i) \/ DoneIn(run[j], i) \/ t =< TimeIn(run[j], i)
  BY DEF Covers
<1>3. WasIdle(run, j, i) => WasIdle(run, k, i)
  BY DEF WasIdle
<1>4. /\ DoneIn(run[j], i) => DoneIn(run[k], i)
      /\ TimeIn(run[j], i) \in Int /\ TimeIn(run[k], i) \in Int
      /\ TimeIn(run[j], i) =< TimeIn(run[k], i)
  BY <1>1 DEF Before, Numbers
<1> QED BY <1>2, <1>3, <1>4

\* A longer run with the same beginning.
Extends(longer, further, run, top) ==
    /\ further \in Nat /\ top =< further
    /\ \A j \in Nat : j =< top => longer[j] = run[j]

LEMMA CoveredLonger ==
    ASSUME NEW run, NEW top \in Nat, NEW longer, NEW further, Extends(longer, further, run, top),
           NEW t, NEW n, Covered(run, top, t, n)
    PROVE  Covered(longer, further, t, n)
<1>1. PICK k \in Nat : k =< top /\ Offset(run[k]) =< n /\ Covers(run, t, k)
  BY DEF Covered
<1>2. k =< further /\ longer[k] = run[k]
  BY <1>1 DEF Extends
<1>3. \A j \in Nat : j =< k => longer[j] = run[j]
  BY <1>1 DEF Extends
<1>4. ASSUME NEW i \in Channels PROVE WasIdle(run, k, i) => WasIdle(longer, k, i)
  BY <1>3 DEF WasIdle
<1>5. Covers(longer, t, k)
  BY <1>1, <1>2, <1>4 DEF Covers
<1> QED BY <1>1, <1>2, <1>5 DEF Covered

LEMMA RecordedLonger ==
    ASSUME NEW run, NEW top \in Nat, NEW longer, NEW further, Extends(longer, further, run, top),
           Recorded(run, top)
    PROVE  Recorded(longer, further)
<1> SUFFICES ASSUME NEW n \in Nat, n >= 1, n =< Len(at)
             PROVE  \E j \in Nat : /\ j < further /\ longer[j + 1] = at[n]
                                   /\ Offset(longer[j]) = n - 1 /\ Offset(longer[j + 1]) = n
  BY DEF Recorded
<1>1. PICK j \in Nat : /\ j < top /\ run[j + 1] = at[n]
                       /\ Offset(run[j]) = n - 1 /\ Offset(run[j + 1]) = n
  BY DEF Recorded
<1>2. j + 1 \in Nat /\ j + 1 =< top /\ j =< top /\ j < further
  BY <1>1 DEF Extends
<1>3. longer[j + 1] = run[j + 1] /\ longer[j] = run[j]
  BY <1>2 DEF Extends
<1> QED BY <1>1, <1>2, <1>3

LEMMA Parts ==
    ASSUME NEW x, x = merge
    PROVE  /\ Offset(x) = merged_offset /\ x[3] = rr
           /\ \A i : IdleIn(x, i) = ch[i].idle /\ DoneIn(x, i) = ch[i].exhausted
                     /\ TimeIn(x, i) = per_source[i]
  BY DEF merge, combiner, Offset, IdleIn, DoneIn, TimeIn

LEMMA PartsAfter ==
    ASSUME NEW x, x = merge'
    PROVE  /\ Offset(x) = merged_offset' /\ x[3] = rr'
           /\ \A i : IdleIn(x, i) = ch'[i].idle /\ DoneIn(x, i) = ch'[i].exhausted
                     /\ TimeIn(x, i) = per_source'[i]
  BY DEF merge, combiner, Offset, IdleIn, DoneIn, TimeIn

LEMMA BeforeStep ==
    ASSUME IInv, WatermarksOK, CombinerOK, Consumer, ProduceOneMergedStep, NEW x, x = merge,
           NEW y, y = merge'
    PROVE  Numbers(x) /\ Numbers(y) /\ Before(x, y)
<1>1. PICK i \in Channels : \E v : Becomes(i, v) /\ Steps(i, v)
  BY MergeMoves DEF IInv
<1>2. PICK v : Becomes(i, v) /\ Steps(i, v)
  BY <1>1
<1>3. script' = script
  BY MergeMoves DEF IInv
<1>4. /\ per_source' \in [Channels -> Int]
      /\ \A j \in Channels : per_source'[j] >= per_source[j]
      /\ Bounded(emitted', emitted, per_source', active')
  BY <1>2, <1>3, WatermarkStep
<1>5. per_source \in [Channels -> Int] /\ merged_offset \in Nat
  BY DEF WatermarksOK, Consumer
<1>6. merged_offset' = merged_offset \/ merged_offset' = merged_offset + 1
  BY StepFacts DEF Consumer
<1>7. /\ ch'[i] = v /\ \A j \in Channels : j # i => ch'[j] = ch[j]
      /\ ~ch[i].exhausted
  BY <1>2, <1>3, BecomesFacts DEF IInv
<1>8. \A j \in Channels : ch[j].exhausted => ch'[j].exhausted
  BY <1>7
<1>9. /\ Offset(x) = merged_offset
      /\ \A j : DoneIn(x, j) = ch[j].exhausted /\ TimeIn(x, j) = per_source[j]
  BY Parts
<1>10. /\ Offset(y) = merged_offset'
       /\ \A j : DoneIn(y, j) = ch'[j].exhausted /\ TimeIn(y, j) = per_source'[j]
  BY PartsAfter
<1>11. Numbers(x)
  BY <1>5, <1>9 DEF Numbers
<1>12. Numbers(y)
  BY <1>4, <1>5, <1>6, <1>10 DEF Numbers
<1>13. Offset(x) =< Offset(y)
  BY <1>5, <1>6, <1>9, <1>10
<1>14. \A j \in Channels : TimeIn(x, j) =< TimeIn(y, j)
  BY <1>4, <1>5, <1>9, <1>10
<1>15. \A j \in Channels : DoneIn(x, j) => DoneIn(y, j)
  BY <1>8, <1>9, <1>10
<1> QED BY <1>11, <1>12, <1>13, <1>14, <1>15 DEF Before

\* The run goes on to the step's state, or already did in an earlier incarnation.
LEMMA Extension ==
    ASSUME NEW run, NEW top, IsRun(run, top), NEW k \in Nat, k =< top, NEW y,
           y = Stepped(run[k]), Numbers(y), Before(run[k], y)
    PROVE  \E longer, further : /\ Extends(longer, further, run, top) /\ IsRun(longer, further)
                                /\ k + 1 =< further /\ longer[k + 1] = y
<1>1. top \in Nat
  BY DEF IsRun
<1>2. CASE k < top
  <2>1. run[k + 1] = y /\ k + 1 =< top
    BY <1>1, <1>2 DEF IsRun
  <2>2. Extends(run, top, run, top)
    BY <1>1 DEF Extends
  <2> QED BY <2>1, <2>2
<1>3. CASE k = top
  <2>1. PICK longer : longer = [j \in Nat |-> IF j = top + 1 THEN y ELSE run[j]]
    OBVIOUS
  <2>2. PICK further \in Nat : further = top + 1 /\ top < further
    BY <1>1
  <2>3. longer[further] = y /\ \A j \in Nat : j =< top => longer[j] = run[j]
    BY <1>1, <2>1, <2>2
  <2>4. Extends(longer, further, run, top)
    BY <1>1, <2>2, <2>3 DEF Extends
  <2>5. longer[0] = Start
    BY <1>1, <2>3 DEF IsRun
  <2>6. ASSUME NEW j \in Nat, j =< further PROVE Numbers(longer[j])
    <3>1. j =< top \/ j = further
      BY <1>1, <2>2, <2>6
    <3> QED BY <2>3, <3>1 DEF IsRun
  <2>7. ASSUME NEW j \in Nat, j < further
        PROVE  longer[j + 1] = Stepped(longer[j]) /\ Before(longer[j], longer[j + 1])
    <3>1. CASE j < top
      <4>1. longer[j] = run[j] /\ longer[j + 1] = run[j + 1]
        <5>1. j =< top /\ j + 1 =< top /\ j + 1 \in Nat
          BY <1>1, <3>1
        <5> QED BY <2>3, <5>1
      <4>2. run[j + 1] = Stepped(run[j]) /\ Before(run[j], run[j + 1])
        BY <3>1 DEF IsRun
      <4> QED BY <4>1, <4>2
    <3>2. CASE ~(j < top)
      <4>1. j = k /\ j + 1 = further /\ j =< top
        BY <1>1, <1>3, <2>2, <2>7, <3>2
      <4>2. longer[j] = run[k] /\ longer[j + 1] = y
        BY <2>3, <4>1
      <4> QED BY <4>2
    <3> QED BY <3>1, <3>2
  <2>8. IsRun(longer, further)
    BY <2>5, <2>6, <2>7 DEF IsRun
  <2> QED BY <1>3, <2>2, <2>3, <2>4, <2>8
<1> QED BY <1>1, <1>2, <1>3

\* The consumer's watermark after a step that got the run to state k: it was
\* covered by t's state, or it is the merged watermark e of state k.
LEMMA CoveredNext ==
    ASSUME NEW run, NEW top, IsRun(run, top), NEW k \in Nat, k =< top,
           NEW n \in Int, Offset(run[k]) = n, NEW b \in Int, NEW t \in Int, NEW e \in Int,
           Covered(run, top, t, b), Covers(run, e, k), NEW m, m = Max({t, e})
    PROVE  Covered(run, top, m, n) \/ Covered(run, top, m, b)
<1>1. PICK j \in Nat : j =< top /\ Offset(run[j]) =< b /\ Covers(run, t, j)
  BY DEF Covered
<1>2. m = IF t >= e THEN t ELSE e
  BY MaxOfTwo
<1>3. top \in Nat
  BY DEF IsRun
<1>4. ASSUME NEW l \in Nat, Covers(run, t, l), Covers(run, e, l) PROVE Covers(run, m, l)
  BY <1>2, <1>4 DEF Covers
<1>5. CASE j =< k
  <2>1. Covers(run, t, k)
    BY <1>1, <1>5, CoversLater
  <2>2. Covers(run, m, k)
    BY <1>4, <2>1
  <2> QED BY <2>2 DEF Covered
<1>6. CASE ~(j =< k)
  <2>1. k =< j
    BY <1>6
  <2>2. Covers(run, e, j)
    BY <1>1, <2>1, CoversLater
  <2>3. Covers(run, m, j)
    BY <1>1, <1>4, <2>2
  <2> QED BY <1>1, <2>3 DEF Covered
<1> QED BY <1>5, <1>6

LEMMA CoveredWider ==
    ASSUME NEW run, NEW top, IsRun(run, top), NEW t, NEW b \in Int, NEW n \in Int, b =< n,
           Covered(run, top, t, b)
    PROVE  Covered(run, top, t, n)
<1>1. PICK j \in Nat : j =< top /\ Offset(run[j]) =< b /\ Covers(run, t, j)
  BY DEF Covered
<1>2. Offset(run[j]) \in Nat
  BY <1>1 DEF IsRun, Numbers
<1>3. Offset(run[j]) =< n
  BY <1>1, <1>2
<1> QED BY <1>1, <1>3 DEF Covered

LEMMA ConsumerStep ==
    ASSUME IInv, WatermarksOK, CombinerOK, Consumer, ProduceOneMergedStep
    PROVE  WatermarksOK' /\ CombinerOK' /\ Consumer'
<1>1. PICK i \in Channels : \E v : Becomes(i, v) /\ Steps(i, v)
  BY MergeMoves DEF IInv
<1>2. PICK v : Becomes(i, v) /\ Steps(i, v)
  BY <1>1
<1>3. script' = script /\ live' = live /\ target' = target
  BY MergeMoves DEF IInv
<1>4. WatermarksOK' /\ CombinerOK'
  BY <1>2, <1>3, CombinerStep
<1>5. Bounded(emitted', emitted, per_source', active')
  BY <1>2, <1>3, WatermarkStep
<1>6. emitted \in Int /\ emitted' \in Int /\ emitted' >= emitted /\ emitted' >= NoWatermark
      /\ NoWatermark \in Int /\ NoWatermark' = NoWatermark
  BY <1>4, <1>5 DEF Bounded, WatermarksOK, NoWatermark
<1>7. Hands
  BY <1>2, HandsStep
<1>8. rr' \in Channels /\ target' \in Nat
  BY <1>3, StepFacts DEF Consumer
<1>9. forwarded \in Int /\ forwarded >= NoWatermark /\ (live => forwarded =< emitted)
  BY DEF Consumer
<1>10. /\ forwarded' \in Int /\ forwarded' >= NoWatermark
       /\ forwarded' = forwarded \/ forwarded' = emitted'
  <2>1. CASE forwarded' = forwarded
    BY <1>9, <2>1
  <2>2. CASE forwarded' = Max({forwarded, emitted'})
    <3>1. PICK f, e, m : f = forwarded /\ e = emitted' /\ m = forwarded' /\ m = Max({f, e})
      BY <2>2
    <3>2. f \in Int /\ e \in Int
      BY <1>6, <1>9, <3>1
    <3>3. m = IF f >= e THEN f ELSE e
      BY <3>1, <3>2, MaxOfTwo
    <3> QED BY <1>6, <1>9, <3>1, <3>3
  <2> QED BY <1>7, <2>1, <2>2 DEF Hands
<1>11. live => forwarded' =< emitted'
  BY <1>6, <1>9, <1>10
<1>12. merged_offset \in Nat /\ \A n \in DOMAIN cuts : n \in Nat /\ cuts[n] \in Int
                                                     /\ cuts[n] >= NoWatermark
  BY DEF Consumer
<1>13. \A n \in DOMAIN cuts' : n \in Nat /\ cuts'[n] \in Int /\ cuts'[n] >= NoWatermark
  <2>1. CASE cuts' = cuts
    BY <1>12, <2>1
  <2>2. CASE cuts' = [n \in DOMAIN cuts \cup {merged_offset} |->
                         IF n = merged_offset THEN forwarded' ELSE cuts[n]]
    BY <1>10, <1>12, <2>2
  <2> QED BY <1>7, <2>1, <2>2 DEF Hands
<1>14. /\ \E S : at' \in Seq(S)
       /\ merged_offset' \in Nat /\ (~live => merged_offset' =< Len(at'))
  <2>1. PICK S : at \in Seq(S)
    BY DEF Consumer
  <2>2. Len(at) \in Nat
    BY <2>1, LenProperties
  <2>3. ~live => merged_offset =< Len(at)
    BY DEF Consumer
  <2>4. CASE merged_offset' = merged_offset /\ at' = at
    BY <1>12, <2>1, <2>3, <2>4
  <2>5. CASE merged_offset' = merged_offset + 1 /\ Remember(merged_offset')
    <3>1. merged_offset' \in Nat
      BY <1>12, <2>5
    <3>2. CASE ~live /\ merged_offset' = Len(at) + 1
      <4>1. PICK y : y = merge' /\ at' = Append(at, y)
        BY <2>5, <3>2 DEF Remember
      <4>2. at \in Seq(S \cup {y})
        BY <2>1, LenProperties, ElementOfSeq, SeqDef
      <4>3. at' \in Seq(S \cup {y}) /\ Len(at') = Len(at) + 1
        BY <4>1, <4>2, AppendProperties
      <4> QED BY <3>1, <3>2, <4>3
    <3>3. CASE ~(~live /\ merged_offset' = Len(at) + 1)
      <4>1. at' = at
        BY <2>5, <3>3 DEF Remember
      <4>2. ~live => merged_offset' =< Len(at)
        BY <1>12, <2>2, <2>3, <2>5, <3>3
      <4> QED BY <2>1, <3>1, <4>1, <4>2
    <3> QED BY <3>2, <3>3
  <2>6. \/ merged_offset' = merged_offset /\ at' = at
        \/ merged_offset' = merged_offset + 1 /\ Remember(merged_offset')
    BY StepFacts DEF Consumer
  <2> QED BY <2>4, <2>5, <2>6
<1>15. Consumer'
  BY <1>3, <1>6, <1>8, <1>10, <1>11, <1>13, <1>14 DEF Consumer
<1> QED BY <1>4, <1>15

LEMMA RunStep ==
    ASSUME IInv, WatermarksOK, CombinerOK, Consumer, ~live, ProduceOneMergedStep,
           NEW run, NEW top, NEW k, OnRun(run, top, k)
    PROVE  Replayable'
<1>1. PICK i \in Channels : \E v : Becomes(i, v) /\ Steps(i, v)
  BY MergeMoves DEF IInv
<1>2. PICK v : Becomes(i, v) /\ Steps(i, v)
  BY <1>1
<1>3. script' = script /\ live' = live /\ target' = target /\ spans' = spans
  BY MergeMoves DEF IInv
<1>4. PICK y : y = merge'
  OBVIOUS
<1>5. /\ IsRun(run, top) /\ k \in Nat /\ k =< top /\ merge = run[k] /\ top \in Nat
  BY DEF OnRun, IsRun
<1>6. y = Stepped(run[k])
  BY <1>4, <1>5, Deterministic DEF IInv, Consumer
<1>7. Numbers(y) /\ Before(run[k], y)
  BY <1>4, <1>5, BeforeStep
<1>8. PICK longer, further : /\ Extends(longer, further, run, top) /\ IsRun(longer, further)
                             /\ k + 1 =< further /\ longer[k + 1] = y
  BY <1>5, <1>6, <1>7, Extension
<1>9. PICK l \in Nat : l = k + 1 /\ l =< further /\ longer[l] = y /\ further \in Nat
  BY <1>5, <1>8 DEF Extends
<1>10. IsRun(longer, further)'
  BY <1>3, <1>8, SameRun
<1>11. merge' = longer[l]
  BY <1>4, <1>9
<1>12. Offset(y) = merged_offset' /\ \A j : /\ IdleIn(y, j) = ch'[j].idle
                                            /\ DoneIn(y, j) = ch'[j].exhausted
                                            /\ TimeIn(y, j) = per_source'[j]
  BY <1>4, PartsAfter
<1>13. Offset(run[k]) = merged_offset /\ longer[k] = run[k]
  <2>1. PICK x : x = merge /\ x = run[k]
    BY <1>5
  <2>2. Offset(x) = merged_offset
    BY <2>1, Parts
  <2> QED BY <1>5, <1>8, <2>1, <2>2 DEF Extends
<1>14. merged_offset \in Nat /\ merged_offset' \in Nat /\ merged_offset =< merged_offset'
       /\ target \in Nat
  <2>1. merged_offset' = merged_offset \/ merged_offset' = merged_offset + 1
    BY StepFacts DEF Consumer
  <2> QED BY <2>1 DEF Consumer
<1>15. Recorded(longer, further)
  BY <1>5, <1>8, RecordedLonger DEF OnRun
<1>16. Recorded(longer, further)'
  <2>1. CASE at' = at
    BY <1>15, <2>1 DEF Recorded
  <2>2. CASE at' # at
    <3>1. merged_offset' = merged_offset + 1 /\ Remember(merged_offset')
      BY <2>2, StepFacts DEF Consumer
    <3>2. at' = Append(at, y) /\ merged_offset' = Len(at) + 1
      BY <1>4, <2>2, <3>1 DEF Remember
    <3>3. PICK S : at \in Seq(S)
      BY DEF Consumer
    <3>4. PICK len \in Nat : len = Len(at)
      BY <3>3, LenProperties
    <3>5. PICK a2 : a2 = at' /\ Len(a2) = len + 1 /\ a2[len + 1] = y
                    /\ \A n \in 1..len : a2[n] = at[n]
      <4>1. at \in Seq(S \cup {y})
        BY <3>3, LenProperties, ElementOfSeq, SeqDef
      <4> QED BY <3>2, <3>4, <4>1, AppendProperties
    <3>6. ASSUME NEW n \in Nat, n >= 1, n =< len + 1
          PROVE  \E j \in Nat : /\ j < further /\ longer[j + 1] = a2[n]
                                /\ Offset(longer[j]) = n - 1 /\ Offset(longer[j + 1]) = n
      <4>1. CASE n =< len
        <5>1. a2[n] = at[n]
          BY <3>5, <3>6, <4>1
        <5> QED BY <1>15, <3>4, <3>6, <4>1, <5>1 DEF Recorded
      <4>2. CASE ~(n =< len)
        <5>1. n = len + 1
          BY <3>6, <4>2
        <5>2. k < further /\ longer[k + 1] = a2[n]
          BY <1>5, <1>8, <1>9, <3>5, <5>1
        <5>3. Offset(longer[k + 1]) = n
          BY <1>8, <1>12, <3>2, <3>4, <5>1
        <5>4. Offset(longer[k]) = n - 1
          BY <1>13, <1>14, <3>1, <3>2, <3>4, <5>1
        <5> QED BY <1>5, <5>2, <5>3, <5>4
      <4> QED BY <4>1, <4>2
    <3> QED BY <3>5, <3>6 DEF Recorded
  <2> QED BY <2>1, <2>2
<1>17. WatermarksOK' /\ CombinerOK' /\ \A j \in Channels : j \in idled' <=> j \in idled \/ ch'[j].idle
  BY <1>2, <1>3, CombinerStep
<1>18. ASSUME NEW j \in Channels PROVE j \in idled' <=> WasIdle(longer, l, j)
  <2>1. j \in idled' <=> WasIdle(run, k, j) \/ IdleIn(y, j)
    BY <1>12, <1>17 DEF OnRun
  <2>2. \A n \in Nat : n =< k => longer[n] = run[n]
    BY <1>5, <1>8 DEF Extends
  <2>3. \A n \in Nat : n =< l <=> (n =< k \/ n = l)
    BY <1>5, <1>9
  <2> QED BY <1>9, <2>1, <2>2, <2>3 DEF WasIdle
<1>19. Covers(longer, emitted', l)
  <2> SUFFICES ASSUME NEW j \in Channels
               PROVE  WasIdle(longer, l, j) \/ DoneIn(longer[l], j) \/ emitted' =< TimeIn(longer[l], j)
    BY DEF Covers
  <2>1. j \in idled' \/ ch'[j].exhausted \/ emitted' =< per_source'[j]
    BY <1>17 DEF CombinerOK
  <2> QED BY <1>9, <1>12, <1>18, <2>1
<1>20. PICK b \in {merged_offset, target} : Covered(longer, further, forwarded, b)
  <2>1. PICK b \in {merged_offset, target} : Covered(run, top, forwarded, b)
    BY DEF OnRun
  <2>2. Covered(longer, further, forwarded, b)
    BY <1>5, <1>8, <2>1, CoveredLonger
  <2> QED BY <2>2
<1>21. PICK f, e, g, n : f = forwarded /\ e = emitted' /\ g = forwarded' /\ n = merged_offset'
  OBVIOUS
<1>22. f \in Int /\ e \in Int /\ g \in Int /\ n \in Int /\ b \in Int
       /\ merged_offset \in Int /\ merged_offset =< n
  <2>1. Consumer'
    BY ConsumerStep
  <2> QED BY <1>14, <1>17, <1>21, <2>1 DEF Consumer, WatermarksOK
<1>23. Hands
  BY <1>2, HandsStep
<1>24. Covered(longer, further, g, n) \/ Covered(longer, further, g, b)
  <2>1. CASE g = f
    BY <1>20, <1>21, <2>1
  <2>2. CASE g = Max({f, e})
    <3>1. Covered(longer, further, f, b) /\ Covers(longer, e, l) /\ Offset(longer[l]) = n
      BY <1>9, <1>12, <1>19, <1>20, <1>21
    <3> QED BY <1>8, <1>9, <1>22, <2>2, <3>1, CoveredNext
  <2> QED BY <1>21, <1>23, <2>1, <2>2 DEF Hands
<1>25. Covered(longer, further, g, n) \/ Covered(longer, further, g, target)
  <2>1. CASE b = target
    BY <1>24, <2>1
  <2>2. CASE b = merged_offset
    <3>1. Covered(longer, further, g, b) => Covered(longer, further, g, n)
      BY <1>8, <1>22, <2>2, CoveredWider
    <3> QED BY <1>24, <3>1
  <2> QED BY <1>20, <2>1, <2>2
<1>26. \A c \in DOMAIN cuts : Covered(longer, further, cuts[c], c)
  <2> SUFFICES ASSUME NEW c \in DOMAIN cuts PROVE Covered(longer, further, cuts[c], c)
    OBVIOUS
  <2>1. Covered(run, top, cuts[c], c)
    BY DEF OnRun
  <2> QED BY <1>5, <1>8, <2>1, CoveredLonger
<1>27. ASSUME NEW c \in DOMAIN cuts' PROVE Covered(longer, further, cuts'[c], c)
  <2>1. CASE cuts' = cuts
    BY <1>26, <1>27, <2>1
  <2>2. CASE /\ ~Seeking /\ merged_offset' = merged_offset
             /\ cuts' = [m \in DOMAIN cuts \cup {merged_offset} |->
                            IF m = merged_offset THEN forwarded' ELSE cuts[m]]
    <3>1. CASE c = merged_offset
      <4>1. cuts'[c] = g /\ c = n
        BY <1>21, <2>2, <3>1
      <4>2. target =< n /\ target \in Int
        BY <1>14, <1>21, <2>2 DEF Seeking
      <4>3. Covered(longer, further, g, target) => Covered(longer, further, g, n)
        BY <1>8, <1>22, <4>2, CoveredWider
      <4> QED BY <1>25, <4>1, <4>3
    <3>2. CASE c # merged_offset
      <4>1. c \in DOMAIN cuts /\ cuts'[c] = cuts[c]
        BY <1>27, <2>2, <3>2
      <4> QED BY <1>26, <4>1
    <3> QED BY <3>1, <3>2
  <2> QED BY <1>23, <2>1, <2>2 DEF Hands
<1>28. OnRun(longer, further, l)'
  <2>1. \A j \in Channels : (j \in idled <=> WasIdle(longer, l, j))'
    BY <1>18
  <2>2. (Covered(longer, further, forwarded, merged_offset)
           \/ Covered(longer, further, forwarded, target))'
    BY <1>3, <1>21, <1>25
  <2>3. (\A c \in DOMAIN cuts : Covered(longer, further, cuts[c], c))'
    BY <1>27
  <2> QED BY <1>9, <1>10, <1>11, <1>16, <2>1, <2>2, <2>3 DEF OnRun
<1> QED BY <1>28 DEF Replayable

\* The state a merge starts from, also after ResetProgress.
LEMMA StartOnRun ==
    ASSUME NEW run, NEW top, IsRun(run, top), NEW i \in Channels
    PROVE  ~WasIdle(run, 0, i) /\ Offset(run[0]) = 0
<1>1. run[0] = Start /\ \A j \in Nat : j =< 0 => j = 0
  BY DEF IsRun
<1>2. PICK c : c = Fresh /\ c = Start[1][i]
  BY DEF Start
<1>3. ~c.idle
  BY <1>2, FreshFacts
<1>4. Offset(Start) = 0
  BY DEF Start, Offset
<1> QED BY <1>1, <1>2, <1>3, <1>4 DEF WasIdle, IdleIn

LEMMA StartCombiner ==
    ASSUME NEW chs, chs = [i \in Channels |-> Fresh],
           NEW w, w = [i \in Channels |-> NoWatermark], NEW i \in Channels
    PROVE  /\ w \in [Channels -> Int] /\ w[i] = NoWatermark /\ NoWatermark \in Int
           /\ chs[i].cursor = 0 /\ ~chs[i].idle /\ ~chs[i].exhausted
           /\ {n \in 1..chs[i].cursor : script[i][n].type = "watermark"} = {}
<1>1. PICK c : c = Fresh /\ c = chs[i]
  OBVIOUS
<1>2. c.cursor = 0 /\ ~c.idle /\ ~c.exhausted
  BY <1>1, FreshFacts
<1>3. 1..0 = {}
  OBVIOUS
<1> QED BY <1>1, <1>2, <1>3 DEF NoWatermark

LEMMA InitStream == Init => StreamInv
<1> SUFFICES ASSUME Init PROVE StreamInv
  OBVIOUS
<1>0. IInv
  BY InitInv
<1>1. /\ ch = [i \in Channels |-> Fresh] /\ per_source = [i \in Channels |-> NoWatermark]
      /\ active = [i \in Channels |-> TRUE] /\ emitted = NoWatermark /\ rr = 0 /\ merged_offset = 0
      /\ epoch_closed = 0 /\ target = 0 /\ forwarded = NoWatermark
      /\ cuts = [n \in {0} |-> NoWatermark] /\ idled = {} /\ at = << >>
  BY DEF Init
<1>2. \A i \in Channels : /\ per_source \in [Channels -> Int] /\ per_source[i] = NoWatermark
                          /\ ch[i].cursor = 0 /\ ~ch[i].idle /\ ~ch[i].exhausted
                          /\ Watermark(i) = {}
  BY <1>1, StartCombiner DEF Watermark
<1>3. NoWatermark \in Int /\ 0 \in Channels
  BY ChannelFacts DEF NoWatermark
<1>4. WatermarksOK
  BY <1>1, <1>2, <1>3 DEF WatermarksOK, Declared
<1>5. CombinerOK
  BY <1>1, <1>2, <1>3 DEF CombinerOK
<1>6. Consumer
  <2>1. at \in Seq({}) /\ Len(at) = 0
    BY <1>1
  <2> QED BY <1>1, <1>3, <2>1 DEF Consumer
<1>7. PICK run : run = [j \in {0} |-> Start]
  OBVIOUS
<1>8. run[0] = Start /\ \A j \in Nat : (j =< 0 => j = 0) /\ ~(j < 0)
  BY <1>7
<1>9. IsRun(run, 0)
  <2>1. Offset(Start) = 0 /\ \A i \in Channels : TimeIn(Start, i) = NoWatermark
    BY DEF Start, Offset, TimeIn
  <2>2. Numbers(Start)
    BY <1>3, <2>1 DEF Numbers
  <2> QED BY <1>8, <2>2 DEF IsRun
<1>10. merge = run[0]
  BY <1>1, <1>8 DEF Start, merge, combiner
<1>11. Recorded(run, 0)
  BY <1>1 DEF Recorded
<1>12. \A i \in Channels : i \in idled <=> WasIdle(run, 0, i)
  BY <1>1, <1>9, StartOnRun
<1>13. Covered(run, 0, NoWatermark, 0)
  <2>1. Offset(run[0]) = 0 /\ \A i \in Channels : TimeIn(run[0], i) = NoWatermark
    BY <1>8 DEF Start, Offset, TimeIn
  <2>2. Covers(run, NoWatermark, 0)
    BY <1>3, <2>1 DEF Covers
  <2> QED BY <2>1, <2>2 DEF Covered
<1>14. OnRun(run, 0, 0)
  BY <1>1, <1>9, <1>10, <1>11, <1>12, <1>13 DEF OnRun
<1> QED BY <1>0, <1>4, <1>5, <1>6, <1>14 DEF StreamInv, Replayable

LEMMA SeekStream == StreamInv /\ Seek => StreamInv'
<1> SUFFICES ASSUME StreamInv, Seek PROVE StreamInv'
  OBVIOUS
<1>0. IInv'
  BY SeekInv DEF StreamInv
<1>1. PICK n \in DOMAIN cuts : target' = n /\ forwarded' = cuts[n]
  BY DEF Seek
<1>2. /\ ~live /\ live' = live /\ script' = script /\ spans' = spans
      /\ idled' = {} /\ cuts' = cuts /\ at' = at
      /\ ch' = [i \in Channels |-> Fresh] /\ per_source' = [i \in Channels |-> NoWatermark]
      /\ active' = [i \in Channels |-> TRUE] /\ emitted' = NoWatermark /\ rr' = 0
      /\ merged_offset' = 0 /\ epoch_closed' = 0
  BY DEF Seek, ResetProgress, config
<1>3. PICK chs, w : chs = ch' /\ w = per_source'
  OBVIOUS
<1>4. \A i \in Channels : /\ w \in [Channels -> Int] /\ w[i] = NoWatermark
                          /\ chs[i].cursor = 0 /\ ~chs[i].idle /\ ~chs[i].exhausted
                          /\ {k \in 1..chs[i].cursor : script[i][k].type = "watermark"} = {}
  BY <1>2, <1>3, StartCombiner
<1>5. \A i \in Channels : Watermark(i)' = {}
  BY <1>2, <1>3, <1>4 DEF Watermark
<1>6. NoWatermark \in Int /\ 0 \in Channels /\ NoWatermark' = NoWatermark /\ 0 \in Nat
  BY ChannelFacts DEF NoWatermark
<1>7. WatermarksOK'
  BY <1>2, <1>3, <1>4, <1>5, <1>6 DEF WatermarksOK, Declared
<1>8. CombinerOK'
  BY <1>2, <1>3, <1>4, <1>6 DEF CombinerOK
<1>9. /\ n \in Nat /\ cuts[n] \in Int /\ cuts[n] >= NoWatermark
      /\ \A m \in DOMAIN cuts : m \in Nat /\ cuts[m] \in Int /\ cuts[m] >= NoWatermark
      /\ \E S : at \in Seq(S)
  BY <1>1 DEF StreamInv, Consumer
<1>10. Len(at) \in Nat /\ 0 =< Len(at)
  <2>1. PICK S : at \in Seq(S)
    BY <1>9
  <2>2. Len(at) \in Nat
    BY <2>1, LenProperties
  <2> QED BY <2>2
<1>11. Consumer'
  BY <1>1, <1>2, <1>6, <1>9, <1>10 DEF Consumer
<1>12. PICK run, top, k : OnRun(run, top, k)
  BY <1>2 DEF StreamInv, Replayable
<1>13. IsRun(run, top) /\ IsRun(run, top)' /\ top \in Nat /\ run[0] = Start
  BY <1>2, <1>12, SameRun DEF OnRun, IsRun
<1>14. merge' = run[0]
  BY <1>2, <1>13 DEF Start, merge, combiner
<1>15. Recorded(run, top)'
  BY <1>2, <1>12 DEF OnRun, Recorded
<1>16. \A i \in Channels : i \in idled' <=> WasIdle(run, 0, i)
  BY <1>2, <1>13, StartOnRun
<1>17. \A m \in DOMAIN cuts : Covered(run, top, cuts[m], m)
  BY <1>12 DEF OnRun
<1>18. Covered(run, top, forwarded', target')
  BY <1>1, <1>17
<1>19. OnRun(run, top, 0)'
  BY <1>2, <1>13, <1>14, <1>15, <1>16, <1>17, <1>18 DEF OnRun
<1> QED BY <1>0, <1>7, <1>8, <1>11, <1>19 DEF StreamInv, Replayable

\* A step that leaves the merge and its consumer alone.
LEMMA StillStream ==
    ASSUME StreamInv, IInv', UNCHANGED <<config, merge, target, forwarded, cuts, idled, at>>
    PROVE  StreamInv'
<1>1. /\ live' = live /\ script' = script /\ spans' = spans /\ ch' = ch
      /\ per_source' = per_source /\ active' = active /\ emitted' = emitted /\ rr' = rr
      /\ merged_offset' = merged_offset /\ target' = target /\ forwarded' = forwarded
      /\ cuts' = cuts /\ idled' = idled /\ at' = at /\ merge' = merge
  BY DEF config, merge, combiner
<1>2. WatermarksOK'
  BY <1>1 DEF StreamInv, WatermarksOK, Declared, Watermark
<1>3. CombinerOK'
  BY <1>1 DEF StreamInv, CombinerOK
<1>4. Consumer'
  BY <1>1 DEF StreamInv, Consumer
<1>5. Replayable'
  <2> SUFFICES ASSUME ~live PROVE \E run, top, k : OnRun(run, top, k)'
    BY <1>1 DEF Replayable
  <2>1. PICK run, top, k : OnRun(run, top, k)
    BY DEF StreamInv, Replayable
  <2>2. IsRun(run, top)'
    BY <1>1, <2>1, SameRun DEF OnRun
  <2>3. Recorded(run, top)'
    BY <1>1, <2>1 DEF OnRun, Recorded
  <2>4. OnRun(run, top, k)'
    BY <1>1, <2>1, <2>2, <2>3 DEF OnRun
  <2> QED BY <2>4
<1> QED BY <1>2, <1>3, <1>4, <1>5 DEF StreamInv

LEMMA NextStream == StreamInv /\ [Next]_vars => StreamInv'
<1> SUFFICES ASSUME StreamInv, [Next]_vars PROVE StreamInv'
  OBVIOUS
<1>0. IInv'
  BY NextInv DEF StreamInv
<1>1. CASE UNCHANGED vars
  BY <1>0, <1>1, StillStream DEF vars
<1>2. CASE ReturnNullopt
  BY <1>0, <1>2, StillStream DEF ReturnNullopt
<1>3. CASE Seek
  BY <1>3, SeekStream
<1>4. CASE ProduceOneMergedStep
  <2>1. WatermarksOK' /\ CombinerOK' /\ Consumer'
    BY <1>4, ConsumerStep DEF StreamInv
  <2>2. Replayable'
    <3>1. CASE live
      <4>1. live' = live
        BY <1>4, MergeMoves DEF StreamInv, IInv
      <4> QED BY <3>1, <4>1 DEF Replayable
    <3>2. CASE ~live
      <4>1. PICK run, top, k : OnRun(run, top, k)
        BY <3>2 DEF StreamInv, Replayable
      <4> QED BY <1>4, <3>2, <4>1, RunStep DEF StreamInv
    <3> QED BY <3>1, <3>2
  <2> QED BY <1>0, <2>1, <2>2 DEF StreamInv
<1> QED BY <1>1, <1>2, <1>3, <1>4 DEF Next

(***************************************************************************)
(* Every state a replayable merge reaches, in whatever incarnation, is one *)
(* of the single run its scripts and idle spans determine, and what the    *)
(* consumer's checkpoints hold is covered by the states of that run.       *)
(***************************************************************************)
THEOREM StreamInvariance == Spec => []StreamInv
  BY InitStream, NextStream, PTL DEF Spec

(***************************************************************************)
(* The types of the merge's variables (TypeOK): a channel is out of the    *)
(* combiner's minimum exactly while it is idle or exhausted, and is never  *)
(* more than one barrier ahead of the closed epochs.                       *)
(***************************************************************************)
THEOREM TypeTheorem == Spec => []TypeOK
<1>1. StreamInv => TypeOK
  <2> SUFFICES ASSUME StreamInv PROVE TypeOK
    OBVIOUS
  <2>1. /\ rr \in Channels /\ merged_offset \in Nat /\ target \in Nat
        /\ forwarded >= NoWatermark /\ emitted >= NoWatermark
    BY DEF StreamInv, Consumer, WatermarksOK
  <2>2. epoch_closed \in Nat /\ ended \in BOOLEAN /\ Alignment(ch, epoch_closed)
    BY DEF StreamInv, IInv, Delivery
  <2>3. ASSUME NEW i \in Channels
        PROVE  /\ ch[i].cursor \in 0..Len(script[i]) /\ ch[i].gap_remaining \in Nat
               /\ ch[i].barriers_seen =< epoch_closed + 1
    <3>1. Len(script[i]) \in Nat
      BY ScriptFacts DEF StreamInv, IInv
    <3>2. ch[i].cursor \in Nat /\ ch[i].cursor =< Len(script[i]) /\ ch[i].gap_remaining \in Nat
      BY DEF StreamInv, IInv, ChannelsOK, ChannelOK
    <3>3. ch[i].barriers_seen =< epoch_closed + 1
      BY <2>2 DEF Alignment
    <3> QED BY <3>1, <3>2, <3>3
  <2>4. \A i \in Channels : active[i] <=> ~(ch[i].idle \/ ch[i].exhausted)
    BY DEF StreamInv, CombinerOK
  <2> QED BY <2>1, <2>2, <2>3, <2>4 DEF TypeOK
<1> QED BY <1>1, StreamInvariance, PTL

\* A step that delivers a record is a step of the merge.
LEMMA RecordIsMerge ==
    ASSUME StreamInv, [Next]_vars, merged_offset' = merged_offset + 1
    PROVE  ProduceOneMergedStep /\ Remember(merged_offset')
<1>1. merged_offset \in Nat /\ rr \in Channels
  BY DEF StreamInv, Consumer
<1>2. ProduceOneMergedStep
  <2> SUFFICES ASSUME ~ProduceOneMergedStep PROVE FALSE
    OBVIOUS
  <2>1. merged_offset' = merged_offset \/ merged_offset' = 0
    BY DEF Next, ReturnNullopt, Seek, ResetProgress, vars, merge
  <2> QED BY <1>1, <2>1
<1>3. Remember(merged_offset')
  BY <1>1, <1>2, StepFacts
<1> QED BY <1>2, <1>3

(***************************************************************************)
(* Replaying is exact (SeekExact): when a replayable merge delivers a      *)
(* record for the second time, its channels, combiner, turn and epochs are *)
(* those of the first time, after any number of seeks to any cuts.         *)
(***************************************************************************)
THEOREM SeekTheorem == Spec => SeekExact
<1>1. StreamInv /\ [Next]_vars =>
         [merged_offset' = merged_offset + 1 /\ ~live => merge' = at'[merged_offset']]_vars
  <2> SUFFICES ASSUME StreamInv, [Next]_vars, merged_offset' = merged_offset + 1, ~live
               PROVE  merge' = at'[merged_offset']
    OBVIOUS
  <2>1. ProduceOneMergedStep /\ Remember(merged_offset')
    BY RecordIsMerge
  <2>2. PICK y : y = merge'
    OBVIOUS
  <2>3. PICK S : at \in Seq(S)
    BY DEF StreamInv, Consumer
  <2>4. PICK m \in Nat : m = merged_offset /\ m =< Len(at) /\ Len(at) \in Nat
    BY <2>3, LenProperties DEF StreamInv, Consumer
  <2>5. CASE m + 1 = Len(at) + 1
    <3>1. at' = Append(at, y)
      BY <2>1, <2>2, <2>4, <2>5 DEF Remember
    <3>2. at \in Seq(S \cup {y})
      BY <2>3, LenProperties, ElementOfSeq, SeqDef
    <3>3. Append(at, y)[Len(at) + 1] = y
      BY <3>2, AppendProperties
    <3> QED BY <2>2, <2>4, <2>5, <3>1, <3>3
  <2>6. CASE m + 1 # Len(at) + 1
    <3>1. at' = at /\ m + 1 =< Len(at) /\ m + 1 \in Nat /\ m + 1 >= 1
      BY <2>1, <2>4, <2>6 DEF Remember
    <3>2. PICK run, top, k : OnRun(run, top, k)
      BY DEF StreamInv, Replayable
    <3>3. IsRun(run, top) /\ k \in Nat /\ k =< top /\ merge = run[k] /\ top \in Nat
      BY <3>2 DEF OnRun, IsRun
    <3>4. PICK n \in Nat : n = m + 1
      OBVIOUS
    <3>5. PICK j \in Nat : /\ j < top /\ run[j + 1] = at[n]
                           /\ Offset(run[j]) = n - 1 /\ Offset(run[j + 1]) = n
      BY <3>1, <3>2, <3>4 DEF OnRun, Recorded
    <3>6. y = Stepped(run[k])
      BY <2>1, <2>2, <3>3, Deterministic DEF StreamInv, IInv, Consumer
    <3>7. Offset(run[k]) = m
      <4>1. PICK x : x = merge /\ x = run[k]
        BY <3>3
      <4> QED BY <2>4, <4>1, Parts
    <3>8. Offset(y) = n
      <4>1. Offset(y) = merged_offset'
        BY <2>2, PartsAfter
      <4> QED BY <2>4, <3>4, <4>1
    <3>9. k =< j
      <4> SUFFICES ASSUME ~(k =< j) PROVE FALSE
        OBVIOUS
      <4>1. j + 1 \in Nat /\ j + 1 =< k
        BY <3>3
      <4>2. Before(run[j + 1], run[k])
        BY <3>3, <4>1, Monotone
      <4>3. n =< m
        BY <3>5, <3>7, <4>2 DEF Before
      <4> QED BY <3>4, <4>3
    <3>10. j =< k
      <4> SUFFICES ASSUME ~(j =< k) PROVE FALSE
        OBVIOUS
      <4>1. k + 1 \in Nat /\ k + 1 =< j /\ k < top /\ j =< top
        BY <3>3, <3>5
      <4>2. run[k + 1] = y
        BY <3>3, <3>6, <4>1 DEF IsRun
      <4>3. Before(run[k + 1], run[j])
        BY <3>3, <4>1, Monotone
      <4>4. n =< n - 1
        BY <3>5, <3>8, <4>2, <4>3 DEF Before
      <4> QED BY <4>4
    <3>11. j = k
      BY <3>3, <3>9, <3>10
    <3>12. run[j + 1] = Stepped(run[k])
      BY <3>3, <3>5, <3>11 DEF IsRun
    <3> QED BY <2>2, <2>4, <3>1, <3>4, <3>5, <3>6, <3>12
  <2> QED BY <2>5, <2>6
<1> QED BY <1>1, StreamInvariance, PTL DEF Spec, SeekExact

\* The greatest watermark a channel declared is its watermark in the combiner.
LEMMA DeclaredIs ==
    ASSUME WatermarksOK, NEW i \in Channels
    PROVE  Max(Watermark(i) \cup {NoWatermark}) = per_source[i]
<1>1. PICK T, p, w : T = Watermark(i) /\ p = per_source[i] /\ w = NoWatermark
  OBVIOUS
<1>2. /\ p \in Int /\ w \in Int /\ p >= w /\ (p = w \/ p \in T)
      /\ \A t \in T : t \in Int /\ t =< p
  BY <1>1 DEF WatermarksOK, Declared, NoWatermark
<1>3. T \cup {w} \subseteq Int /\ p \in T \cup {w} /\ \A t \in T \cup {w} : t =< p
  BY <1>2
<1>4. Max(T \cup {w}) = p
  BY <1>3, MaxIs
<1> QED BY <1>1, <1>4

(***************************************************************************)
(* The merge makes no record late (NoSpuriousLateness): when a consumer    *)
(* that is not being fast-forwarded gets a record of a channel that has    *)
(* not been idle, its watermark is one that channel has declared, also     *)
(* when it was restored from a checkpoint and the merge replayed.          *)
(***************************************************************************)
THEOREM LatenessTheorem == Spec => NoSpuriousLateness
<1>1. StreamInv /\ [Next]_vars =>
         [\A i \in Channels :
             merged_offset' = merged_offset + 1 /\ ~Seeking /\ i \notin idled
                 /\ ch'[i].data_pulled = ch[i].data_pulled + 1
             => forwarded =< Max(Watermark(i) \cup {NoWatermark})]_vars
  <2> SUFFICES ASSUME StreamInv, [Next]_vars, NEW i \in Channels,
                      merged_offset' = merged_offset + 1, ~Seeking, i \notin idled,
                      ch'[i].data_pulled = ch[i].data_pulled + 1
               PROVE  forwarded =< Max(Watermark(i) \cup {NoWatermark})
    OBVIOUS
  <2>1. ProduceOneMergedStep
    BY RecordIsMerge
  <2>2. PICK s \in Channels : \E v : Becomes(s, v) /\ Steps(s, v)
    BY <2>1, MergeMoves DEF StreamInv, IInv
  <2>3. PICK v : Becomes(s, v) /\ Steps(s, v)
    BY <2>2
  <2>4. ~ch[s].exhausted /\ \A j \in Channels : j # s => ch'[j] = ch[j]
    <3>1. script' = script
      BY <2>1, MergeMoves DEF StreamInv, IInv
    <3> QED BY <2>3, <3>1, BecomesFacts DEF StreamInv, IInv
  <2>5. ch[i].data_pulled \in Nat
    BY DEF StreamInv, IInv, ChannelsOK, ChannelOK
  <2>6. i = s
    BY <2>4, <2>5
  <2>7. ~ch[i].exhausted
    BY <2>4, <2>6
  <2>8. Max(Watermark(i) \cup {NoWatermark}) = per_source[i]
    BY DeclaredIs DEF StreamInv
  <2>9. forwarded \in Int /\ emitted \in Int /\ per_source[i] \in Int /\ merged_offset \in Nat
        /\ target \in Nat
    BY DEF StreamInv, Consumer, WatermarksOK
  <2>10. CASE live
    <3>1. forwarded =< emitted
      BY <2>10 DEF StreamInv, Consumer
    <3>2. emitted =< per_source[i]
      BY <2>7 DEF StreamInv, CombinerOK
    <3> QED BY <2>8, <2>9, <3>1, <3>2
  <2>11. CASE ~live
    <3>1. PICK run, top, k : OnRun(run, top, k)
      BY <2>11 DEF StreamInv, Replayable
    <3>2. IsRun(run, top) /\ k \in Nat /\ k =< top /\ merge = run[k] /\ top \in Nat
      BY <3>1 DEF OnRun, IsRun
    <3>3. PICK x : x = merge /\ x = run[k]
      BY <3>2
    <3>4. Offset(x) = merged_offset /\ DoneIn(x, i) = ch[i].exhausted /\ TimeIn(x, i) = per_source[i]
      BY <3>3, Parts
    <3>5. PICK b \in {merged_offset, target} : Covered(run, top, forwarded, b)
      BY <3>1 DEF OnRun
    <3>6. b =< merged_offset /\ b \in Nat
      BY <2>9, <3>5 DEF Seeking
    <3>7. PICK j \in Nat : j =< top /\ Offset(run[j]) =< b /\ Covers(run, forwarded, j)
      BY <3>5 DEF Covered
    <3>8. j =< k
      <4> SUFFICES ASSUME ~(j =< k) PROVE FALSE
        OBVIOUS
      <4>1. k + 1 \in Nat /\ k + 1 =< j /\ k < top
        BY <3>2, <3>7
      <4>2. PICK y : y = merge'
        OBVIOUS
      <4>3. y = Stepped(run[k])
        BY <2>1, <2>11, <3>2, <4>2, Deterministic DEF StreamInv, IInv, Consumer
      <4>4. run[k + 1] = y
        BY <3>2, <4>1, <4>3 DEF IsRun
      <4>5. Offset(y) = merged_offset + 1
        BY <4>2, PartsAfter
      <4>6. Before(run[k + 1], run[j]) /\ Numbers(run[j])
        BY <3>2, <3>7, <4>1, Monotone
      <4>7. merged_offset + 1 =< Offset(run[j]) /\ Offset(run[j]) \in Nat
        BY <4>4, <4>5, <4>6 DEF Before, Numbers
      <4> QED BY <2>9, <3>6, <3>7, <4>7
    <3>9. Covers(run, forwarded, k)
      BY <2>9, <3>2, <3>7, <3>8, CoversLater
    <3>10. ~WasIdle(run, k, i)
      BY <3>1 DEF OnRun
    <3>11. forwarded =< TimeIn(run[k], i)
      BY <2>7, <3>3, <3>4, <3>9, <3>10 DEF Covers
    <3> QED BY <2>8, <3>3, <3>4, <3>11
  <2> QED BY <2>10, <2>11
<1> QED BY <1>1, StreamInvariance, PTL DEF Spec, NoSpuriousLateness
=============================================================================
