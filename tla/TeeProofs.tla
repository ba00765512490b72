----------------------------- MODULE TeeProofs ------------------------------
(***************************************************************************)
(* Proofs about TeeStream and CacheHit, for any bodies, caps and depth of  *)
(* the channel: the tee keeps TeePromise, alone and with a get beside it,  *)
(* stores whole bodies within its caps or none, holds in memory no more    *)
(* than it may, runs ahead of its reader by no more than the channel, and  *)
(* a hit delivers the whole body or is known to be cut.                    *)
(***************************************************************************)
EXTENDS CacheHit, SumsProofs

USE TeeAssumption
USE DEF vars, input, sinks, out, stored

-----------------------------------------------------------------------------
(* Frames and their bytes.                                                 *)

\* The data of one frame more, and of none.
LEMMA DataUnrolls ==
    ASSUME frames \in Seq(Nat)
    PROVE  /\ Data[0] = <<>>
           /\ \A n \in 0 .. Len(frames) : Data[n] \in Seq(1 .. Len(frames))
           /\ \A n \in 1 .. Len(frames) :
                 Data[n] = IF IsData(n) THEN Append(Data[n - 1], n) ELSE Data[n - 1]
<1> DEFINE m == Len(frames)
           S == Seq(1 .. m)
           Fits(f) == f = [n \in 0 .. m |->
                             IF n = 0 THEN <<>>
                             ELSE IF IsData(n) THEN Append(f[n - 1], n) ELSE f[n - 1]]
           d == [n \in Nat |-> [s \in S |-> IF n \in 1 .. m /\ IsData(n) THEN Append(s, n) ELSE s]]
<1>1. m \in Nat
  OBVIOUS
<1> HIDE DEF m
<1>2. <<>> \in S /\ \A n \in 1 .. m, s \in S : Append(s, n) \in S
  OBVIOUS
<1> HIDE DEF S
<1>3. PICK g \in [Nat -> S] : Solves(g, <<>>, d)
  <2>1. d \in [Nat -> [S -> S]]
    BY <1>2
  <2> HIDE DEF d
  <2> QED
    BY <1>2, <2>1, Recursion, Zenon
<1>4. \A n \in 1 .. m : g[n] = IF IsData(n) THEN Append(g[n - 1], n) ELSE g[n - 1]
  <2> SUFFICES ASSUME NEW n \in 1 .. m
               PROVE  g[n] = IF IsData(n) THEN Append(g[n - 1], n) ELSE g[n - 1]
    OBVIOUS
  <2>1. n \in Nat \ {0} /\ n - 1 \in Nat
    BY <1>1
  <2>2. g[n] = d[n][g[n - 1]] /\ g[n - 1] \in S /\ n \in Nat
    BY <1>3, <2>1 DEF Solves
  <2> QED
    BY <2>2
<1>5. Fits([n \in 0 .. m |-> g[n]])
  <2> DEFINE h == [n \in 0 .. m |-> g[n]]
  <2>1. ASSUME NEW n \in 0 .. m
        PROVE  h[n] = IF n = 0 THEN <<>>
                      ELSE IF IsData(n) THEN Append(h[n - 1], n) ELSE h[n - 1]
    <3>1. CASE n = 0
      BY <1>1, <1>3, <3>1 DEF Solves
    <3>2. CASE n # 0
      <4>1. n \in 1 .. m /\ n - 1 \in 0 .. m
        BY <1>1, <3>2
      <4>2. h[n] = g[n] /\ h[n - 1] = g[n - 1]
        BY <4>1
      <4> HIDE DEF h
      <4> QED
        BY <1>4, <3>2, <4>1, <4>2
    <3> QED
      BY <3>1, <3>2
  <2>2. h = [n \in 0 .. m |-> h[n]]
    OBVIOUS
  <2> HIDE DEF h
  <2>3. Fits(h)
    BY <2>1, <2>2, Zenon
  <2> QED
    BY <2>3 DEF h
<1>6. Fits(Data)
  <2>1. Data = CHOOSE f : Fits(f)
    BY DEF Data, m
  <2> HIDE DEF Fits
  <2> QED
    BY <1>5, <2>1
<1>7. Data[0] = <<>>
  BY <1>1, <1>6
<1>8. ASSUME NEW n \in 1 .. m
      PROVE  Data[n] = IF IsData(n) THEN Append(Data[n - 1], n) ELSE Data[n - 1]
  <2>1. n \in 0 .. m /\ n # 0
    BY <1>1
  <2> QED
    BY <1>6, <2>1, Zenon
<1>9. \A n \in 0 .. m : Data[n] \in S
  <2> DEFINE T == {n \in Nat : Data[n] \in S}
  <2>1. 0 \in T
    BY <1>2, <1>7
  <2>2. \A n \in 1 .. m : n - 1 \in T => n \in T
    BY <1>1, <1>2, <1>8
  <2> HIDE DEF T
  <2>3. 0 .. m \subseteq T
    BY <1>1, <2>1, <2>2, InductionUpTo
  <2> QED
    BY <2>3 DEF T
<1> QED
  BY <1>7, <1>8, <1>9 DEF m, S

\* The bytes of no frame, and of one more.
LEMMA LengthAppend ==
    ASSUME frames \in Seq(Nat), NEW s \in Seq(1 .. Len(frames)), NEW f \in 1 .. Len(frames)
    PROVE  Length(Append(s, f)) = Length(s) + frames[f]
<1> DEFINE sizes(t) == [i \in DOMAIN t |-> frames[t[i]]]
<1>1. sizes(s) \in Seq(Nat) /\ frames[f] \in Nat
  OBVIOUS
<1>2. sizes(Append(s, f)) = Append(sizes(s), frames[f])
  OBVIOUS
<1> HIDE DEF sizes
<1>3. Total(sizes(Append(s, f))) = Total(sizes(s)) + frames[f]
  BY <1>1, <1>2, TotalAppend
<1> QED
  BY <1>3 DEF Length, sizes

LEMMA LengthTyped ==
    ASSUME frames \in Seq(Nat), NEW s \in Seq(1 .. Len(frames))
    PROVE  Length(s) \in Nat /\ (s = <<>> => Length(s) = 0)
<1> DEFINE sizes == [i \in DOMAIN s |-> frames[s[i]]]
<1>1. sizes \in Seq(Nat) /\ (s = <<>> => sizes = <<>>)
  OBVIOUS
<1> HIDE DEF sizes
<1>2. Total(sizes) \in Nat /\ (s = <<>> => Total(sizes) = 0)
  BY <1>1, TotalTyped
<1> QED
  BY <1>2 DEF Length, sizes

-----------------------------------------------------------------------------
(* The invariant.                                                          *)

Ending == {"commit", "reinsert", "remember", "evict"}
\* The last of the channel is the upstream's error.
Broken == channel # <<>> /\ channel[Len(channel)] = Error

FramesInv ==
    /\ task \in Places
    /\ frames \in Seq(Nat) /\ pulled \in 0 .. Len(frames)
    /\ channel \in Seq(Nat) /\ heard \in Seq(Nat)
    /\ task = "send" => pulled > 0
    /\ task \in Ending => pulled = Len(frames)

\* Who can still hear something: a reader that left has no channel, and an end is
\* heard of a task that is gone.
ReaderInv ==
    /\ end \in {"open", "eof", "err", "left"} /\ reader \in {"held", "dropped"}
    /\ reader = "dropped" => channel = <<>> /\ end = "left"
    /\ reader = "held" => end # "left"
    /\ end = "eof" => task = "gone"
    /\ end = "err" => task = "gone" /\ entry = "none"

\* An error comes last, from a task that is gone and has published nothing.
ErrorInv ==
    \A i \in 1 .. Len(channel) :
        channel[i] = Error => i = Len(channel) /\ task = "gone" /\ entry = "none"

\* What was taken off the upstream was heard, or is in the channel, or in the hand of
\* the task; a task ends with the body, or with its error.
CountInv ==
    reader = "held" /\ end = "open" =>
        /\ Len(channel) <= Depth
        /\ Len(heard) + Len(channel) + (IF task = "send" THEN 1 ELSE 0)
           = pulled + (IF Broken THEN 1 ELSE 0)
        /\ task = "gone" => pulled = Len(frames) \/ Broken

\* How far the entry is.
EntryInv ==
    /\ entry \in {"none", "unsized", "sized"}
    /\ task \in {"open", "pull", "send", "fail", "write", "commit"} => entry = "none"
    /\ task = "reinsert" => entry = "unsized"

TeeInv == FramesInv /\ ReaderInv /\ ErrorInv /\ CountInv /\ EntryInv

-----------------------------------------------------------------------------
(* Every step keeps it.                                                    *)

\* A frame taken off the upstream is in the task's hand.
LEMMA PullKeepsInv ==
    ASSUME TeeInv, task = "pull", task' = "send", pulled < Len(frames), pulled' = pulled + 1,
           UNCHANGED <<frames, out, entry>>
    PROVE  TeeInv'
<1> USE DEF TeeInv
<1>1. FramesInv'
  BY DEF FramesInv, Places, Ending
<1>2. ReaderInv'
  BY DEF ReaderInv
<1>3. (\A i \in 1 .. Len(channel) : channel[i] # Error) /\ ErrorInv'
  BY DEF ErrorInv
<1>4. ~Broken /\ ~Broken'
  BY <1>3 DEF FramesInv, Broken
<1>5. CountInv'
  BY <1>4 DEF CountInv, FramesInv
<1>6. EntryInv'
  BY DEF EntryInv
<1> QED
  BY <1>1, <1>2, <1>3, <1>5, <1>6

\* The frame in the task's hand goes into the channel.
LEMMA SendKeepsInv ==
    ASSUME TeeInv, Send
    PROVE  TeeInv'
<1> USE DEF TeeInv
<1>1. /\ task = "send" /\ task' \in {"write", "pull"}
      /\ reader = "held" /\ Len(channel) < Depth
      /\ channel' = Append(channel, pulled)
      /\ UNCHANGED <<frames, pulled, reader, heard, end, entry>>
  BY DEF Send, Task
<1>2. channel \in Seq(Nat) /\ pulled \in Nat /\ pulled > 0 /\ Error = 0
  BY <1>1 DEF FramesInv, Error
<1>3. /\ channel' \in Seq(Nat) /\ Len(channel') = Len(channel) + 1
      /\ channel'[Len(channel) + 1] = pulled
      /\ \A i \in 1 .. Len(channel) : channel'[i] = channel[i]
  BY <1>1, <1>2
<1>4. \A i \in 1 .. Len(channel) : channel[i] # Error
  BY <1>1 DEF ErrorInv
<1>5. ~Broken
  BY <1>2, <1>4 DEF Broken
<1>6. \A i \in 1 .. Len(channel') : channel'[i] # Error
  <2> SUFFICES ASSUME NEW i \in 1 .. Len(channel') PROVE channel'[i] # Error
    OBVIOUS
  <2>1. CASE i = Len(channel) + 1
    BY <1>2, <1>3, <2>1
  <2>2. CASE i # Len(channel) + 1
    <3>1. i \in 1 .. Len(channel)
      BY <1>2, <1>3, <2>2
    <3> QED
      BY <1>3, <1>4, <3>1
  <2> QED
    BY <2>1, <2>2
<1>7. ~Broken'
  BY <1>3, <1>6 DEF Broken
<1>8. FramesInv'
  BY <1>1, <1>3 DEF FramesInv, Places, Ending
<1>9. ReaderInv'
  BY <1>1 DEF ReaderInv
<1>10. ErrorInv'
  BY <1>6 DEF ErrorInv
<1>11. CountInv'
  <2> SUFFICES ASSUME reader' = "held", end' = "open"
               PROVE  /\ Len(channel') <= Depth
                      /\ Len(heard) + Len(channel') = pulled
    BY <1>1, <1>2, <1>7 DEF CountInv
  <2>1. Len(heard) + Len(channel) + 1 = pulled + 0
    BY <1>1, <1>5 DEF CountInv
  <2>2. Len(heard) \in Nat /\ Len(channel) \in Nat /\ Depth \in Nat
    BY <1>2 DEF FramesInv
  <2> QED
    BY <1>1, <1>2, <1>3, <2>1, <2>2
<1>12. EntryInv'
  BY <1>1 DEF EntryInv
<1> QED
  BY <1>8, <1>9, <1>10, <1>11, <1>12

\* The upstream's error goes into the channel behind everything else.
LEMMA SendErrorKeepsInv ==
    ASSUME TeeInv, SendError
    PROVE  TeeInv'
<1> USE DEF TeeInv
<1>1. /\ task = "fail" /\ task' = "gone" /\ reader = "held" /\ Len(channel) < Depth
      /\ channel' = Append(channel, Error)
      /\ UNCHANGED <<frames, pulled, reader, heard, end, entry>>
  BY DEF SendError, Task
<1>2. channel \in Seq(Nat) /\ Error \in Nat
  BY DEF FramesInv, Error
<1>3. /\ channel' \in Seq(Nat) /\ Len(channel') = Len(channel) + 1
      /\ channel'[Len(channel) + 1] = Error
      /\ \A i \in 1 .. Len(channel) : channel'[i] = channel[i]
  BY <1>1, <1>2
<1>4. \A i \in 1 .. Len(channel) : channel[i] # Error
  BY <1>1 DEF ErrorInv
<1>5. ~Broken
  BY <1>2, <1>4 DEF Broken
<1>6. Broken'
  BY <1>2, <1>3 DEF Broken
<1>7. FramesInv'
  BY <1>1, <1>3 DEF FramesInv, Places, Ending
<1>8. ReaderInv'
  BY <1>1 DEF ReaderInv
<1>9. entry = "none"
  BY <1>1 DEF EntryInv
<1>10. ErrorInv'
  BY <1>1, <1>2, <1>3, <1>4, <1>9 DEF ErrorInv
<1>11. CountInv'
  <2> SUFFICES ASSUME reader' = "held", end' = "open"
               PROVE  /\ Len(channel') <= Depth
                      /\ Len(heard) + Len(channel') = pulled + 1
    BY <1>1, <1>6 DEF CountInv
  <2>1. Len(heard) + Len(channel) = pulled
    <3>1. Len(heard) + Len(channel) + 0 = pulled + 0
      BY <1>1, <1>5 DEF CountInv
    <3> QED
      BY <3>1 DEF FramesInv
  <2>2. Len(heard) \in Nat /\ Len(channel) \in Nat /\ Depth \in Nat
    BY <1>2 DEF FramesInv
  <2> QED
    BY <1>1, <1>3, <2>1, <2>2
<1>12. EntryInv'
  BY <1>1, <1>9 DEF EntryInv
<1> QED
  BY <1>7, <1>8, <1>10, <1>11, <1>12

\* What is received was sent first.
LEMMA ReceiveKeepsInv ==
    ASSUME TeeInv, Receive
    PROVE  TeeInv'
<1> USE DEF TeeInv
<1>1. /\ reader = "held" /\ end = "open" /\ channel # <<>>
      /\ channel' = Tail(channel)
      /\ UNCHANGED <<task, frames, pulled, reader, entry>>
  BY DEF Receive
<1>2. channel \in Seq(Nat) /\ heard \in Seq(Nat) /\ Len(channel) > 0
  BY <1>1 DEF FramesInv
<1>3. /\ channel' \in Seq(Nat) /\ Len(channel') = Len(channel) - 1
      /\ Head(channel) = channel[1] /\ Head(channel) \in Nat
      /\ \A i \in 1 .. Len(channel') : channel'[i] = channel[i + 1]
  BY <1>1, <1>2
<1>4. CASE Head(channel) = Error
  <2>1. end' = "err" /\ heard' = heard
    BY <1>4 DEF Receive
  <2>2. Len(channel) = 1 /\ task = "gone" /\ entry = "none"
    BY <1>2, <1>3, <1>4 DEF ErrorInv
  <2>3. FramesInv'
    BY <1>1, <1>3, <2>1 DEF FramesInv
  <2>4. ReaderInv'
    BY <1>1, <2>1, <2>2 DEF ReaderInv
  <2>5. ErrorInv'
    BY <1>3, <2>2 DEF ErrorInv
  <2>6. CountInv'
    BY <2>1 DEF CountInv
  <2>7. EntryInv'
    BY <1>1 DEF EntryInv
  <2> QED
    BY <2>3, <2>4, <2>5, <2>6, <2>7
<1>5. CASE Head(channel) # Error
  <2>1. end' = "open" /\ heard' = Append(heard, Head(channel))
    BY <1>1, <1>5 DEF Receive
  <2>2. heard' \in Seq(Nat) /\ Len(heard') = Len(heard) + 1
    BY <1>2, <1>3, <2>1
  <2>3. Broken' <=> Broken
    <3>1. CASE Len(channel) = 1
      <4>1. channel' = <<>> /\ channel[Len(channel)] # Error
        BY <1>3, <1>5, <3>1
      <4> QED
        BY <4>1 DEF Broken
    <3>2. CASE Len(channel) > 1
      <4>1. Len(channel') \in 1 .. Len(channel') /\ channel' # <<>>
        BY <1>3, <3>2
      <4>2. channel'[Len(channel')] = channel[Len(channel') + 1]
        BY <1>3, <4>1
      <4>3. Len(channel') + 1 = Len(channel)
        BY <1>2, <1>3
      <4> QED
        BY <1>1, <4>1, <4>2, <4>3 DEF Broken
    <3>3. Len(channel) \in Nat /\ Len(channel) > 0
      BY <1>2
    <3>4. \A n \in Nat : n > 0 => n = 1 \/ n > 1
      OBVIOUS
    <3>5. Len(channel) = 1 \/ Len(channel) > 1
      BY <3>3, <3>4, Zenon
    <3> QED
      BY <3>1, <3>2, <3>5
  <2>4. FramesInv'
    BY <1>1, <1>3, <2>2 DEF FramesInv
  <2>5. ReaderInv'
    BY <1>1, <2>1 DEF ReaderInv
  <2>6. ErrorInv'
    <3> SUFFICES ASSUME NEW i \in 1 .. Len(channel'), channel'[i] = Error
                 PROVE  i = Len(channel') /\ task' = "gone" /\ entry' = "none"
      BY DEF ErrorInv
    <3>1. i + 1 \in 1 .. Len(channel) /\ channel[i + 1] = Error
      BY <1>2, <1>3
    <3>2. i + 1 = Len(channel) /\ task = "gone" /\ entry = "none"
      BY <3>1 DEF ErrorInv
    <3>3. i = Len(channel')
      BY <1>2, <1>3, <3>2
    <3> QED
      BY <1>1, <3>2, <3>3
  <2>7. CountInv'
    BY <1>1, <1>2, <1>3, <2>2, <2>3 DEF CountInv
  <2>8. EntryInv'
    BY <1>1 DEF EntryInv
  <2> QED
    BY <2>4, <2>5, <2>6, <2>7, <2>8
<1> QED
  BY <1>4, <1>5

\* A frame that is received is one the reader has not had.
LEMMA HearsMore ==
    ASSUME TeeInv, Receive, Head(channel) # Error
    PROVE  Len(heard) < Len(frames)
<1>1. channel \in Seq(Nat) /\ channel # <<>> /\ reader = "held" /\ end = "open"
  BY DEF TeeInv, FramesInv, Receive
<1>2. /\ Len(channel) \in Nat \ {0} /\ Len(heard) \in Nat /\ pulled \in Nat
      /\ Len(frames) \in Nat /\ pulled <= Len(frames)
  BY <1>1 DEF TeeInv, FramesInv
<1>3. PICK h \in {0, 1} : Len(heard) + Len(channel) + h = pulled + (IF Broken THEN 1 ELSE 0)
  BY <1>1 DEF TeeInv, CountInv
<1>4. CASE Broken
  <2>1. Len(channel) # 1
    BY <1>1, <1>4 DEF Broken
  <2>2. Len(heard) + Len(channel) + h = pulled + 1
    BY <1>3, <1>4
  <2>3. \A n \in Nat \ {0} : n # 1 => n >= 2
    OBVIOUS
  <2>4. Len(channel) >= 2
    BY <1>2, <2>1, <2>3, Zenon
  <2> QED
    BY <1>2, <2>2, <2>4
<1>5. CASE ~Broken
  BY <1>2, <1>3, <1>5
<1> QED
  BY <1>4, <1>5

\* How far the task is ahead of what was heard: the channel and the frame in its hand.
LEMMA AheadBound ==
    ASSUME TeeInv, reader = "held", end = "open"
    PROVE  pulled <= Len(heard) + Depth + 1
<1>1. Len(channel) \in Nat /\ Len(heard) \in Nat /\ pulled \in Nat /\ Depth \in Nat
  BY DEF TeeInv, FramesInv
<1>2. Len(channel) <= Depth
  BY DEF TeeInv, CountInv
<1>3. PICK h \in {0, 1}, b \in {0, 1} : Len(heard) + Len(channel) + h = pulled + b
  BY DEF TeeInv, CountInv
<1> QED
  BY <1>1, <1>2, <1>3

USE DEF FramesInv, ReaderInv, ErrorInv, CountInv, EntryInv, Ending, Broken, Places, Error

\* And every other step leaves the channel short of an error.
LEMMA Steps == TeeInv /\ [Next]_vars => TeeInv'
<1> SUFFICES ASSUME TeeInv, [Next]_vars PROVE TeeInv'
  OBVIOUS
<1> USE DEF TeeInv, Task
<1>1. CASE UNCHANGED vars
  BY <1>1
<1>2. CASE Open
  BY <1>2 DEF Open
<1>3. CASE PullData
  BY <1>3, PullKeepsInv DEF PullData
<1>4. CASE PullTrailer
  BY <1>4, PullKeepsInv DEF PullTrailer
<1>5. CASE PullError
  BY <1>5 DEF PullError
<1>6. CASE PullEnd
  BY <1>6 DEF PullEnd
<1>7. CASE Send
  BY <1>7, SendKeepsInv
<1>8. CASE SendError
  BY <1>8, SendErrorKeepsInv
<1>9. CASE SendNowhere
  BY <1>9 DEF SendNowhere, NoWriter
<1>10. CASE Write
  BY <1>10 DEF Write, NoWriter, NoBuffer
<1>11. CASE Commit
  BY <1>11 DEF Commit, NoWriter
<1>12. CASE Reinsert
  BY <1>12 DEF Reinsert
<1>13. CASE Remember
  BY <1>13 DEF Remember
<1>14. CASE Evict
  BY <1>14 DEF Evict
<1>15. CASE Receive
  BY <1>15, ReceiveKeepsInv
<1>16. CASE ReceiveEnd
  BY <1>16 DEF ReceiveEnd
<1>17. CASE Leave
  BY <1>17 DEF Leave
<1>18. CASE Crash
  BY <1>18 DEF Crash, NoWriter, NoBuffer
<1> QED
  BY <1>1, <1>2, <1>3, <1>4, <1>5, <1>6, <1>7, <1>8, <1>9, <1>10, <1>11, <1>12,
     <1>13, <1>14, <1>15, <1>16, <1>17, <1>18
  DEF Next, TaskStep, Over

-----------------------------------------------------------------------------
(* The theorems.                                                           *)

\* TeeInv is inductive.
LEMMA TeeInvariance == Spec => []TeeInv
<1>1. Init => TeeInv
  BY DEF Init, TeeInv
<1> QED
  BY <1>1, Steps, PTL DEF Spec

\* A body never piles up in memory: for any channel the task is at most one frame
\* further than the channel and the reader (cache.rs:866-868, 1028).
THEOREM RunsAheadBounded ==
    Spec => [](reader = "held" /\ end = "open" => pulled <= Len(heard) + Depth + 1)
<1>1. TeeInv => (reader = "held" /\ end = "open" => pulled <= Len(heard) + Depth + 1)
  BY AheadBound
<1> QED
  BY <1>1, TeeInvariance, PTL

\* The tee keeps TeePromise, for any body: frames in order, an end only after the
\* last, published once and never behind an end or an error (cache.rs:859-878).
THEOREM Refinement == Spec => PromiseKept
<1> USE DEF BodyFrames, Heard, Published
<1>1. Init => P!Init
  BY DEF Init, P!Init
<1>2. TeeInv /\ [Next]_vars => [P!Next]_P!promise
  <2> SUFFICES ASSUME TeeInv, [Next]_vars PROVE [P!Next]_P!promise
    OBVIOUS
  <2> USE DEF TeeInv, Task, P!promise
  <2>1. CASE UNCHANGED <<frames, heard, end, entry>>
    BY <2>1
  <2>2. CASE Commit
    BY <2>2 DEF Commit
  <2>3. CASE Reinsert
    BY <2>3 DEF Reinsert, P!Next, P!Publish
  <2>4. CASE Receive
    <3>1. end = "open" /\ channel \in Seq(Nat) /\ channel # <<>> /\ UNCHANGED <<frames, entry>>
      BY <2>4 DEF Receive
    <3>2. CASE Head(channel) = Error
      <4>1. end' = "err" /\ heard' = heard
        BY <2>4, <3>2 DEF Receive
      <4>2. 1 \in 1 .. Len(channel) /\ channel[1] = Error
        BY <3>1, <3>2
      <4>3. entry = "none"
        BY <4>2
      <4> QED
        BY <3>1, <4>1, <4>3 DEF P!Next, P!HearError
    <3>3. CASE Head(channel) # Error
      <4>1. end' = "open" /\ heard' = Append(heard, Head(channel))
        BY <2>4, <3>1, <3>3 DEF Receive
      <4>2. Len(heard') = Len(heard) + 1
        BY <3>1, <4>1
      <4>3. Len(heard) < Len(frames)
        BY <2>4, <3>1, <3>3, HearsMore
      <4> QED
        BY <3>1, <4>1, <4>2, <4>3 DEF P!Next, P!Hear
    <3> QED
      BY <3>2, <3>3
  <2>5. CASE ReceiveEnd
    BY <2>5 DEF ReceiveEnd, P!Next, P!HearEnd
  <2>6. CASE Leave
    BY <2>6 DEF Leave, P!Next, P!Leave
  <2>7. CASE Crash
    BY <2>7 DEF Crash, P!Next, P!Leave
  <2> QED
    BY <2>1, <2>2, <2>3, <2>4, <2>5, <2>6, <2>7
    DEF Next, TaskStep, Over, Open, PullData, PullTrailer, PullError, PullEnd, Send,
        SendError, SendNowhere, Write, Remember, Evict
<1> QED
  BY <1>1, <1>2, TeeInvariance, PTL DEF Spec, PromiseKept, P!Spec

\* A get and the removals beside a tee change nothing of what the tee does.
LEMMA HitSpecIsTee == HitSpec => Spec
<1>1. HitInit => Init
  BY DEF HitInit
<1>2. [HitNext]_hitVars => [Next]_vars
  BY DEF HitNext, hitVars, Next, TaskStep, Lookup, LookInMemory, OpenContent,
         PollBuffered, PollCached, PollDone, DropHit, RemoveKey, RemoveContent, CutContent
<1> QED
  BY <1>1, <1>2, PTL DEF HitSpec, Spec

\* So it keeps its promise with them too.
THEOREM HitRefinement == HitSpec => PromiseKept
  BY HitSpecIsTee, Refinement

HIDE DEF FramesInv, ReaderInv, ErrorInv, CountInv, EntryInv, Ending, Broken, Places, Error

-----------------------------------------------------------------------------
(* What is kept, in either tier.                                           *)

\* The sinks hold the data taken off the upstream, but for the frame in hand that the
\* writer has still to get; what passes a cap is let go of; and what is stored is the
\* body.
SinksInv ==
    /\ writing \in BOOLEAN /\ buffering \in BOOLEAN
    /\ total = Length(Data[pulled])
    /\ writing => /\ written = Data[IF task \in {"send", "write"} THEN pulled - 1 ELSE pulled]
                  /\ total <= EntryDisk
    /\ ~writing => written = <<>> /\ task \notin {"write", "commit"}
    /\ memBuf = IF buffering THEN Data[pulled] ELSE <<>>
    /\ Length(memBuf) <= EntryMem
    /\ task = "open" => pulled = 0 /\ ~writing
    /\ task = "write" => pulled > 0 /\ IsData(pulled)

StoredInv ==
    /\ inMem \in BOOLEAN
    /\ entry = "none" => blob = <<>>
    /\ entry # "none" => pulled = Len(frames) /\ blob = Body /\ total <= EntryDisk
    /\ ~inMem => memEntry = <<>>
    /\ inMem => pulled = Len(frames) /\ memEntry = Body /\ total <= EntryMem
    /\ task \notin {"evict", "gone"} => ~inMem

KeptInv == TeeInv /\ SinksInv /\ StoredInv

\* The body does not change.
LEMMA SameFrames ==
    ASSUME frames' = frames
    PROVE  /\ Data' = Data /\ Body' = Body /\ \A n : IsData(n)' = IsData(n)
           /\ Length(memBuf)' = Length(memBuf')
           /\ Length(Data[pulled])' = Length(Data[pulled'])
           /\ Length(Body)' = Length(Body)
<1>1. Data' = Data
  BY DEF Data, IsData
<1>2. Body' = Body
  BY <1>1 DEF Body
<1>3. Length(memBuf)' = Length(memBuf')
  BY DEF Length
<1>4. Length(Data[pulled])' = Length(Data[pulled'])
  BY <1>1 DEF Length
<1>5. Length(Body)' = Length(Body)
  BY <1>2 DEF Length
<1> QED
  BY <1>1, <1>2, <1>3, <1>4, <1>5 DEF IsData

\* The data as far as it was taken off, with and without the last frame.
LEMMA DataPulled ==
    ASSUME TeeInv
    PROVE  /\ pulled \in Nat /\ pulled <= Len(frames) /\ frames \in Seq(Nat) /\ Len(frames) \in Nat
           /\ Data[pulled] \in Seq(1 .. Len(frames)) /\ Length(Data[pulled]) \in Nat
           /\ Data[0] = <<>> /\ Length(<<>>) = 0
           /\ pulled > 0 /\ IsData(pulled) => Data[pulled] = Append(Data[pulled - 1], pulled)
           /\ pulled > 0 /\ ~IsData(pulled) => Data[pulled] = Data[pulled - 1]
<1>1. pulled \in Nat /\ pulled <= Len(frames) /\ frames \in Seq(Nat) /\ Len(frames) \in Nat
  BY DEF TeeInv, FramesInv
<1>2. /\ Data[0] = <<>> /\ \A n \in 0 .. Len(frames) : Data[n] \in Seq(1 .. Len(frames))
      /\ \A n \in 1 .. Len(frames) :
            Data[n] = IF IsData(n) THEN Append(Data[n - 1], n) ELSE Data[n - 1]
  BY <1>1, DataUnrolls
<1>3. pulled \in 0 .. Len(frames) /\ (pulled > 0 => pulled \in 1 .. Len(frames))
  BY <1>1
<1>4. Data[pulled] \in Seq(1 .. Len(frames)) /\ <<>> \in Seq(1 .. Len(frames))
  BY <1>2, <1>3
<1>5. Length(Data[pulled]) \in Nat /\ Length(<<>>) = 0
  BY <1>1, <1>4, LengthTyped
<1> QED
  BY <1>1, <1>2, <1>3, <1>4, <1>5

\* A frame of data: what it adds to the total, to the buffer, and to the writer later.
LEMMA PullDataKeeps ==
    ASSUME KeptInv, PullData
    PROVE  SinksInv' /\ StoredInv'
<1> USE DEF KeptInv
<1>1. /\ task = "pull" /\ task' = "send" /\ pulled < Len(frames) /\ IsData(pulled + 1)
      /\ pulled' = pulled + 1 /\ total' = total + frames[pulled + 1]
      /\ UNCHANGED <<frames, entry, blob, inMem, memEntry>>
  BY DEF PullData, Task
<1>2. /\ pulled \in Nat /\ frames \in Seq(Nat) /\ Len(frames) \in Nat
      /\ Data[pulled] \in Seq(1 .. Len(frames)) /\ Length(Data[pulled]) \in Nat
      /\ Length(<<>>) = 0
  BY DataPulled
<1>3. pulled + 1 \in 1 .. Len(frames) /\ frames[pulled + 1] \in Nat /\ (pulled + 1) - 1 = pulled
  BY <1>1, <1>2
<1>4. Data[pulled + 1] = Append(Data[pulled], pulled + 1)
  BY <1>1, <1>2, <1>3, DataUnrolls
<1>5. Length(Data[pulled + 1]) = Length(Data[pulled]) + frames[pulled + 1]
  BY <1>2, <1>3, <1>4, LengthAppend
<1>6. total' = Length(Data[pulled'])
  BY <1>1, <1>5 DEF SinksInv
<1>7. /\ Length(memBuf)' = Length(memBuf') /\ Length(Data[pulled])' = Length(Data[pulled'])
      /\ Data' = Data /\ Body' = Body
  BY <1>1, SameFrames
<1>8. writing' \in BOOLEAN /\ (writing' => writing /\ written' = Data[pulled] /\ total' <= EntryDisk)
  <2>1. CASE writing /\ total' > EntryDisk
    BY <2>1 DEF PullData, NoWriter
  <2>2. CASE ~(writing /\ total' > EntryDisk)
    <3>1. UNCHANGED <<writing, written>>
      BY <2>2 DEF PullData
    <3>2. total' \in Nat
      BY <1>1, <1>2, <1>3, <1>5, <1>6
    <3>3. writing => written = Data[pulled]
      BY <1>1 DEF SinksInv
    <3> QED
      BY <2>2, <3>1, <3>2, <3>3 DEF SinksInv
  <2> QED
    BY <2>1, <2>2
<1>9. ~writing' => written' = <<>>
  BY DEF PullData, NoWriter, SinksInv
<1>10. /\ buffering' \in BOOLEAN /\ Length(memBuf') <= EntryMem
       /\ memBuf' = IF buffering' THEN Data[pulled + 1] ELSE <<>>
  <2> DEFINE goes == /\ buffering /\ ~(writing /\ total' > EntryDisk)
                     /\ Length(memBuf) + frames[pulled + 1] <= EntryMem
  <2>1. CASE goes
    <3>1. memBuf' = Append(memBuf, pulled + 1) /\ buffering' = buffering /\ buffering
      BY <2>1 DEF PullData
    <3>2. memBuf = Data[pulled]
      BY <2>1 DEF SinksInv
    <3>3. memBuf' = Data[pulled + 1]
      BY <1>4, <3>1, <3>2
    <3>4. Length(memBuf') = Length(memBuf) + frames[pulled + 1]
      BY <1>5, <3>2, <3>3
    <3> QED
      BY <2>1, <3>1, <3>3, <3>4 DEF SinksInv
  <2>2. CASE ~goes
    <3>1. buffering' = FALSE /\ memBuf' = <<>>
      BY <2>2 DEF PullData, NoBuffer
    <3>2. Length(memBuf') = 0
      BY <1>2, <3>1, Zenon
    <3>3. Length(memBuf') <= EntryMem
      BY <3>2
    <3>4. memBuf' = IF buffering' THEN Data[pulled + 1] ELSE <<>>
      BY <3>1
    <3>5. buffering' \in BOOLEAN
      BY <3>1
    <3> QED
      BY <3>3, <3>4, <3>5
  <2> QED
    BY <2>1, <2>2
<1>11. SinksInv'
  BY <1>1, <1>3, <1>6, <1>7, <1>8, <1>9, <1>10 DEF SinksInv
<1>12. entry = "none" /\ ~inMem
  BY <1>1 DEF TeeInv, EntryInv, StoredInv
<1>13. StoredInv'
  BY <1>1, <1>12 DEF StoredInv
<1> QED
  BY <1>11, <1>13

\* A trailer adds nothing.
LEMMA PullTrailerKeeps ==
    ASSUME KeptInv, PullTrailer
    PROVE  SinksInv' /\ StoredInv'
<1> USE DEF KeptInv
<1>1. /\ task = "pull" /\ task' = "send" /\ pulled < Len(frames) /\ ~IsData(pulled + 1)
      /\ pulled' = pulled + 1
      /\ UNCHANGED <<frames, total, writing, written, buffering, memBuf, entry, blob, inMem, memEntry>>
  BY DEF PullTrailer, Task
<1>2. pulled \in Nat /\ frames \in Seq(Nat) /\ Len(frames) \in Nat
  BY DataPulled
<1>3. pulled + 1 \in 1 .. Len(frames) /\ (pulled + 1) - 1 = pulled
  BY <1>1, <1>2
<1>4. Data[pulled + 1] = Data[pulled]
  BY <1>1, <1>2, <1>3, DataUnrolls
<1>5. /\ Length(memBuf)' = Length(memBuf') /\ Length(Data[pulled])' = Length(Data[pulled'])
      /\ Data' = Data /\ Body' = Body
  BY <1>1, SameFrames
<1>6. SinksInv'
  BY <1>1, <1>3, <1>4, <1>5 DEF SinksInv
<1>7. entry = "none" /\ ~inMem
  BY <1>1 DEF TeeInv, EntryInv, StoredInv
<1>8. StoredInv'
  BY <1>1, <1>7 DEF StoredInv
<1> QED
  BY <1>6, <1>8

\* The frame in hand is written, or writing ends.
LEMMA WriteKeeps ==
    ASSUME KeptInv, Write
    PROVE  SinksInv' /\ StoredInv'
<1> USE DEF KeptInv
<1>1. /\ task = "write" /\ task' = "pull"
      /\ UNCHANGED <<frames, pulled, total, entry, blob, inMem, memEntry>>
  BY DEF Write, Task
<1>2. Data[pulled] = Append(Data[pulled - 1], pulled) /\ Length(<<>>) = 0
  BY <1>1, DataPulled DEF SinksInv
<1>3. writing /\ written = Data[pulled - 1]
  BY <1>1 DEF SinksInv
<1>4. /\ Length(memBuf)' = Length(memBuf') /\ Length(Data[pulled])' = Length(Data[pulled'])
      /\ Data' = Data /\ Body' = Body
  BY <1>1, SameFrames
<1>5. CASE written' = Append(written, pulled) /\ UNCHANGED <<writing, buffering, memBuf>>
  <2>1. written' = Data[pulled]
    BY <1>2, <1>3, <1>5
  <2> QED
    BY <1>1, <1>4, <1>5, <2>1 DEF SinksInv, StoredInv
<1>6. CASE NoWriter /\ NoBuffer
  <2>1. Length(memBuf') = 0
    BY <1>2, <1>6, Zenon DEF NoBuffer
  <2>2. Length(memBuf') <= EntryMem
    BY <2>1
  <2> QED
    BY <1>1, <1>4, <1>6, <2>2 DEF NoWriter, NoBuffer, SinksInv, StoredInv
<1> QED
  BY <1>5, <1>6 DEF Write

\* The frame goes to the reader; data goes on to the writer, a trailer does not.
LEMMA SendKeeps ==
    ASSUME KeptInv, Send
    PROVE  SinksInv' /\ StoredInv'
<1> USE DEF KeptInv
<1>1. /\ task = "send" /\ task' = IF writing /\ IsData(pulled) THEN "write" ELSE "pull"
      /\ UNCHANGED <<frames, pulled, total, writing, written, buffering, memBuf,
                     entry, blob, inMem, memEntry>>
  BY DEF Send, Task
<1>2. pulled > 0
  BY <1>1 DEF TeeInv, FramesInv
<1>3. ~IsData(pulled) => Data[pulled] = Data[pulled - 1]
  BY <1>2, DataPulled
<1>4. /\ Length(memBuf)' = Length(memBuf') /\ Length(Data[pulled])' = Length(Data[pulled'])
      /\ Data' = Data /\ Body' = Body /\ IsData(pulled)' = IsData(pulled)
  BY <1>1, SameFrames DEF IsData
<1>5. CASE writing /\ IsData(pulled)
  BY <1>1, <1>2, <1>4, <1>5 DEF SinksInv, StoredInv
<1>6. CASE ~(writing /\ IsData(pulled))
  BY <1>1, <1>3, <1>4, <1>6 DEF SinksInv, StoredInv
<1> QED
  BY <1>5, <1>6

\* What is committed is what was written, at the end of the body: the body.
LEMMA CommitKeeps ==
    ASSUME KeptInv, Commit
    PROVE  SinksInv' /\ StoredInv'
<1> USE DEF KeptInv
<1>1. /\ task = "commit" /\ pulled = Len(frames) /\ writing /\ entry = "none"
      /\ UNCHANGED <<frames, pulled, total, buffering, memBuf, inMem, memEntry>> /\ NoWriter
  BY DEF Commit, Task, TeeInv, FramesInv, Ending, EntryInv, SinksInv
<1>2. written = Body /\ total <= EntryDisk
  BY <1>1 DEF SinksInv, Body
<1>3. /\ Length(memBuf)' = Length(memBuf') /\ Length(Data[pulled])' = Length(Data[pulled'])
      /\ Data' = Data /\ Body' = Body
  BY <1>1, SameFrames
<1>4. CASE task' = "reinsert" /\ entry' = "unsized" /\ blob' = written
  BY <1>1, <1>2, <1>3, <1>4 DEF NoWriter, SinksInv, StoredInv
<1>5. CASE task' = "gone" /\ UNCHANGED <<entry, blob>>
  BY <1>1, <1>3, <1>5 DEF NoWriter, SinksInv, StoredInv
<1> QED
  BY <1>4, <1>5 DEF Commit, Task

\* The memory tier gets the buffer, which is the body too.
LEMMA RememberKeeps ==
    ASSUME KeptInv, Remember
    PROVE  SinksInv' /\ StoredInv'
<1> USE DEF KeptInv
<1>1. /\ task = "remember" /\ task' = "evict" /\ pulled = Len(frames) /\ ~inMem
      /\ inMem' = (buffering /\ total <= EntryMem)
      /\ memEntry' = IF inMem' THEN memBuf ELSE memEntry
      /\ UNCHANGED <<frames, pulled, total, writing, written, buffering, memBuf, entry, blob>>
  BY DEF Remember, Task, TeeInv, FramesInv, Ending, StoredInv
<1>2. buffering => memBuf = Body
  BY <1>1 DEF SinksInv, Body
<1>3. /\ Length(memBuf)' = Length(memBuf') /\ Length(Data[pulled])' = Length(Data[pulled'])
      /\ Data' = Data /\ Body' = Body
  BY <1>1, SameFrames
<1>4. SinksInv'
  BY <1>1, <1>3 DEF SinksInv
<1>5. buffering \in BOOLEAN
  BY DEF SinksInv
<1>6. StoredInv'
  BY <1>1, <1>2, <1>3, <1>5 DEF StoredInv
<1> QED
  BY <1>4, <1>6

\* The rest moves no data.
LEMMA KeptSteps == KeptInv /\ [Next]_vars => KeptInv'
<1> SUFFICES ASSUME KeptInv, [Next]_vars PROVE SinksInv' /\ StoredInv'
  BY Steps DEF KeptInv
<1> USE DEF KeptInv, Task
<1>1. Length(<<>>) = 0
  BY DataPulled
<1>2. frames' = frames
  BY DEF Next, TaskStep, Open, PullData, PullTrailer, PullError, PullEnd, Send, SendError,
         SendNowhere, Write, Commit, Reinsert, Remember, Evict, Receive, ReceiveEnd, Leave,
         Crash, Over
<1>3. /\ Length(memBuf)' = Length(memBuf') /\ Length(Data[pulled])' = Length(Data[pulled'])
      /\ Data' = Data /\ Body' = Body
  BY <1>2, SameFrames
<1>4. task \in {"open", "pull", "send", "fail", "write", "commit"} => entry = "none" /\ ~inMem
  BY DEF TeeInv, EntryInv, StoredInv
<1> USE DEF SinksInv, StoredInv
<1>5. CASE UNCHANGED <<task, frames, pulled, total, writing, written, buffering, memBuf,
                       entry, blob, inMem, memEntry>>
  <2>1. IsData(pulled)' = IsData(pulled)
    BY <1>5 DEF IsData
  <2> QED
    BY <1>3, <1>5, <2>1
<1>6. CASE Open
  <2>1. written = <<>> /\ Data[0] = <<>> /\ pulled = 0 /\ total = 0
    BY <1>1, <1>6, DataPulled DEF Open
  <2> QED
    BY <1>3, <1>6, <2>1 DEF Open
<1>7. CASE PullError
  BY <1>3, <1>7 DEF PullError
<1>8. CASE PullEnd
  BY <1>3, <1>8 DEF PullEnd
<1>9. CASE SendError
  BY <1>3, <1>9 DEF SendError, NoWriter
<1>10. CASE SendNowhere
  BY <1>3, <1>10 DEF SendNowhere, NoWriter
<1>11. CASE Reinsert
  BY <1>3, <1>11 DEF Reinsert, TeeInv, FramesInv, Ending, EntryInv
<1>12. CASE Evict
  BY <1>3, <1>12 DEF Evict
<1>13. CASE Crash
  <2>1. Length(memBuf') = 0
    BY <1>1, <1>13, Zenon DEF Crash, NoBuffer
  <2>2. Length(memBuf') <= EntryMem
    BY <2>1
  <2> QED
    BY <1>3, <1>13, <2>2 DEF Crash, NoWriter, NoBuffer
<1> QED
  BY <1>5, <1>6, <1>7, <1>8, <1>9, <1>10, <1>11, <1>12, <1>13, PullDataKeeps,
     PullTrailerKeeps, WriteKeeps, SendKeeps, CommitKeeps, RememberKeeps
  DEF Next, TaskStep, Receive, ReceiveEnd, Leave, Over

\* KeptInv is inductive.
LEMMA KeptInvariance == Spec => []KeptInv
<1>1. Init => KeptInv
  <2> SUFFICES ASSUME Init PROVE KeptInv
    OBVIOUS
  <2>1. TeeInv
    BY DEF Init, TeeInv, FramesInv, ReaderInv, ErrorInv, CountInv, EntryInv, Ending, Broken,
           Places, Error
  <2>2. Data[0] = <<>> /\ Length(<<>>) = 0
    BY <2>1, DataPulled
  <2>3. Length(Data[pulled]) = 0 /\ Length(memBuf) = 0
    BY <2>2, Zenon DEF Init
  <2>4. Length(memBuf) <= EntryMem
    BY <2>3
  <2>5. SinksInv
    <3>1. total = Length(Data[pulled])
      BY <2>3 DEF Init
    <3>2. /\ writing = FALSE /\ written = <<>> /\ buffering \in BOOLEAN /\ task = "open"
          /\ memBuf = <<>> /\ pulled = 0 /\ Data[pulled] = <<>>
      BY <2>2 DEF Init
    <3>3. memBuf = IF buffering THEN Data[pulled] ELSE <<>>
      BY <3>2
    <3> QED
      BY <2>4, <3>1, <3>2, <3>3 DEF SinksInv
  <2>6. StoredInv
    BY DEF Init, StoredInv
  <2> QED
    BY <2>1, <2>5, <2>6 DEF KeptInv
<1> QED
  BY <1>1, KeptSteps, PTL DEF Spec

\* What is stored is the whole body in order, in either tier, for any body, caps and
\* depth, wherever an error, a failed write, a reader that leaves or the end of the
\* process cuts the tee (cache.rs:870-878).
THEOREM KeptWhole == Spec => []WholeOrNothing
<1>1. KeptInv => WholeOrNothing
  BY DEF KeptInv, StoredInv, WholeOrNothing
<1> QED
  BY <1>1, KeptInvariance, PTL

\* The task runs ahead of the reader by the channel and one frame, and buffers no more
\* than the cap, for any of them (cache.rs:866-868, 969-972).
THEOREM Bounded == Spec => []Backpressure
<1>1. KeptInv => Length(memBuf) <= EntryMem
  BY DEF KeptInv, SinksInv
<1>2. KeptInv => (reader = "held" /\ end = "open" => pulled <= Len(heard) + Depth + 1)
  BY AheadBound DEF KeptInv
<1> QED
  BY <1>1, <1>2, KeptInvariance, PTL DEF Backpressure

\* A body past a cap stays out of that tier, for any cap and any frames
\* (cache.rs:877-878, 969-972).
THEOREM NoneTooLong == Spec => []TooLongNotKept
<1>1. KeptInv => TooLongNotKept
  <2> SUFFICES ASSUME KeptInv PROVE TooLongNotKept
    OBVIOUS
  <2>1. pulled = Len(frames) => total = Length(Body)
    BY DEF KeptInv, SinksInv, Body
  <2>2. total \in Nat
    BY DataPulled DEF KeptInv, SinksInv
  <2> QED
    BY <2>1, <2>2 DEF KeptInv, StoredInv, TooLongNotKept
<1> QED
  BY <1>1, KeptInvariance, PTL

-----------------------------------------------------------------------------
(* A get of what is kept.                                                  *)

\* What the channel and the reader hold are frames of the body.
LinesInv ==
    /\ frames \in Upstreams
    /\ channel \in Seq(0 .. Len(frames)) /\ heard \in Seq(1 .. Len(frames))

\* A get that goes on has read a whole entry, so that what it gave and what is to come
\* are the body.
GetInv ==
    /\ get \in {"none", "miss", "head", "blob", "mem", "disk", "done", "eof", "err", "left"}
    /\ remaining \in Nat /\ given \in Nat
    /\ keyed \in BOOLEAN /\ linked \in BOOLEAN /\ cut \in BOOLEAN
    /\ get \in {"none", "miss", "head", "blob"} => given = 0
    /\ get \in {"head", "blob", "mem", "disk", "done"} =>
          entry = "sized" /\ remaining + given = Length(Body)
    /\ get = "done" => remaining = 0
    /\ get = "eof" /\ ~cut => given = Length(Body)
    /\ given <= Length(Body)

\* A sized entry is not taken back by the tee.
SizedInv == entry = "sized" => task \in {"remember", "evict", "gone"}

LEMMA SizedSteps ==
    ASSUME KeptInv, SizedInv, [Next]_vars
    PROVE  SizedInv' /\ (entry = "sized" => entry' = "sized")
<1>1. CASE UNCHANGED <<task, entry>>
  BY <1>1 DEF SizedInv
<1> QED
  BY <1>1 DEF KeptInv, TeeInv, EntryInv, SizedInv, Next, TaskStep, Open, PullData, PullTrailer,
              PullError, PullEnd, Send, SendError, SendNowhere, Write, Commit, Reinsert, Remember,
              Evict, Receive, ReceiveEnd, Leave, Crash, Over, Task

LEMMA LinesSteps ==
    ASSUME TeeInv, LinesInv, [Next]_vars
    PROVE  LinesInv'
<1>1. pulled \in Nat /\ pulled <= Len(frames) /\ Len(frames) \in Nat
  BY DataPulled
<1>2. CASE UNCHANGED <<frames, channel, heard>>
  BY <1>2 DEF LinesInv
<1>3. CASE Send
  <2>1. task = "send" /\ channel' = Append(channel, pulled) /\ UNCHANGED <<frames, heard>>
    BY <1>3 DEF Send, Task
  <2>2. pulled \in 0 .. Len(frames)
    BY <1>1
  <2> QED
    BY <2>1, <2>2 DEF LinesInv
<1>4. CASE SendError
  <2>1. channel' = Append(channel, 0) /\ UNCHANGED <<frames, heard>>
    BY <1>4 DEF SendError, Error
  <2>2. 0 \in 0 .. Len(frames)
    BY <1>1
  <2> QED
    BY <2>1, <2>2 DEF LinesInv
<1>5. CASE Receive
  <2>1. channel # <<>> /\ channel' = Tail(channel) /\ UNCHANGED frames
        /\ heard' = IF Head(channel) = 0 THEN heard ELSE Append(heard, Head(channel))
    BY <1>5 DEF Receive, Error
  <2>2. Head(channel) \in 0 .. Len(frames) /\ channel' \in Seq(0 .. Len(frames))
    BY <2>1 DEF LinesInv
  <2>3. Head(channel) # 0 => Head(channel) \in 1 .. Len(frames)
    BY <1>1, <2>2
  <2>4. heard' \in Seq(1 .. Len(frames))
    <3>1. CASE Head(channel) = 0
      BY <2>1, <3>1 DEF LinesInv
    <3>2. CASE Head(channel) # 0
      BY <2>1, <2>3, <3>2 DEF LinesInv
    <3> QED
      BY <3>1, <3>2
  <2> QED
    BY <2>1, <2>2, <2>4 DEF LinesInv
<1>6. CASE channel' = <<>> /\ UNCHANGED <<frames, heard>>
  BY <1>6 DEF LinesInv
<1> QED
  BY <1>2, <1>3, <1>4, <1>5, <1>6
  DEF Next, TaskStep, Open, PullData, PullTrailer, PullError, PullEnd, SendNowhere, Write,
      Commit, Reinsert, Remember, Evict, ReceiveEnd, Leave, Crash, Over

\* What a sized entry names is the body, of the length that the get read.
LEMMA SizedIsWhole ==
    ASSUME KeptInv
    PROVE  /\ Length(Body) \in Nat
           /\ entry = "sized" => total = Length(Body) /\ blob = Body
           /\ inMem => memEntry = Body
<1>1. /\ frames \in Seq(Nat) /\ Len(frames) \in 0 .. Len(frames)
      /\ \A n \in 0 .. Len(frames) : Data[n] \in Seq(1 .. Len(frames))
  BY DataUnrolls DEF KeptInv, TeeInv, FramesInv
<1>2. Length(Body) \in Nat
  BY <1>1, LengthTyped DEF Body
<1> QED
  BY <1>2 DEF KeptInv, SinksInv, StoredInv, Body

\* A get's own steps, when the tee stands still.
LEMMA GetMoves ==
    ASSUME KeptInv, GetInv, UNCHANGED vars,
           \/ Lookup \/ LookInMemory \/ OpenContent \/ PollBuffered \/ PollCached
           \/ PollDone \/ DropHit \/ RemoveKey \/ RemoveContent \/ CutContent
    PROVE  GetInv'
<1>1. /\ Length(Body) \in Nat
      /\ entry = "sized" => total = Length(Body) /\ blob = Body
      /\ inMem => memEntry = Body
  BY SizedIsWhole
<1>2. Length(Body)' = Length(Body) /\ entry' = entry
  BY SameFrames
<1>3. remaining \in Nat /\ given \in Nat /\ Chunk \in Nat \ {0}
  BY ChunkAssumption DEF GetInv
<1>4. CASE Lookup
  BY <1>1, <1>2, <1>4 DEF Lookup, Get, store, GetInv
<1>5. CASE LookInMemory
  <2>1. inMem => Length(memEntry) = Length(Body)
    BY <1>1
  <2> QED
    BY <1>1, <1>2, <1>5, <2>1 DEF LookInMemory, Get, store, GetInv
<1>6. CASE OpenContent
  BY <1>1, <1>2, <1>6 DEF OpenContent, Get, store, GetInv
<1>7. CASE PollBuffered
  <2>1. get = "mem" /\ entry = "sized" /\ remaining + given = Length(Body) /\ UNCHANGED store
    BY <1>7 DEF PollBuffered, Get, GetInv
  <2>2. CASE remaining > 0
    <3>1. PICK n \in Nat : n <= remaining /\ given' = given + n /\ remaining' = remaining - n
      BY <1>3, <1>7, <2>2 DEF PollBuffered, Give, Lesser
    <3>2. get' = "mem"
      BY <1>7, <2>2 DEF PollBuffered, Get
    <3>3. /\ remaining' \in Nat /\ given' \in Nat /\ remaining' + given' = Length(Body)
          /\ given' <= Length(Body)
      BY <1>1, <1>3, <2>1, <3>1
    <3> QED
      BY <1>2, <2>1, <3>2, <3>3 DEF store, GetInv
  <2>3. CASE ~(remaining > 0)
    <3>1. get' = "eof" /\ UNCHANGED <<remaining, given>> /\ given = Length(Body)
      BY <1>1, <1>3, <1>7, <2>1, <2>3 DEF PollBuffered, Get
    <3> QED
      BY <1>2, <1>3, <2>1, <3>1 DEF store, GetInv
  <2> QED
    BY <2>2, <2>3
<1>8. CASE PollCached
  <2>1. /\ get = "disk" /\ entry = "sized" /\ remaining + given = Length(Body) /\ UNCHANGED store
        /\ Length(blob) = Length(Body)
    <3>1. get = "disk" /\ UNCHANGED store
      BY <1>8 DEF PollCached, Get
    <3>2. entry = "sized" /\ remaining + given = Length(Body)
      BY <3>1 DEF GetInv
    <3> QED
      BY <1>1, <3>1, <3>2
  <2>2. ASSUME NEW n \in 1 .. Lesser(Lesser(Chunk, remaining), Length(blob) - given),
               Give(n), Get("disk", IF remaining' = 0 THEN "done" ELSE "disk")
        PROVE  GetInv'
    <3>1. n \in Nat /\ n <= remaining
      BY <1>1, <1>3, <2>1 DEF Lesser
    <3>2. /\ remaining' \in Nat /\ given' \in Nat /\ remaining' + given' = Length(Body)
          /\ given' <= Length(Body)
      BY <1>1, <1>3, <2>1, <2>2, <3>1 DEF Give
    <3>3. get' = IF remaining' = 0 THEN "done" ELSE "disk"
      BY <2>2 DEF Get
    <3> QED
      BY <1>2, <2>1, <3>2, <3>3 DEF store, GetInv
  <2>3. ASSUME remaining = 0 \/ given = Length(blob) \/ cut, Get("disk", "eof"),
               UNCHANGED <<remaining, given>>
        PROVE  GetInv'
    <3>1. cut \/ given = Length(Body)
      BY <1>1, <1>3, <2>1, <2>3
    <3> QED
      BY <1>2, <2>1, <2>3, <3>1 DEF Get, store, GetInv
  <2>4. ASSUME Get("disk", "err"), UNCHANGED <<remaining, given>> PROVE GetInv'
    BY <1>2, <2>1, <2>4 DEF Get, store, GetInv
  <2> QED
    BY <1>8, <2>2, <2>3, <2>4 DEF PollCached
<1>9. CASE PollDone
  <2>1. given = Length(Body)
    BY <1>1, <1>3, <1>9 DEF PollDone, Get, GetInv
  <2> QED
    BY <1>2, <1>9, <2>1 DEF PollDone, Get, store, GetInv
<1>10. CASE DropHit
  BY <1>2, <1>10 DEF DropHit, store, GetInv
<1>11. CASE RemoveKey
  BY <1>2, <1>11 DEF RemoveKey, hit, GetInv
<1>12. CASE RemoveContent
  BY <1>2, <1>12 DEF RemoveContent, hit, GetInv
<1>13. CASE CutContent
  BY <1>2, <1>13 DEF CutContent, hit, GetInv
<1> QED
  BY <1>4, <1>5, <1>6, <1>7, <1>8, <1>9, <1>10, <1>11, <1>12, <1>13

\* And beside it the tee goes on, or the process ends.
LEMMA GetBeside ==
    ASSUME KeptInv, SizedInv, GetInv, [Next]_vars, Aside \/ HitDies
    PROVE  GetInv'
<1>1. frames' = frames
  BY DEF Next, TaskStep, Open, PullData, PullTrailer, PullError, PullEnd, Send, SendError,
         SendNowhere, Write, Commit, Reinsert, Remember, Evict, Receive, ReceiveEnd, Leave,
         Crash, Over
<1>2. Length(Body)' = Length(Body) /\ (entry = "sized" => entry' = "sized")
  BY <1>1, SameFrames, SizedSteps
<1>3. CASE Aside
  BY <1>2, <1>3 DEF Aside, hit, store, GetInv
<1>4. CASE HitDies
  BY <1>2, <1>4 DEF HitDies, Reading, store, GetInv
<1> QED
  BY <1>3, <1>4

\* All of it is inductive.
HitInv == KeptInv /\ SizedInv /\ LinesInv /\ GetInv

LEMMA HitInvariance == HitSpec => []HitInv
<1>1. HitInit => SizedInv /\ LinesInv
  BY DEF HitInit, Init, SizedInv, LinesInv
<1>2. HitInit /\ KeptInv => GetInv
  <2> SUFFICES ASSUME HitInit, KeptInv PROVE GetInv
    OBVIOUS
  <2>1. Length(Body) \in Nat
    BY SizedIsWhole
  <2>2. /\ get = "none" /\ remaining \in Nat /\ given \in Nat /\ given = 0
        /\ keyed \in BOOLEAN /\ linked \in BOOLEAN /\ cut \in BOOLEAN
    BY DEF HitInit
  <2>3. given <= Length(Body)
    BY <2>1, <2>2
  <2> QED
    BY <2>2, <2>3 DEF GetInv
<1>3. ASSUME KeptInv, SizedInv, LinesInv, GetInv, [HitNext]_hitVars
      PROVE  SizedInv' /\ LinesInv' /\ GetInv'
  <2>1. [Next]_vars
    BY <1>3 DEF HitNext, hitVars, Next, TaskStep, Lookup, LookInMemory, OpenContent,
                PollBuffered, PollCached, PollDone, DropHit, RemoveKey, RemoveContent, CutContent
  <2>2. SizedInv' /\ LinesInv'
    BY <1>3, <2>1, SizedSteps, LinesSteps DEF KeptInv
  <2>3. ASSUME Aside \/ HitDies PROVE GetInv'
    BY <1>3, <2>1, <2>3, GetBeside
  <2>4. ASSUME \/ Lookup \/ LookInMemory \/ OpenContent \/ PollBuffered \/ PollCached
               \/ PollDone \/ DropHit \/ RemoveKey \/ RemoveContent \/ CutContent
        PROVE  GetInv'
    <3>1. UNCHANGED vars
      BY <2>4 DEF Lookup, LookInMemory, OpenContent, PollBuffered, PollCached, PollDone,
                  DropHit, RemoveKey, RemoveContent, CutContent
    <3> QED
      BY <1>3, <2>4, <3>1, GetMoves
  <2>5. CASE UNCHANGED hitVars
    BY <2>2, <2>3, <2>5 DEF hitVars, Aside
  <2>6. CASE HitNext
    BY <2>2, <2>3, <2>4, <2>6 DEF HitNext
  <2> QED
    BY <1>3, <2>5, <2>6
<1> QED
  BY <1>1, <1>2, <1>3, HitSpecIsTee, KeptInvariance, PTL DEF HitSpec, HitInv

\* The tee and a get beside it keep their types.
THEOREM HitTypeCorrect == HitSpec => []HitTypeOK
<1>1. HitInv => HitTypeOK
  <2> SUFFICES ASSUME HitInv PROVE HitTypeOK
    OBVIOUS
  <2> USE DEF HitInv, KeptInv
  <2>1. /\ frames \in Seq(Nat) /\ pulled \in 0 .. Len(frames) /\ Len(frames) \in 0 .. Len(frames)
        /\ pulled - 1 \in 0 .. Len(frames) \/ pulled = 0
    BY DEF TeeInv, FramesInv
  <2>2. /\ \A n \in 0 .. Len(frames) : Data[n] \in Seq(1 .. Len(frames))
        /\ Length(Data[pulled]) \in Nat
    BY <2>1, DataUnrolls, DataPulled
  <2>3. total \in Nat
    BY <2>2 DEF SinksInv
  <2>4. Body \in Seq(1 .. Len(frames)) /\ <<>> \in Seq(1 .. Len(frames))
    BY <2>1, <2>2 DEF Body
  <2>5. task \in {"send", "write"} => pulled > 0
    BY DEF SinksInv, TeeInv, FramesInv
  <2>6. written \in Seq(1 .. Len(frames))
    <3>1. CASE writing
      <4>1. (IF task \in {"send", "write"} THEN pulled - 1 ELSE pulled) \in 0 .. Len(frames)
        BY <2>1, <2>5
      <4> QED
        BY <2>2, <3>1, <4>1 DEF SinksInv
    <3>2. CASE ~writing
      BY <2>4, <3>2 DEF SinksInv
    <3> QED
      BY <3>1, <3>2
  <2>7. memBuf \in Seq(1 .. Len(frames))
    BY <2>1, <2>2, <2>4 DEF SinksInv
  <2>8. blob \in Seq(1 .. Len(frames)) /\ memEntry \in Seq(1 .. Len(frames))
    BY <2>4 DEF StoredInv
  <2>9. TypeOK
    BY <2>1, <2>3, <2>6, <2>7, <2>8
    DEF TypeOK, LinesInv, SinksInv, StoredInv, TeeInv, FramesInv, ReaderInv, EntryInv
  <2> QED
    BY <2>9 DEF HitTypeOK, GetInv, Reading
<1> QED
  BY <1>1, HitInvariance, PTL

\* A hit that ends cleanly gave every byte of the response, for any bodies, caps and
\* chunks, while the tee goes on, the key and the content are removed, and the
\* process ends (cache.rs:555-567, 320-391).
THEOREM HitsDeliverAll == HitSpec => []DeliveredWhole
<1>1. HitInv => DeliveredWhole
  BY DEF HitInv, GetInv, DeliveredWhole
<1> QED
  BY <1>1, HitInvariance, PTL

\* What the tee keeps, it keeps with a get and the removals beside it.
THEOREM KeptBesideGets == HitSpec => [](WholeOrNothing /\ Backpressure /\ TooLongNotKept)
  BY HitSpecIsTee, KeptWhole, Bounded, NoneTooLong, PTL
=============================================================================
