---------------------------- MODULE ConsoleProofs ---------------------------
(***************************************************************************)
(* Proofs about Console, for any number of calls, any commands and answers, *)
(* any size of the buffer and any pieces in which the bytes travel.        *)
(***************************************************************************)
EXTENDS Console, TLAPS, WellFoundedInduction

(***************************************************************************)
(* The text in an answer                                                   *)
(***************************************************************************)

\* Where a text ends: behind its last character, before the first NUL.
EndsAt(b, last, e) ==
  /\ \A i \in 4 .. e : b[i] # NUL
  /\ e < last => b[e + 1] = NUL

LEMMA EndsSomewhere ==
  ASSUME NEW b, NEW last \in Nat, last >= 3
  PROVE  \E e \in 3 .. last : EndsAt(b, last, e)
<1>. DEFINE Stops == {e \in Nat : e >= 3 /\ e <= last /\ (e < last => b[e + 1] = NUL)}
<1>1. last \in Stops  OBVIOUS
<1>2. PICK e \in Stops : \A d \in Stops : ~(<<d, e>> \in OpToRel(<, Nat))
  BY <1>1, NatLessThanWellFounded, WFMin
<1>3. \A d \in Stops : ~(d < e)  BY <1>2 DEF OpToRel
<1>4. ASSUME NEW i \in 4 .. e, b[i] = NUL PROVE FALSE
  <2>1. i - 1 \in Stops  BY <1>4
  <2>. QED BY <1>3, <2>1
<1>. QED BY <1>4 DEF EndsAt

LEMMA EndsOnce ==
  ASSUME NEW b, NEW last \in Nat,
         NEW e \in 3 .. last, NEW f \in 3 .. last,
         EndsAt(b, last, e), EndsAt(b, last, f)
  PROVE  e = f
BY DEF EndsAt

LEMMA TextEndFacts ==
  ASSUME NEW b, NEW last \in Nat, last >= 3
  PROVE  TextEnd(b, last) \in 3 .. last /\ EndsAt(b, last, TextEnd(b, last))
BY EndsSomewhere DEF TextEnd, EndsAt

LEMMA ByteIsNat == \A v \in Byte : v \in Nat
BY DEF Byte

LEMMA AnnouncedFacts ==
  ASSUME NEW b \in Seq(Byte), WellFormed(b)
  PROVE  /\ Len(b) >= 4 /\ Announced(b) \in Nat
         /\ Announced(b) >= 3 /\ Announced(b) <= Len(b)
<1>1. Len(b) \in Nat /\ Len(b) >= 4 /\ Len(b) >= Announced(b)
  BY DEF WellFormed
<1>2. b[3] \in Byte  BY <1>1
<1>3. b[3] \in Nat  BY <1>2, ByteIsNat
<1>. QED BY <1>1, <1>3 DEF Announced

LEMMA CutKeeps ==
  ASSUME NEW text, Len(text) \in Nat
  PROVE  Cut(text) = Kept(text)
<1>1. RespSize \in Nat  BY ConsoleAssumption
<1>2. CASE Len(text) < RespSize
  <2>1. ~(Len(text) >= RespSize)  BY <1>1, <1>2
  <2>. QED BY <1>2, <2>1, Zenon DEF Cut, Kept
<1>3. CASE ~(Len(text) < RespSize)
  <2>1. Len(text) >= RespSize  BY <1>1, <1>3
  <2>. QED BY <1>3, <2>1, Zenon DEF Cut, Kept
<1>. QED BY <1>2, <1>3

\* What the receiver cuts out of the bytes it has is what the frame carries.
LEMMA PayloadIsText ==
  ASSUME NEW r \in Seq(Byte), NEW n \in 0 .. Len(r),
         WellFormed(SubSeq(r, 1, n))
  PROVE  Carries(r) /\ Cut(Payload(SubSeq(r, 1, n))) = TextOf(r)
<1>. DEFINE b == SubSeq(r, 1, n)
            last == r[3] + 3
            e == TextEnd(b, last)
<1>1. Len(b) = n /\ n >= 4 /\ \A i \in 1 .. n : b[i] = r[i]
  BY DEF WellFormed
<1>2. r[3] \in Nat /\ last \in Nat /\ last >= 3 /\ Announced(b) = last /\ last <= n
  <2>1. b \in Seq(Byte) /\ b[3] = r[3] /\ r[3] \in Byte  BY <1>1
  <2>2. Announced(b) = last  BY <2>1 DEF Announced
  <2>3. r[3] \in Nat  BY <2>1, ByteIsNat
  <2>4. Announced(b) <= Len(b) /\ Announced(b) >= 3 /\ Announced(b) \in Nat
    <3>1. WellFormed(b)  OBVIOUS
    <3>. HIDE DEF b
    <3>. QED BY <2>1, <3>1, AnnouncedFacts
  <2>. HIDE DEF b, last
  <2>. QED BY <1>1, <2>2, <2>3, <2>4
<1>3. Carries(r)
  BY <1>1, <1>2 DEF Carries, WellFormed, Magic, D, S
<1>4. e \in 3 .. last /\ EndsAt(b, last, e)
  BY <1>2, TextEndFacts
<1>5. EndsAt(r, last, e)
  BY <1>1, <1>2, <1>4 DEF EndsAt
<1>. DEFINE Candidates == {SubSeq(r, 4, k) : k \in 3 .. r[3] + 3}
            Fitting(t) == /\ \A i \in 1 .. Len(t) : t[i] # 0
                          /\ Len(t) < r[3] => r[Len(t) + 4] = 0
<1>6. \A k \in 3 .. last :
        /\ Len(SubSeq(r, 4, k)) = k - 3
        /\ \A i \in 1 .. k - 3 : SubSeq(r, 4, k)[i] = r[i + 3]
  BY <1>1, <1>2
<1>7. \A k \in 3 .. last : Fitting(SubSeq(r, 4, k)) <=> EndsAt(r, last, k)
  <2>. SUFFICES ASSUME NEW k \in 3 .. last
                PROVE  Fitting(SubSeq(r, 4, k)) <=> EndsAt(r, last, k)
    OBVIOUS
  <2>1. (\A i \in 1 .. k - 3 : SubSeq(r, 4, k)[i] # 0) <=> (\A i \in 4 .. k : r[i] # 0)
    <3>1. ASSUME \A i \in 1 .. k - 3 : SubSeq(r, 4, k)[i] # 0, NEW i \in 4 .. k
          PROVE  r[i] # 0
      <4>1. i - 3 \in 1 .. k - 3 /\ (i - 3) + 3 = i  BY <1>2
      <4>. QED BY <1>6, <3>1, <4>1
    <3>2. ASSUME \A i \in 4 .. k : r[i] # 0, NEW i \in 1 .. k - 3
          PROVE  SubSeq(r, 4, k)[i] # 0
      <4>1. i + 3 \in 4 .. k  BY <1>2
      <4>. QED BY <1>6, <3>2, <4>1
    <3>. QED BY <3>1, <3>2
  <2>2. (k - 3 < r[3] => r[(k - 3) + 4] = 0) <=> (k < last => r[k + 1] = 0)
    <3>1. (k - 3 < r[3]) <=> (k < last)  BY <1>2
    <3>2. (k - 3) + 4 = k + 1  BY <1>2
    <3>. QED BY <3>1, <3>2
  <2>3. Len(SubSeq(r, 4, k)) = k - 3  BY <1>6
  <2>. HIDE DEF last
  <2>. QED BY <2>1, <2>2, <2>3 DEF EndsAt, NUL
<1>8. \A t \in Candidates : Fitting(t) <=> t = SubSeq(r, 4, e)
  BY <1>2, <1>4, <1>5, <1>7, EndsOnce
<1>9. (CHOOSE t \in Candidates : Fitting(t)) = SubSeq(r, 4, e)
  <2>1. SubSeq(r, 4, e) \in Candidates  BY <1>4
  <2>. HIDE DEF Candidates, Fitting, e
  <2>. QED BY <1>8, <2>1
<1>10. Payload(b) = SubSeq(r, 4, e)
  BY <1>1, <1>2, <1>4 DEF Payload
<1>11. Len(SubSeq(r, 4, e)) \in Nat  BY <1>4, <1>6
<1>12. TextOf(r) = Kept(SubSeq(r, 4, e))
  BY <1>9, Zenon DEF TextOf
<1>13. Cut(SubSeq(r, 4, e)) = Kept(SubSeq(r, 4, e))
  BY <1>11, CutKeeps
<1>. QED BY <1>3, <1>10, <1>12, <1>13

\* The text and its NUL fit in the caller's buffer.
LEMMA TextFits ==
  ASSUME NEW r \in Seq(Byte), NEW n \in 0 .. Len(r),
         WellFormed(SubSeq(r, 1, n))
  PROVE  /\ Cut(Payload(SubSeq(r, 1, n))) \in Seq(Byte)
         /\ Len(Cut(Payload(SubSeq(r, 1, n)))) + 1 <= RespSize
<1>. DEFINE b == SubSeq(r, 1, n)
            text == Payload(b)
<1>1. Len(b) = n /\ b \in Seq(Byte) /\ n >= 4  BY DEF WellFormed
<1>2. Announced(b) \in Nat /\ Announced(b) >= 3 /\ Announced(b) <= n
  <2>1. WellFormed(b)  OBVIOUS
  <2>. HIDE DEF b
  <2>. QED BY <1>1, <2>1, AnnouncedFacts
<1>3. TextEnd(b, Announced(b)) \in 3 .. n  BY <1>2, TextEndFacts
<1>4. text \in Seq(Byte) /\ Len(text) \in Nat
  <2>1. \A e \in 3 .. n : SubSeq(b, 4, e) \in Seq(Byte)  BY <1>1
  <2>. HIDE DEF b
  <2>. QED BY <1>3, <2>1 DEF Payload
<1>5. Cut(text) \in Seq(Byte) /\ Len(Cut(text)) + 1 <= RespSize
  <2>. HIDE DEF text
  <2>. QED BY <1>4, ConsoleAssumption DEF Cut
<1>. QED BY <1>5

(***************************************************************************)
(* The inductive invariant, call by call                                   *)
(***************************************************************************)

\* at and result move together; the display server knows nothing of a call
\* that has not sent its frame.
Stage(c) ==
  /\ at[c] = "none" <=> result[c] = "new"
  /\ at[c] = "done" <=> result[c] \in {"answered", "failed"}
  /\ at[c] # "none" <=> asked[c] \in Commands
  /\ at[c] \in {"none", "socket", "frame"} => sent[c] = 0

\* Bytes are sent only of commands that may be, and fit in a frame.
Framed(c) ==
  /\ at[c] = "frame" => Accepted(asked[c])
  /\ at[c] \in {"send", "recv", "parse"} \/ sent[c] > 0 =>
       /\ asked[c] \in Commands /\ Accepted(asked[c]) /\ Fits(asked[c])
       /\ sent[c] <= FrameLen(asked[c])
  /\ at[c] = "send" => sent[c] < FrameLen(asked[c])
  /\ reply[c] # None => sent[c] > 0

\* What was received is the beginning of the reply.  The receiver stops with a
\* frame, with what cannot become one, or at the end of the stream.
Stopped(c) == Enough(rx[c]) \/ (ended[c] /\ ~Waiting(c))
Received(c) ==
  /\ reply[c] = None => rx[c] = << >>
  /\ reply[c] # None =>
       /\ reply[c] \in Replies /\ Len(rx[c]) <= Len(reply[c])
       /\ rx[c] = SubSeq(reply[c], 1, Len(rx[c]))
  /\ at[c] = "parse" => Stopped(c)
  /\ result[c] = "answered" =>
       WellFormed(rx[c]) /\ resp[c] = Cut(Payload(rx[c]))
  /\ result[c] = "failed" /\ c \notin faulted =>
       sent[c] = 0 \/ (Stopped(c) /\ ~WellFormed(rx[c]))

CallInv(c) == Stage(c) /\ Framed(c) /\ Received(c)
IInv == TypeOK /\ \A c \in Calls : CallInv(c)

LEMMA NatFacts ==
  /\ RespSize \in Nat \ {0} /\ MaxPayload \in Nat
  /\ \A m \in Commands : m.len \in Nat /\ FrameLen(m) \in Nat \ {0}
  /\ \A m \in Commands : Fits(m) => FrameLen(m) <= MaxPayload + 3
  /\ None \notin Commands
BY ConsoleAssumption, NoneAssumption DEF Fits, FrameLen, PayloadLen

LEMMA IInvInit == Init => IInv
<1>1. \A c \in Calls : << >> \in Seq(Byte)  OBVIOUS
<1>. QED BY <1>1, NatFacts, NoneAssumption
     DEF Init, IInv, TypeOK, CallInv, Stage, Framed, Received

\* Nothing is known of a call but through its own entries.
LEMMA OthersKept ==
  ASSUME IInv, NEW c \in Calls,
         at'[c] = at[c], asked'[c] = asked[c], sent'[c] = sent[c], rx'[c] = rx[c],
         result'[c] = result[c], resp'[c] = resp[c], reply'[c] = reply[c],
         ended'[c] = ended[c], c \in faulted' <=> c \in faulted
  PROVE  CallInv(c)'
BY DEF IInv, CallInv, Stage, Framed, Received, Stopped, Waiting

LEMMA IInvEnter ==
  ASSUME IInv, NEW c \in Calls, NEW m \in Commands, Enter(c, m)
  PROVE  IInv'
<1>1. TypeOK'  BY DEF IInv, TypeOK, Enter, Goto, server, dirs
<1>2. CallInv(c)'
  BY NatFacts DEF IInv, TypeOK, Enter, Goto, server, dirs,
                  CallInv, Stage, Framed, Received, Stopped, Waiting
<1>3. ASSUME NEW d \in Calls, d # c PROVE CallInv(d)'
  BY <1>3, OthersKept DEF IInv, TypeOK, Enter, Goto, server, dirs
<1>. QED BY <1>1, <1>2, <1>3 DEF IInv

LEMMA IInvConnectFrame ==
  ASSUME IInv, NEW c \in Calls, Connect(c) \/ Frame(c)
  PROVE  IInv'
<1>. USE DEF Goto, GiveUp, Fault, Remember, server, dirs
<1>1. TypeOK'
  <2>1. CASE Connect(c)  BY <2>1, ConsoleAssumption DEF IInv, TypeOK, Connect
  <2>2. CASE Frame(c)  BY <2>2 DEF IInv, TypeOK, Frame
  <2>. QED BY <2>1, <2>2
<1>2. CallInv(c)'
  <2>. USE NatFacts DEF IInv, TypeOK, CallInv, Stage, Framed, Received, Stopped, Waiting
  <2>1. CASE Connect(c)  BY <2>1 DEF Connect
  <2>2. CASE Frame(c) /\ Fits(asked[c])
    <3>1. asked[c] \in Commands /\ sent[c] = 0 /\ at[c] = "frame"  BY <2>2 DEF Frame
    <3>2. 0 < FrameLen(asked[c])  BY <3>1
    <3>. QED BY <2>2, <3>1, <3>2 DEF Frame
  <2>3. CASE Frame(c) /\ ~Fits(asked[c])  BY <2>3 DEF Frame
  <2>. QED BY <2>1, <2>2, <2>3
<1>3. ASSUME NEW d \in Calls, d # c PROVE CallInv(d)'
  <2>1. CASE Connect(c)  BY <2>1, <1>3, OthersKept DEF IInv, TypeOK, Connect
  <2>2. CASE Frame(c)  BY <2>2, <1>3, OthersKept DEF IInv, TypeOK, Frame
  <2>. QED BY <2>1, <2>2
<1>. QED BY <1>1, <1>2, <1>3 DEF IInv

LEMMA IInvSend ==
  ASSUME IInv, NEW c \in Calls, Send(c)
  PROVE  IInv'
<1>. USE DEF Goto, GiveUp, Fault, server, dirs
<1>1. /\ at[c] = "send" /\ asked[c] \in Commands /\ Fits(asked[c])
      /\ FrameLen(asked[c]) \in Nat /\ FrameLen(asked[c]) <= MaxPayload + 3
      /\ sent[c] \in Nat
  BY NatFacts DEF IInv, TypeOK, CallInv, Framed, Send
<1>2. CASE \E n \in 1 .. FrameLen(asked[c]) - sent[c] :
             /\ sent' = [sent EXCEPT ![c] = @ + n]
             /\ IF sent[c] + n = FrameLen(asked[c])
                THEN Goto(c, "recv") ELSE UNCHANGED at
             /\ UNCHANGED <<result, faulted>>
  <2>1. PICK n \in 1 .. FrameLen(asked[c]) - sent[c] :
             /\ sent' = [sent EXCEPT ![c] = @ + n]
             /\ IF sent[c] + n = FrameLen(asked[c])
                THEN Goto(c, "recv") ELSE UNCHANGED at
             /\ UNCHANGED <<result, faulted>>
    BY <1>2
  <2>2. UNCHANGED <<asked, rx, resp, reply, ended, envFile, cached>>  BY DEF Send
  <2>3. sent[c] + n \in 1 .. FrameLen(asked[c]) /\ sent[c] + n \in 0 .. MaxPayload + 3
    BY <1>1, NatFacts
  <2>4. TypeOK'  BY <2>1, <2>2, <2>3 DEF IInv, TypeOK
  <2>5. CallInv(c)'
    BY <1>1, <2>1, <2>2, <2>3
    DEF IInv, TypeOK, CallInv, Stage, Framed, Received, Stopped, Waiting
  <2>6. ASSUME NEW d \in Calls, d # c PROVE CallInv(d)'
    BY <2>1, <2>2, <2>6, OthersKept DEF IInv, TypeOK
  <2>. QED BY <2>4, <2>5, <2>6 DEF IInv
<1>3. CASE Fault(c, "send") /\ UNCHANGED sent
  <2>1. UNCHANGED <<asked, rx, resp, reply, ended, envFile, cached>>  BY DEF Send
  <2>2. TypeOK'  BY <1>3, <2>1 DEF IInv, TypeOK
  <2>3. CallInv(c)'
    BY <1>1, <1>3, <2>1
    DEF IInv, TypeOK, CallInv, Stage, Framed, Received, Stopped, Waiting
  <2>4. ASSUME NEW d \in Calls, d # c PROVE CallInv(d)'
    BY <1>3, <2>1, <2>4, OthersKept DEF IInv, TypeOK
  <2>. QED BY <2>2, <2>3, <2>4 DEF IInv
<1>. QED BY <1>2, <1>3 DEF Send

\* A piece more of the reply, and it is still the beginning of it.
LEMMA IInvRecv ==
  ASSUME IInv, NEW c \in Calls, Recv(c)
  PROVE  IInv'
<1>. USE DEF Goto, GiveUp, Fault, server, dirs
<1>1. at[c] = "recv" /\ UNCHANGED <<asked, sent, resp, reply, ended, envFile, cached>>
  BY DEF Recv
<1>2. CASE Waiting(c) /\ \E n \in Len(rx[c]) + 1 .. Len(reply[c]) :
             /\ rx' = [rx EXCEPT ![c] = SubSeq(reply[c], 1, n)]
             /\ IF Enough(SubSeq(reply[c], 1, n))
                THEN Goto(c, "parse") ELSE UNCHANGED at
             /\ UNCHANGED <<result, faulted>>
  <2>1. PICK n \in Len(rx[c]) + 1 .. Len(reply[c]) :
             /\ rx' = [rx EXCEPT ![c] = SubSeq(reply[c], 1, n)]
             /\ IF Enough(SubSeq(reply[c], 1, n))
                THEN Goto(c, "parse") ELSE UNCHANGED at
             /\ UNCHANGED <<result, faulted>>
    BY <1>2
  <2>2. reply[c] \in Replies /\ reply[c] \in Seq(Byte) /\ rx[c] \in Seq(Byte)
    BY <1>2, ConsoleAssumption DEF IInv, TypeOK, CallInv, Received, Waiting
  <2>3. n \in 1 .. Len(reply[c])  BY <2>2
  <2>4. SubSeq(reply[c], 1, n) \in Seq(Byte) /\ Len(SubSeq(reply[c], 1, n)) = n
    BY <2>2, <2>3
  <2>5. TypeOK'  BY <1>1, <2>1, <2>4 DEF IInv, TypeOK
  <2>6. CallInv(c)'
    BY <1>1, <1>2, <2>1, <2>2, <2>3, <2>4
    DEF IInv, TypeOK, CallInv, Stage, Framed, Received, Stopped, Waiting
  <2>7. ASSUME NEW d \in Calls, d # c PROVE CallInv(d)'
    BY <1>1, <2>1, <2>7, OthersKept DEF IInv, TypeOK
  <2>. QED BY <2>5, <2>6, <2>7 DEF IInv
<1>3. CASE /\ ~Waiting(c) /\ ended[c]
           /\ Goto(c, "parse")
           /\ UNCHANGED <<rx, result, faulted>>
  <2>1. TypeOK'  BY <1>1, <1>3 DEF IInv, TypeOK
  <2>2. CallInv(c)'
    BY <1>1, <1>3
    DEF IInv, TypeOK, CallInv, Stage, Framed, Received, Stopped, Waiting
  <2>3. ASSUME NEW d \in Calls, d # c PROVE CallInv(d)'
    BY <1>1, <1>3, <2>3, OthersKept DEF IInv, TypeOK
  <2>. QED BY <2>1, <2>2, <2>3 DEF IInv
<1>4. CASE Fault(c, "recv") /\ UNCHANGED rx
  <2>1. TypeOK'  BY <1>1, <1>4 DEF IInv, TypeOK
  <2>2. CallInv(c)'
    BY <1>1, <1>4
    DEF IInv, TypeOK, CallInv, Stage, Framed, Received, Stopped, Waiting
  <2>3. ASSUME NEW d \in Calls, d # c PROVE CallInv(d)'
    BY <1>1, <1>4, <2>3, OthersKept DEF IInv, TypeOK
  <2>. QED BY <2>1, <2>2, <2>3 DEF IInv
<1>. QED BY <1>2, <1>3, <1>4 DEF Recv

\* What a well-formed reception says of the reply.
LEMMA ReceivedText ==
  ASSUME IInv, NEW c \in Calls, WellFormed(rx[c])
  PROVE  /\ reply[c] # None /\ reply[c] \in Replies /\ Carries(reply[c])
         /\ Cut(Payload(rx[c])) = TextOf(reply[c])
         /\ Cut(Payload(rx[c])) \in Seq(Byte)
         /\ Len(Cut(Payload(rx[c]))) + 1 <= RespSize
<1>1. rx[c] # << >>
  <2>1. Len(rx[c]) >= 4  BY DEF WellFormed
  <2>. QED BY <2>1
<1>2. /\ reply[c] # None /\ reply[c] \in Replies /\ Len(rx[c]) <= Len(reply[c])
      /\ rx[c] = SubSeq(reply[c], 1, Len(rx[c])) /\ rx[c] \in Seq(Byte)
  BY <1>1 DEF IInv, TypeOK, CallInv, Received
<1>3. reply[c] \in Seq(Byte)  BY <1>2, ConsoleAssumption
<1>4. Len(rx[c]) \in 0 .. Len(reply[c])  BY <1>2, <1>3
<1>5. WellFormed(SubSeq(reply[c], 1, Len(rx[c])))  BY <1>2
<1>. QED BY <1>2, <1>3, <1>4, <1>5, PayloadIsText, TextFits

LEMMA IInvParse ==
  ASSUME IInv, NEW c \in Calls, Parse(c)
  PROVE  IInv'
<1>. USE DEF Goto, GiveUp, server, dirs
<1>1. /\ at[c] = "parse"
      /\ UNCHANGED <<asked, sent, rx, faulted, reply, ended, envFile, cached>>
  BY DEF Parse
<1>2. CASE WellFormed(rx[c])
  <2>1. /\ resp' = [resp EXCEPT ![c] = Cut(Payload(rx[c]))]
        /\ result' = [result EXCEPT ![c] = "answered"]
        /\ at' = [at EXCEPT ![c] = "done"]
    BY <1>2 DEF Parse
  <2>2. Cut(Payload(rx[c])) \in Seq(Byte)  BY <1>2, ReceivedText
  <2>. HIDE DEF Goto, GiveUp
  <2>3. TypeOK'  BY <1>1, <2>1, <2>2 DEF IInv, TypeOK
  <2>4. CallInv(c)'
    BY <1>1, <1>2, <2>1
    DEF IInv, TypeOK, CallInv, Stage, Framed, Received, Stopped, Waiting
  <2>5. ASSUME NEW d \in Calls, d # c PROVE CallInv(d)'
    BY <1>1, <2>1, <2>5, OthersKept DEF IInv, TypeOK
  <2>. QED BY <2>3, <2>4, <2>5 DEF IInv
<1>3. CASE ~WellFormed(rx[c])
  <2>1. TypeOK'  BY <1>1, <1>3 DEF IInv, TypeOK, Parse
  <2>2. CallInv(c)'
    BY <1>1, <1>3
    DEF IInv, TypeOK, CallInv, Stage, Framed, Received, Stopped, Waiting, Parse
  <2>3. ASSUME NEW d \in Calls, d # c PROVE CallInv(d)'
    BY <1>1, <1>3, <2>3, OthersKept DEF IInv, TypeOK, Parse
  <2>. QED BY <2>1, <2>2, <2>3 DEF IInv
<1>. QED BY <1>2, <1>3

\* The display server takes a command only from an open connection, which
\* the receiver has not seen the end of.
LEMMA IInvServer ==
  ASSUME IInv, NEW c \in Calls, ServerTakes(c) \/ ServerCloses(c)
  PROVE  IInv'
<1>1. CASE ServerTakes(c)
  <2>1. /\ asked[c] # None /\ reply[c] = None /\ ~ended[c]
        /\ sent[c] = FrameLen(asked[c])
        /\ UNCHANGED <<caller, ended, envFile, cached>>
    BY <1>1 DEF ServerTakes, dirs
  <2>2. PICK r \in Replies : reply' = [reply EXCEPT ![c] = r]
    BY <1>1 DEF ServerTakes
  <2>3. r \in Seq(Byte) /\ r # None /\ Len(r) \in Nat
    BY <2>2, ConsoleAssumption, NoneAssumption
  <2>4. asked[c] \in Commands /\ sent[c] > 0
    BY <2>1, NatFacts DEF IInv, TypeOK
  <2>5. rx[c] = << >> /\ SubSeq(r, 1, 0) = << >> /\ ~Enough(rx[c])
    BY <2>1, <2>3 DEF IInv, CallInv, Received, Enough
  <2>6. TypeOK'  BY <2>1, <2>2 DEF IInv, TypeOK, caller
  <2>7. CallInv(c)'
    BY <2>1, <2>2, <2>3, <2>4, <2>5
    DEF IInv, TypeOK, CallInv, Stage, Framed, Received, Stopped, caller
  <2>8. ASSUME NEW d \in Calls, d # c PROVE CallInv(d)'
    BY <2>1, <2>2, <2>8, OthersKept DEF IInv, TypeOK, caller
  <2>. QED BY <2>6, <2>7, <2>8 DEF IInv
<1>2. CASE ServerCloses(c)
  <2>1. TypeOK'  BY <1>2 DEF IInv, TypeOK, ServerCloses, caller, dirs
  <2>2. CallInv(c)'
    BY <1>2 DEF IInv, TypeOK, CallInv, Stage, Framed, Received, Stopped, Waiting,
                ServerCloses, caller, dirs
  <2>3. ASSUME NEW d \in Calls, d # c PROVE CallInv(d)'
    BY <1>2, <2>3, OthersKept DEF IInv, TypeOK, ServerCloses, caller, dirs
  <2>. QED BY <2>1, <2>2, <2>3 DEF IInv
<1>. QED BY <1>1, <1>2

LEMMA IInvElsewhere ==
  ASSUME IInv, EnvFileWritten \/ UNCHANGED vars
  PROVE  IInv'
<1>1. TypeOK'
  BY DEF IInv, TypeOK, EnvFileWritten, vars, caller, server, dirs
<1>2. ASSUME NEW d \in Calls PROVE CallInv(d)'
  BY <1>2, OthersKept DEF EnvFileWritten, vars, caller, server, dirs
<1>. QED BY <1>1, <1>2 DEF IInv

LEMMA IInvNext == IInv /\ [Next]_vars => IInv'
<1>. SUFFICES ASSUME IInv, [Next]_vars PROVE IInv'
  OBVIOUS
<1>1. ASSUME NEW c \in Calls, (\E m \in Commands : Enter(c, m)) \/ CallStep(c)
      PROVE  IInv'
  BY <1>1, IInvEnter, IInvConnectFrame, IInvSend, IInvRecv, IInvParse DEF CallStep
<1>2. ASSUME NEW c \in Calls, ServerTakes(c) \/ ServerCloses(c)
      PROVE  IInv'
  BY <1>2, IInvServer
<1>3. CASE EnvFileWritten \/ UNCHANGED vars  BY <1>3, IInvElsewhere
<1>. QED BY <1>1, <1>2, <1>3 DEF Next

LEMMA Inductive == Spec => []IInv
BY IInvInit, IInvNext, PTL DEF Spec

(***************************************************************************)
(* Theorems                                                                *)
(***************************************************************************)

\* The reply that carries a text makes a well-formed frame once all of it, or
\* enough of it, was received.
LEMMA CarriedIsFormed ==
  ASSUME IInv, NEW c \in Calls, Stopped(c), reply[c] # None,
         Carries(reply[c]), reply[c][3] # 0
  PROVE  WellFormed(rx[c])
<1>. DEFINE r == reply[c]
            b == rx[c]
<1>1. /\ r \in Seq(Byte) /\ b \in Seq(Byte)
      /\ Len(b) <= Len(r) /\ b = SubSeq(r, 1, Len(b))
  BY ConsoleAssumption DEF IInv, TypeOK, CallInv, Received
<1>2. /\ Len(r) >= 3 /\ r[1] = D /\ r[2] = S /\ Len(r) >= r[3] + 3
  BY DEF Carries
<1>3. r[3] \in Nat /\ r[3] > 0
  <2>1. r[3] \in Byte  BY <1>1, <1>2
  <2>2. r[3] \in Nat  BY <2>1, ByteIsNat
  <2>. QED BY <2>2
<1>4. Len(b) >= 3 =>
        Magic(b) /\ Announced(b) = r[3] + 3
  <2>. SUFFICES ASSUME Len(b) >= 3 PROVE Magic(b) /\ Announced(b) = r[3] + 3
    OBVIOUS
  <2>1. \A i \in 1 .. Len(b) : SubSeq(r, 1, Len(b))[i] = r[i]  BY <1>1
  <2>2. b[1] = r[1] /\ b[2] = r[2] /\ b[3] = r[3]  BY <1>1, <2>1
  <2>. QED BY <1>2, <2>2 DEF Magic, Announced
<1>5. Len(b) \in Nat /\ Len(r) \in Nat  BY <1>1
<1>6. CASE Enough(b)
  <2>1. Len(b) >= 3 /\ Magic(b) /\ Len(b) >= Announced(b) /\ Announced(b) = r[3] + 3
    BY <1>4, <1>6 DEF Enough
  <2>2. Len(b) >= 4
    <3>. HIDE DEF b, r
    <3>. QED BY <1>3, <1>5, <2>1
  <2>. QED BY <2>1, <2>2 DEF WellFormed
<1>7. CASE ~Waiting(c)
  <2>1. Len(b) = Len(r)
    <3>1. ~(Len(b) < Len(r))  BY <1>7 DEF Waiting
    <3>. HIDE DEF b, r
    <3>. QED BY <1>1, <1>5, <3>1
  <2>2. Magic(b) /\ Announced(b) = r[3] + 3  BY <1>2, <1>4, <2>1
  <2>3. Len(b) >= 4 /\ Len(b) >= Announced(b)
    <3>. HIDE DEF b, r
    <3>. QED BY <1>2, <1>3, <1>5, <2>1, <2>2
  <2>. QED BY <2>2, <2>3 DEF WellFormed
<1>. QED BY <1>6, <1>7 DEF Stopped

\* Every reachable state is well typed; no more is ever sent of a frame than
\* it has bytes.
THEOREM WellTyped == Spec => []TypeOK
<1>1. IInv => TypeOK  BY DEF IInv
<1>. QED BY <1>1, Inductive, PTL

\* westerosGLConsoleRWWrapper never takes a complete answer for a failure,
\* however the kernel cuts it into pieces.
THEOREM NoAnswerLost == Spec => []NothingLost
<1>1. IInv => NothingLost
  <2>. SUFFICES ASSUME IInv, NEW c \in Calls, result[c] = "failed", c \notin faulted,
                       reply[c] # None, Carries(reply[c]), reply[c][3] # 0
                PROVE  FALSE
    BY DEF NothingLost
  <2>1. sent[c] # 0  BY DEF IInv, TypeOK, CallInv, Framed
  <2>2. Stopped(c) /\ ~WellFormed(rx[c])  BY <2>1 DEF IInv, CallInv, Received
  <2>. QED BY <2>2, CarriedIsFormed
<1>. QED BY <1>1, Inductive, PTL

\* The display server never carries out a command that the call has refused,
\* or one whose length does not fit in the frame's byte.
THEOREM OnlyWholeTaken == Spec => []OnlyWholeCommands
<1>1. IInv => OnlyWholeCommands
  BY DEF IInv, CallInv, Framed, OnlyWholeCommands, Fits
<1>. QED BY <1>1, Inductive, PTL

\* The caller's buffer holds the text and its NUL, whatever the server sends.
THEOREM AnswerFits == Spec => []FitsBuffer
<1>1. IInv => FitsBuffer
  <2>. SUFFICES ASSUME IInv, NEW c \in Calls, result[c] = "answered"
                PROVE  Len(resp[c]) + 1 <= RespSize
    BY DEF FitsBuffer
  <2>1. WellFormed(rx[c]) /\ resp[c] = Cut(Payload(rx[c]))
    BY DEF IInv, CallInv, Received
  <2>. QED BY <2>1, ReceivedText
<1>. QED BY <1>1, Inductive, PTL

LEMMA ExchangeInit == Init => Exchanges!Init
BY DEF Init, Exchanges!Init

\* What no caller sees: the pieces of the frame, the connection, the files.
LEMMA ExchangeStutters ==
  ASSUME \/ UNCHANGED vars \/ EnvFileWritten
         \/ \E c \in Calls : ServerCloses(c)
  PROVE  UNCHANGED Exchanges!vars
BY DEF EnvFileWritten, ServerCloses, vars, caller, server, dirs, Exchanges!vars

LEMMA ExchangeCall ==
  ASSUME IInv, NEW c \in Calls, Connect(c) \/ Frame(c) \/ Send(c) \/ Recv(c)
  PROVE  Exchanges!Fail(c) \/ UNCHANGED Exchanges!vars
<1>. USE DEF Goto, GiveUp, Fault, server, Exchanges!Fail, Exchanges!vars
<1>1. result[c] = "open"
  BY DEF IInv, TypeOK, CallInv, Stage, Connect, Frame, Send, Recv
<1>2. CASE Connect(c)  BY <1>1, <1>2 DEF Connect
<1>3. CASE Frame(c)  BY <1>1, <1>3 DEF Frame
<1>4. CASE Send(c)  BY <1>1, <1>4 DEF Send
<1>5. CASE Recv(c)  BY <1>1, <1>5 DEF Recv
<1>. QED BY <1>2, <1>3, <1>4, <1>5

LEMMA ExchangeParse ==
  ASSUME IInv, NEW c \in Calls, Parse(c)
  PROVE  Exchanges!Answer(c) \/ Exchanges!Fail(c)
<1>1. result[c] = "open" /\ UNCHANGED <<asked, reply>>
  BY DEF IInv, TypeOK, CallInv, Stage, Parse, server
<1>2. CASE WellFormed(rx[c])
  <2>1. /\ resp' = [resp EXCEPT ![c] = Cut(Payload(rx[c]))]
        /\ result' = [result EXCEPT ![c] = "answered"]
    BY <1>2 DEF Parse
  <2>2. reply[c] \in Answers /\ Cut(Payload(rx[c])) = TextOf(reply[c])
    BY <1>2, ReceivedText DEF Answers
  <2>. QED BY <1>1, <2>1, <2>2 DEF Exchanges!Answer
<1>3. CASE ~WellFormed(rx[c])
  BY <1>1, <1>3 DEF Parse, GiveUp, Exchanges!Fail
<1>. QED BY <1>2, <1>3

\* The server answers calls that wait, or that have failed after they had
\* sent their frame; never one that has its answer.
LEMMA ExchangeTake ==
  ASSUME IInv, NEW c \in Calls, ServerTakes(c)
  PROVE  \E r \in Replies : Exchanges!Take(c, r)
<1>1. PICK r \in Replies : reply' = [reply EXCEPT ![c] = r]
  <2>1. PICK f \in {[reply EXCEPT ![c] = r] : r \in Replies} : reply' = f
    BY DEF ServerTakes
  <2>. QED BY <2>1
<1>2. asked[c] # None /\ reply[c] = None /\ UNCHANGED caller
  BY DEF ServerTakes
<1>3. result[c] # "new"
  BY <1>2, NatFacts DEF IInv, TypeOK, CallInv, Stage
<1>4. result[c] # "answered"
  <2>. SUFFICES ASSUME result[c] = "answered" PROVE FALSE
    OBVIOUS
  <2>1. WellFormed(rx[c])  BY DEF IInv, CallInv, Received
  <2>. QED BY <1>2, <2>1, ReceivedText
<1>5. result[c] \in {"open", "failed"}
  BY <1>3, <1>4 DEF IInv, TypeOK
<1>. QED BY <1>1, <1>2, <1>5 DEF Exchanges!Take, caller

LEMMA ExchangeNext ==
  ASSUME IInv, [Next]_vars
  PROVE  [Exchanges!Next]_(Exchanges!vars)
<1>1. ASSUME NEW c \in Calls, NEW m \in Commands, Enter(c, m)
      PROVE  Exchanges!Ask(c, m)
  BY <1>1 DEF Enter, server, Exchanges!Ask
<1>2. ASSUME NEW c \in Calls, CallStep(c)
      PROVE  Exchanges!Answer(c) \/ Exchanges!Fail(c) \/ UNCHANGED Exchanges!vars
  BY <1>2, ExchangeCall, ExchangeParse DEF CallStep
<1>3. ASSUME NEW c \in Calls, ServerTakes(c)
      PROVE  \E r \in Replies : Exchanges!Take(c, r)
  BY <1>3, ExchangeTake
<1>4. CASE \/ UNCHANGED vars \/ EnvFileWritten
           \/ \E c \in Calls : ServerCloses(c)
  BY <1>4, ExchangeStutters
<1>. QED BY <1>1, <1>2, <1>3, <1>4 DEF Next, Exchanges!Next

\* A caller of westerosGLConsoleRWWrapper may think of a command and its
\* answer as one exchange: what it is handed is the text that the display
\* server sent for this very command, and a command is taken once at most.
THEOREM ExchangeImplemented == Spec => Implements
<1>1. IInv /\ [Next]_vars => [Exchanges!Next]_(Exchanges!vars)  BY ExchangeNext
<1>. QED BY <1>1, ExchangeInit, Inductive, PTL DEF Spec, Implements, Exchanges!Spec
=============================================================================
