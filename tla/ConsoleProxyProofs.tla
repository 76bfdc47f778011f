------------------------- MODULE ConsoleProxyProofs -------------------------
(***************************************************************************)
(* Theorems about ConsoleProxy, for frames of any length and a client that *)
(* sends any number of bytes.                                              *)
(***************************************************************************)
EXTENDS ConsoleProxy, SequenceTheorems, TLAPS

\* The bytes the client numbers from k + 1 on, n of them.
LEMMA FrameBytes ==
  ASSUME NEW n \in Nat, NEW k \in Nat
  PROVE  /\ [i \in 1..n |-> k + i] \in Seq(Nat)
         /\ Len([i \in 1..n |-> k + i]) = n
         /\ \A i \in 1..n : [j \in 1..n |-> k + j][i] = k + i
<1> DEFINE s == [i \in 1..n |-> k + i]
<1>1. s \in [1..n -> Nat]
  OBVIOUS
<1>2. s \in Seq(Nat)
  BY <1>1, SeqDef
<1>3. QED BY <1>1, <1>2, LenProperties

\* What a frame leaves in the buffer: itself, and behind it whatever was there.
LEMMA WriteOverwrites ==
  ASSUME NEW b \in Buffer, NEW bytes \in Seq(Nat)
  PROVE  LET w == Write(Open(b), bytes) IN
         /\ w \in Buffer
         /\ w.pos = Len(bytes) /\ w.pos <= Len(w.data)
         /\ Len(w.data) = IF Len(bytes) > Len(b.data) THEN Len(bytes) ELSE Len(b.data)
         /\ \A i \in 1..Len(w.data) :
              w.data[i] = IF i <= Len(bytes) THEN bytes[i] ELSE b.data[i]
<1> DEFINE o == Open(b)
           end == o.pos + Len(bytes)
           len == IF end > Len(o.data) THEN end ELSE Len(o.data)
           d == [i \in 1..len |-> IF o.pos < i /\ i <= end THEN bytes[i - o.pos] ELSE o.data[i]]
<1>1. Write(o, bytes) = [o EXCEPT !.pos = end, !.data = d]
  BY Zenon DEF Write
<1>2. o \in Buffer /\ o.data = b.data /\ o.pos = 0
  BY DEF Open, Buffer
<1> HIDE DEF o
<1>3. /\ Len(bytes) \in Nat /\ bytes \in [1..Len(bytes) -> Nat]
      /\ Len(b.data) \in Nat /\ b.data \in [1..Len(b.data) -> Nat]
  BY LenProperties DEF Buffer
<1>4. /\ end = Len(bytes) /\ end \in Nat
      /\ len = IF Len(bytes) > Len(b.data) THEN Len(bytes) ELSE Len(b.data)
  BY <1>2, <1>3
<1> HIDE DEF end, len
<1>5. len \in Nat /\ len >= end /\ \A i \in 1..len : i <= Len(bytes) \/ i <= Len(b.data)
  BY <1>3, <1>4
<1>6. \A i \in 1..len : d[i] = IF i <= Len(bytes) THEN bytes[i] ELSE b.data[i]
  BY <1>2, <1>3, <1>4
<1>7. \A i \in 1..len : d[i] \in Nat
  BY <1>3, <1>5, <1>6
<1>8. d \in [1..len -> Nat]
  BY <1>7
<1> HIDE DEF d
<1>9. d \in Seq(Nat)
  BY <1>5, <1>8, SeqDef
<1>10. Len(d) = len
  BY <1>5, <1>8, <1>9, LenProperties
<1> DEFINE w == [o EXCEPT !.pos = end, !.data = d]
<1>11. w \in Buffer /\ w.pos = end /\ w.data = d
  BY <1>2, <1>4, <1>9 DEF Buffer
<1>12. QED BY <1>4, <1>5, <1>6, <1>10, <1>11, <1>1 DEF o

\* What readAll returns lies behind the position.
LEMMA ReadAllGives ==
  ASSUME NEW b \in Buffer, b.pos <= Len(b.data),
         NEW S, \A i \in 1..Len(b.data) : b.data[i] \in S
  PROVE  /\ ReadAll(b) \in Seq(S)
         /\ Len(ReadAll(b)) = Len(b.data) - b.pos
         /\ \A i \in 1..(Len(b.data) - b.pos) : ReadAll(b)[i] = b.data[b.pos + i]
<1> DEFINE d == b.data
           m == b.pos + 1
           n == Len(b.data)
<1>1. n \in Nat /\ b.pos \in Nat /\ m \in Nat \ {0} /\ m <= n + 1
  BY LenProperties DEF Buffer
<1>2. \A i \in m..n : d[i] \in S
  BY <1>1
<1>3. ReadAll(b) = SubSeq(d, m, n)
  BY DEF ReadAll
<1>4. n - m + 1 = n - b.pos /\ (m <= n => n - m + 1 = n - b.pos) /\ (~(m <= n) => n - b.pos = 0)
  BY <1>1
<1>5. \A i \in 1..(n - b.pos) : m + i - 1 = b.pos + i
  BY <1>1
<1> HIDE DEF d, m, n
<1>6. m \in Int /\ n \in Int
  BY <1>1
<1>7. /\ SubSeq(d, m, n) \in Seq(S)
      /\ Len(SubSeq(d, m, n)) = IF m <= n THEN n - m + 1 ELSE 0
      /\ \A i \in 1..(n - m + 1) : SubSeq(d, m, n)[i] = d[m + i - 1]
  BY <1>2, <1>6, SubSeqProperties
<1> DEFINE t == SubSeq(d, m, n)
<1> HIDE DEF t
<1>8. t \in Seq(S) /\ Len(t) = n - b.pos
  BY <1>4, <1>7 DEF t
<1>9. \A i \in 1..(n - b.pos) : t[i] = d[b.pos + i]
  BY <1>4, <1>5, <1>7 DEF t
<1>10. QED BY <1>3, <1>8, <1>9 DEF t, d, n

\* A stream of different numbers up to s, and behind it the n numbers after s.
LEMMA LongerStream ==
  ASSUME NEW s \in Nat, NEW n \in Nat, NEW l \in Nat, NEW t, NEW u, l <= s,
         \A i \in 1..l : t[i] \in 1..s,
         \A i, j \in 1..l : t[i] = t[j] => i = j,
         \A i \in 1..(l + n) : u[i] = IF i <= l THEN t[i] ELSE s + (i - l)
  PROVE  /\ \A i \in 1..(l + n) : u[i] \in 1..(s + n)
         /\ \A i, j \in 1..(l + n) : u[i] = u[j] => i = j
<1>1. ASSUME NEW i \in 1..(l + n)
      PROVE  \/ i \in 1..l /\ u[i] = t[i] /\ t[i] \in 1..s
             \/ i - l \in 1..n /\ u[i] = s + (i - l)
  <2>1. CASE i <= l
    <3>1. i \in 1..l
      BY <2>1
    <3>2. QED BY <2>1, <3>1
  <2>2. CASE ~(i <= l)
    <3>1. i - l \in 1..n
      BY <2>2
    <3>2. QED BY <2>2, <3>1
  <2>3. QED BY <2>1, <2>2
<1>2. ASSUME NEW i \in 1..(l + n) PROVE u[i] \in 1..(s + n)
  BY <1>1
<1>3. ASSUME NEW i \in 1..(l + n), NEW j \in 1..(l + n), u[i] = u[j] PROVE i = j
  <2>1. \/ i \in 1..l /\ u[i] = t[i] /\ t[i] \in 1..s
        \/ i - l \in 1..n /\ u[i] = s + (i - l)
    BY <1>1
  <2>2. \/ j \in 1..l /\ u[j] = t[j] /\ t[j] \in 1..s
        \/ j - l \in 1..n /\ u[j] = s + (j - l)
    BY <1>1
  <2>3. CASE u[i] > s
    <3>1. u[i] = s + (i - l) /\ u[j] = s + (j - l)
      BY <1>3, <2>1, <2>2, <2>3
    <3>2. s + (i - l) = s + (j - l)
      BY <1>3, <3>1
    <3>3. QED BY <3>2
  <2>4. CASE ~(u[i] > s)
    <3>1. i \in 1..l /\ u[i] = t[i]
      BY <2>1, <2>4
    <3>2. j \in 1..l /\ u[j] = t[j]
      BY <1>3, <2>2, <2>4
    <3>3. QED BY <1>3, <3>1, <3>2
  <2>5. QED BY <2>3, <2>4
<1>4. QED BY <1>2, <1>3

\* The numbers since some mark go on with those that are added.
LEMMA LongerSince ==
  ASSUME NEW s \in Nat, NEW n \in Nat, NEW l \in Nat, NEW t, NEW u,
         NEW ml \in Nat, NEW ms \in Nat, ml <= l, ms <= s, l - ml = s - ms,
         \A i \in 1..(s - ms) : t[ml + i] = ms + i,
         \A i \in 1..(l + n) : u[i] = IF i <= l THEN t[i] ELSE s + (i - l)
  PROVE  \A i \in 1..(s + n - ms) : u[ml + i] = ms + i
<1> SUFFICES ASSUME NEW i \in 1..(s + n - ms) PROVE u[ml + i] = ms + i
  OBVIOUS
<1>1. ml + i \in 1..(l + n)
  OBVIOUS
<1>2. CASE i <= s - ms
  <2>1. i \in 1..(s - ms) /\ ml + i <= l
    BY <1>2
  <2>2. QED BY <1>1, <2>1
<1>3. CASE ~(i <= s - ms)
  <2>1. ~(ml + i <= l) /\ s + ((ml + i) - l) = ms + i
    BY <1>3
  <2>2. QED BY <1>1, <2>1
<1>4. QED BY <1>2, <1>3

-----------------------------------------------------------------------------

\* Nothing reached the server yet, and nothing went past the buffer.
Before == sock \in {"none", "connecting", "unheard"}

\* The buffer holds different bytes, all of which were sent.
BufferInv ==
  /\ Len(buf.data) <= sent
  /\ \A i \in 1..Len(buf.data) : buf.data[i] \in 1..sent
  /\ \A i, j \in 1..Len(buf.data) : buf.data[i] = buf.data[j] => i = j

\* So does the stream, in which those sent since the connection are the last.
StreamInv ==
  /\ Len(toServer) <= sent
  /\ \A i \in 1..Len(toServer) : toServer[i] \in 1..sent
  /\ \A i, j \in 1..Len(toServer) : toServer[i] = toServer[j] => i = j
  /\ Before => toServer = <<>>
  /\ sock = "connected" =>
       /\ mark.len <= Len(toServer) /\ mark.sent <= sent
       /\ Len(toServer) - mark.len = sent - mark.sent
       /\ \A i \in 1..(sent - mark.sent) : toServer[mark.len + i] = mark.sent + i

\* A VNC client waits for the server: no byte of it ever meets the buffer
\* before the connection.
VncInv ==
  kind = "vnc" =>
    /\ Before => ~greeted /\ buf.data = <<>> /\ sent = 0
    /\ sock = "connected" /\ ~greeted => sent = 0
    /\ sock = "connected" => Len(toServer) = sent
    /\ \A i \in 1..Len(toServer) : toServer[i] = i

PhaseInv ==
  /\ sock = "none" <=> ws \in {"new", "refused"}
  /\ sock = "none" => sent = 0 /\ mark = [sent |-> 0, len |-> 0]
  /\ NoHalfOpen

Inv == TypeOK /\ BufferInv /\ StreamInv /\ VncInv /\ PhaseInv

LEMMA InvInit == Init => Inv
<1> SUFFICES ASSUME Init PROVE Inv
  OBVIOUS
<1>1. <<>> \in Seq(Nat) /\ <<>> \in Seq(1..ByteMax) /\ Len(<<>>) = 0
  OBVIOUS
<1>2. TypeOK
  <2>1. buf \in Buffer /\ buf.pos <= Len(buf.data)
    BY <1>1 DEF Init, Buffer
  <2>2. mark \in [sent : 0..ByteMax, len : 0..ByteMax] /\ sent \in 0..ByteMax
    BY ByteMaxAssumption DEF Init
  <2>3. QED BY <1>1, <2>1, <2>2 DEF Init, TypeOK, Kind, Ws, Sock
<1>3. BufferInv /\ StreamInv /\ VncInv
  BY <1>1 DEF Init, BufferInv, StreamInv, VncInv, Before
<1>4. PhaseInv
  BY DEF Init, PhaseInv, NoHalfOpen
<1>5. QED BY <1>2, <1>3, <1>4 DEF Inv

\* A frame that is written to the buffer: its bytes are newer than all there.
LEMMA FrameBuffered ==
  ASSUME TypeOK, BufferInv, NEW n \in 1..FrameMax, sent + n <= ByteMax
  PROVE  LET w == Write(Open(buf), NextFrame(n)) IN
         /\ w \in Buffer /\ w.pos <= Len(w.data)
         /\ Len(w.data) <= sent + n
         /\ \A i \in 1..Len(w.data) : w.data[i] \in 1..(sent + n)
         /\ \A i, j \in 1..Len(w.data) : w.data[i] = w.data[j] => i = j
<1> DEFINE w == Write(Open(buf), NextFrame(n))
<1>1. sent \in Nat /\ n \in Nat \ {0} /\ buf \in Buffer
  BY FrameMaxAssumption, ByteMaxAssumption DEF TypeOK
<1>2. /\ NextFrame(n) \in Seq(Nat) /\ Len(NextFrame(n)) = n
      /\ \A i \in 1..n : NextFrame(n)[i] = sent + i
  BY <1>1, FrameBytes DEF NextFrame
<1> DEFINE f == NextFrame(n)
<1> HIDE DEF f
<1>3. f \in Seq(Nat) /\ Len(f) = n /\ \A i \in 1..n : f[i] = sent + i
  BY <1>2 DEF f
<1>4. LET v == Write(Open(buf), f) IN
      /\ v \in Buffer
      /\ v.pos = Len(f) /\ v.pos <= Len(v.data)
      /\ Len(v.data) = IF Len(f) > Len(buf.data) THEN Len(f) ELSE Len(buf.data)
      /\ \A i \in 1..Len(v.data) : v.data[i] = IF i <= Len(f) THEN f[i] ELSE buf.data[i]
  BY <1>1, <1>3, WriteOverwrites, Zenon
<1>5. w = Write(Open(buf), f)
  BY DEF f
<1> HIDE DEF w
<1>6. /\ w \in Buffer /\ w.pos <= Len(w.data)
      /\ Len(w.data) = IF n > Len(buf.data) THEN n ELSE Len(buf.data)
      /\ \A i \in 1..Len(w.data) : w.data[i] = IF i <= n THEN sent + i ELSE buf.data[i]
  <2>1. /\ w \in Buffer /\ w.pos <= Len(w.data)
        /\ Len(w.data) = IF n > Len(buf.data) THEN n ELSE Len(buf.data)
        /\ \A i \in 1..Len(w.data) : w.data[i] = IF i <= n THEN f[i] ELSE buf.data[i]
    BY <1>3, <1>4, <1>5
  <2>2. Len(w.data) \in Nat
    BY <2>1, LenProperties DEF Buffer
  <2>3. QED BY <1>1, <1>3, <2>1, <2>2
<1>7. Len(buf.data) \in Nat /\ Len(w.data) \in Nat
  BY <1>1, <1>6, LenProperties DEF Buffer
<1>8. \A i \in 1..Len(w.data) :
        \/ i <= n /\ w.data[i] = sent + i
        \/ i \in 1..Len(buf.data) /\ w.data[i] = buf.data[i] /\ buf.data[i] \in 1..sent
  BY <1>1, <1>6, <1>7 DEF BufferInv
<1>9. Len(w.data) <= sent + n
  BY <1>1, <1>6, <1>7 DEF BufferInv
<1>10. \A i \in 1..Len(w.data) : w.data[i] \in 1..(sent + n)
  BY <1>1, <1>7, <1>8
<1>11. ASSUME NEW i \in 1..Len(w.data), NEW j \in 1..Len(w.data), w.data[i] = w.data[j]
      PROVE  i = j
  <2>1. /\ i \in Nat /\ j \in Nat
        /\ \/ i <= n /\ w.data[i] = sent + i
           \/ i \in 1..Len(buf.data) /\ w.data[i] = buf.data[i] /\ buf.data[i] \in 1..sent
        /\ \/ j <= n /\ w.data[j] = sent + j
           \/ j \in 1..Len(buf.data) /\ w.data[j] = buf.data[j] /\ buf.data[j] \in 1..sent
    BY <1>7, <1>8
  <2>2. i > 0 /\ j > 0
    BY <1>7
  <2>3. CASE w.data[i] > sent
    BY <1>1, <1>11, <2>1, <2>2, <2>3
  <2>4. CASE ~(w.data[i] > sent)
    <3>1. i \in 1..Len(buf.data) /\ j \in 1..Len(buf.data) /\ buf.data[i] = buf.data[j]
      BY <1>1, <1>11, <2>1, <2>2, <2>4
    <3>2. QED BY <3>1 DEF BufferInv
  <2>5. QED BY <2>3, <2>4
<1>12. QED BY <1>6, <1>9, <1>10, <1>11 DEF w

\* A frame that is relayed at once.
LEMMA FrameRelayed ==
  ASSUME TypeOK, StreamInv, NEW n \in 1..FrameMax, sent + n <= ByteMax
  PROVE  LET t == toServer \o NextFrame(n) IN
         /\ t \in Seq(1..ByteMax) /\ Len(t) = Len(toServer) + n
         /\ \A i \in 1..Len(t) : t[i] = IF i <= Len(toServer) THEN toServer[i]
                                        ELSE sent + (i - Len(toServer))
<1> DEFINE t == toServer \o NextFrame(n)
<1>1. sent \in Nat /\ n \in Nat \ {0} /\ ByteMax \in Nat /\ toServer \in Seq(1..ByteMax)
  BY FrameMaxAssumption, ByteMaxAssumption DEF TypeOK
<1>2. /\ NextFrame(n) \in Seq(Nat) /\ Len(NextFrame(n)) = n
      /\ \A i \in 1..n : NextFrame(n)[i] = sent + i
  BY <1>1, FrameBytes DEF NextFrame
<1>3. \A i \in 1..n : NextFrame(n)[i] \in 1..ByteMax
  BY <1>1, <1>2
<1>4. NextFrame(n) \in [1..n -> 1..ByteMax]
  BY <1>2, <1>3, LenProperties
<1>5. NextFrame(n) \in Seq(1..ByteMax)
  BY <1>1, <1>4, SeqDef
<1> DEFINE f == NextFrame(n)
<1> HIDE DEF f
<1>6. /\ toServer \o f \in Seq(1..ByteMax) /\ Len(toServer \o f) = Len(toServer) + Len(f)
      /\ \A i \in 1..Len(toServer) + Len(f) :
           (toServer \o f)[i] = IF i <= Len(toServer) THEN toServer[i] ELSE f[i - Len(toServer)]
  <2>1. f \in Seq(1..ByteMax)
    BY <1>5 DEF f
  <2>2. QED BY <1>1, <2>1, ConcatProperties, Zenon
<1>7. /\ t \in Seq(1..ByteMax) /\ Len(t) = Len(toServer) + n
      /\ \A i \in 1..Len(toServer) + n :
           t[i] = IF i <= Len(toServer) THEN toServer[i] ELSE NextFrame(n)[i - Len(toServer)]
  BY <1>2, <1>6, Zenon DEF f
<1> HIDE DEF t
<1>8. Len(toServer) \in Nat
  BY <1>1, LenProperties
<1>9. \A i \in 1..Len(t) : ~(i <= Len(toServer)) => i - Len(toServer) \in 1..n
  BY <1>1, <1>7, <1>8
<1>10. QED BY <1>2, <1>7, <1>9 DEF t

-----------------------------------------------------------------------------

\* A frame adds its bytes to the buffer or to the stream.
LEMMA FrameInv ==
  ASSUME Inv, NEW n \in 1..FrameMax, Frame(n)
  PROVE  Inv'
<1> USE DEF Inv
<1>1. /\ sent \in Nat /\ n \in Nat \ {0} /\ ByteMax \in Nat /\ toServer \in Seq(1..ByteMax)
      /\ buf \in Buffer /\ sent' = sent + n /\ sent + n <= ByteMax
      /\ ws \in {"open", "closing"} /\ UNCHANGED <<kind, ws, sock, greeted, mark>>
  BY FrameMaxAssumption, ByteMaxAssumption DEF TypeOK, Frame
<1>2. Len(toServer) \in Nat /\ Len(buf.data) \in Nat
  BY <1>1, LenProperties DEF Buffer
<1>3. sock # "none"
  BY <1>1 DEF PhaseInv
<1>4. PhaseInv'
  BY <1>1, <1>3 DEF PhaseInv, NoHalfOpen
<1>5. CASE sock # "connected"
  <2>1. buf' = Write(Open(buf), NextFrame(n)) /\ toServer' = toServer
    BY <1>5 DEF Frame
  <2>2. /\ buf' \in Buffer /\ buf'.pos <= Len(buf'.data) /\ BufferInv'
    BY <1>1, <2>1, FrameBuffered DEF BufferInv
  <2>3. TypeOK'
    BY <1>1, <2>1, <2>2 DEF TypeOK
  <2>4. StreamInv'
    BY <1>1, <1>2, <1>5, <2>1 DEF StreamInv, Before
  <2>5. kind = "vnc" => ~Before
    BY <1>1 DEF VncInv, Frame, MaySpeak
  <2>6. VncInv'
    BY <1>1, <1>5, <2>1, <2>5 DEF VncInv, Before
  <2>7. QED BY <1>4, <2>2, <2>3, <2>4, <2>6
<1>6. CASE sock = "connected"
  <2>1. toServer' = toServer \o NextFrame(n) /\ buf' = buf
    BY <1>6 DEF Frame
  <2>2. /\ toServer' \in Seq(1..ByteMax) /\ Len(toServer') = Len(toServer) + n
        /\ \A i \in 1..Len(toServer') :
             toServer'[i] = IF i <= Len(toServer) THEN toServer[i]
                            ELSE sent + (i - Len(toServer))
    BY <1>1, <2>1, FrameRelayed
  <2>3. TypeOK'
    BY <1>1, <2>1, <2>2 DEF TypeOK
  <2>4. BufferInv'
    BY <1>1, <1>2, <2>1 DEF BufferInv
  <2>5. StreamInv'
    <3> DEFINE l == Len(toServer)
               t == toServer
               u == toServer'
    <3>1. l \in Nat /\ Len(u) = l + n /\ l <= sent
          /\ \A i \in 1..(l + n) : u[i] = IF i <= l THEN t[i] ELSE sent + (i - l)
      BY <1>2, <2>2 DEF StreamInv
    <3>2. (\A i \in 1..l : t[i] \in 1..sent) /\ (\A i, j \in 1..l : t[i] = t[j] => i = j)
      BY DEF StreamInv
    <3>3. /\ mark.len \in Nat /\ mark.sent \in Nat /\ mark.len <= l /\ mark.sent <= sent
          /\ l - mark.len = sent - mark.sent
          /\ \A i \in 1..(sent - mark.sent) : t[mark.len + i] = mark.sent + i
      BY <1>6 DEF StreamInv, TypeOK
    <3>4. mark' = mark /\ n \in Nat /\ sent \in Nat /\ sent' = sent + n
      BY <1>1
    <3> HIDE DEF l, t, u
    <3>5. /\ \A i \in 1..(l + n) : u[i] \in 1..(sent + n)
          /\ \A i, j \in 1..(l + n) : u[i] = u[j] => i = j
      BY <3>1, <3>2, <3>4, LongerStream
    <3> DEFINE ml == mark.len
               ms == mark.sent
    <3> HIDE DEF ml, ms
    <3>6. /\ ml \in Nat /\ ms \in Nat /\ ml <= l /\ ms <= sent /\ l - ml = sent - ms
          /\ \A i \in 1..(sent - ms) : t[ml + i] = ms + i
      BY <3>3 DEF ml, ms
    <3>7. \A i \in 1..(sent + n - ms) : u[ml + i] = ms + i
      <4>1. \A i \in 1..(sent - ms) : t[ml + i] = ms + i
        BY <3>6
      <4>2. \A i \in 1..(l + n) : u[i] = IF i <= l THEN t[i] ELSE sent + (i - l)
        BY <3>1
      <4>3. l \in Nat /\ ml \in Nat /\ ms \in Nat /\ ml <= l /\ ms <= sent /\ l - ml = sent - ms
        BY <3>1, <3>6
      <4>4. n \in Nat /\ sent \in Nat
        BY <3>4
      <4>5. QED BY ONLY <4>1, <4>2, <4>3, <4>4, LongerSince
    <3>8. l + n <= sent + n /\ ml <= l + n /\ ms <= sent + n /\ (l + n) - ml = (sent + n) - ms
      BY <3>1, <3>6, <3>4
    <3>9. ~Before'
      BY <1>1, <1>6 DEF Before
    <3>10. /\ Len(u) <= sent'
           /\ \A i \in 1..Len(u) : u[i] \in 1..sent'
           /\ \A i, j \in 1..Len(u) : u[i] = u[j] => i = j
           /\ mark'.len <= Len(u) /\ mark'.sent <= sent'
           /\ Len(u) - mark'.len = sent' - mark'.sent
           /\ \A i \in 1..(sent' - mark'.sent) : u[mark'.len + i] = mark'.sent + i
      <4>1. Len(u) = l + n /\ sent' = sent + n /\ mark'.len = ml /\ mark'.sent = ms
        BY <3>1, <3>4 DEF ml, ms
      <4>2. Len(u) <= sent' /\ mark'.len <= Len(u) /\ mark'.sent <= sent'
            /\ Len(u) - mark'.len = sent' - mark'.sent
        BY <3>8, <4>1
      <4>3. /\ \A i \in 1..Len(u) : u[i] \in 1..sent'
            /\ \A i, j \in 1..Len(u) : u[i] = u[j] => i = j
        BY <3>5, <4>1, Zenon
      <4>4. \A i \in 1..(sent' - mark'.sent) : u[mark'.len + i] = mark'.sent + i
        <5>1. sent' - mark'.sent = sent + n - ms
          BY <3>4, <3>6, <4>1
        <5>2. QED BY <3>7, <4>1, <5>1, Zenon
      <4>5. QED BY <4>2, <4>3, <4>4
    <3>11. QED BY <3>9, <3>10 DEF StreamInv, u
  <2>6. VncInv'
    <3>1. ASSUME kind = "vnc"
          PROVE  /\ ~Before' /\ greeted' /\ Len(toServer') = sent'
                 /\ \A i \in 1..Len(toServer') : toServer'[i] = i
      <4>1. Len(toServer) = sent /\ \A i \in 1..Len(toServer) : toServer[i] = i
        BY <1>6, <3>1 DEF VncInv
      <4>2. greeted' /\ ~Before'
        BY <1>1, <1>6, <3>1 DEF Frame, MaySpeak, Before
      <4>3. QED BY <1>1, <1>2, <2>2, <4>1, <4>2
    <3>2. QED BY <1>1, <3>1 DEF VncInv
  <2>7. QED BY <1>4, <2>3, <2>4, <2>5, <2>6
<1>7. QED BY <1>5, <1>6

\* The flush writes all of the buffer, or nothing: a frame before the
\* connection left the position behind itself.
LEMMA ConnectedInv == ASSUME Inv, Connected PROVE Inv'
<1> USE DEF Inv
<1>1. /\ sock = "connecting" /\ sock' = "connected"
      /\ mark' = [sent |-> sent, len |-> Len(toServer')]
      /\ UNCHANGED <<kind, ws, sent, greeted>>
      /\ toServer = <<>> /\ Len(toServer) = 0 /\ sent \in Nat /\ ByteMax \in Nat /\ sent <= ByteMax
      /\ buf \in Buffer /\ buf.pos \in Nat /\ buf.pos <= Len(buf.data)
  BY ByteMaxAssumption DEF Connected, StreamInv, Before, TypeOK, Buffer
<1>2. Len(buf.data) \in Nat /\ buf.data \in Seq(Nat)
  BY <1>1, LenProperties DEF Buffer
<1>3. /\ Len(toServer') \in Nat /\ Len(toServer') <= sent /\ toServer' \in Seq(1..ByteMax)
      /\ \A i \in 1..Len(toServer') :
           buf.pos + i \in 1..Len(buf.data) /\ toServer'[i] = buf.data[buf.pos + i]
  <2>1. CASE buf.open
    <3>1. \A i \in 1..Len(buf.data) : buf.data[i] \in 1..ByteMax
      BY <1>1, <1>2 DEF BufferInv
    <3> DEFINE r == ReadAll(buf)
               k == Len(buf.data) - buf.pos
    <3>2. r \in Seq(1..ByteMax) /\ Len(r) = k /\ \A i \in 1..k : r[i] = buf.data[buf.pos + i]
      BY <1>1, <3>1, ReadAllGives, Zenon
    <3> HIDE DEF r
    <3>3. toServer' = r
      BY <1>1, <2>1, <3>2, ConcatEmptySeq, Zenon DEF Connected, r
    <3>4. k \in Nat /\ k <= sent /\ \A i \in 1..k : buf.pos + i \in 1..Len(buf.data)
      BY <1>1, <1>2 DEF BufferInv
    <3>5. QED BY <3>2, <3>3, <3>4
  <2>2. CASE ~buf.open
    <3>1. toServer' = <<>> /\ Len(toServer') = 0 /\ <<>> \in Seq(1..ByteMax)
      BY <1>1, <2>2 DEF Connected
    <3>2. QED BY <1>1, <3>1
  <2>3. QED BY <2>1, <2>2
<1>4. buf' \in Buffer /\ buf'.data = buf.data /\ buf'.pos \in Nat /\ buf'.pos <= Len(buf.data)
  <2>1. CASE buf.open
    <3>1. buf' = [buf EXCEPT !.open = FALSE, !.pos = 0]
      BY <2>1, Zenon DEF Connected, Close
    <3> DEFINE c == [buf EXCEPT !.open = FALSE, !.pos = 0]
    <3>2. c \in Buffer /\ c.data = buf.data /\ c.pos = 0
      BY <1>1 DEF Buffer
    <3>3. QED BY <1>2, <3>1, <3>2
  <2>2. CASE ~buf.open
    BY <1>1, <2>2 DEF Connected
  <2>3. QED BY <2>1, <2>2
<1>5. TypeOK'
  BY <1>1, <1>3, <1>4 DEF TypeOK, Sock
<1>6. BufferInv'
  BY <1>1, <1>4 DEF BufferInv
<1>7. StreamInv'
  <2>1. \A i \in 1..Len(toServer') : toServer'[i] \in 1..sent
    BY <1>3 DEF BufferInv
  <2>2. ASSUME NEW i \in 1..Len(toServer'), NEW j \in 1..Len(toServer'), toServer'[i] = toServer'[j]
        PROVE  i = j
    <3>1. buf.pos + i = buf.pos + j
      BY <1>3, <2>2 DEF BufferInv
    <3>2. QED BY <1>1, <1>3, <3>1
  <2>3. QED BY <1>1, <1>3, <2>1, <2>2 DEF StreamInv, Before
<1>8. VncInv'
  <2>1. ASSUME kind = "vnc" PROVE sent = 0 /\ Len(toServer') = 0
    BY <1>1, <1>3, <2>1 DEF VncInv, Before
  <2>2. QED BY <1>1, <2>1 DEF VncInv, Before
<1>9. PhaseInv'
  BY <1>1 DEF PhaseInv, NoHalfOpen
<1>10. QED BY <1>5, <1>6, <1>7, <1>8, <1>9

LEMMA InvStep == Inv /\ [Next]_vars => Inv'
<1> SUFFICES ASSUME Inv, [Next]_vars PROVE Inv'
  OBVIOUS
<1> USE DEF Inv
<1>1. CASE Refuse
  BY <1>1 DEF Refuse, TypeOK, Ws, BufferInv, StreamInv, VncInv, PhaseInv, Before, NoHalfOpen
<1>2. CASE Index
  <2>1. /\ sock = "none" /\ ws' = "open" /\ sock' \in {"connecting", "connected", "unheard"}
        /\ UNCHANGED <<kind, buf, sent, greeted, toServer, mark>>
        /\ sent = 0 /\ mark = [sent |-> 0, len |-> 0] /\ toServer = <<>>
    BY <1>2 DEF Index, PhaseInv, StreamInv, Before
  <2>2. mark.sent = 0 /\ mark.len = 0 /\ Len(toServer) = 0
    BY <2>1
  <2>3. TypeOK'
    BY <2>1 DEF TypeOK, Ws, Sock
  <2>4. BufferInv'
    BY <2>1 DEF BufferInv
  <2>5. StreamInv'
    BY <2>1, <2>2 DEF StreamInv, Before
  <2>6. VncInv'
    BY <2>1, <2>2 DEF VncInv, Before
  <2>7. PhaseInv'
    BY <2>1 DEF PhaseInv, NoHalfOpen
  <2>8. QED BY <2>3, <2>4, <2>5, <2>6, <2>7
<1>3. CASE Connected
  BY <1>3, ConnectedInv
<1>4. CASE Ended
  BY <1>4 DEF Ended, CloseWs, TypeOK, Ws, Sock, BufferInv, StreamInv, VncInv, PhaseInv, Before, NoHalfOpen
<1>5. CASE ReadyRead
  BY <1>5 DEF ReadyRead, TypeOK, BufferInv, StreamInv, VncInv, PhaseInv, Before, NoHalfOpen
<1>6. CASE Leave
  BY <1>6 DEF Leave, TypeOK, Ws, Sock, BufferInv, StreamInv, VncInv, PhaseInv, Before, NoHalfOpen
<1>7. CASE \E n \in 1..FrameMax : Frame(n)
  BY <1>7, FrameInv
<1>8. CASE UNCHANGED vars
  BY <1>8 DEF vars, TypeOK, BufferInv, StreamInv, VncInv, PhaseInv, Before, NoHalfOpen
<1>9. QED BY <1>1, <1>2, <1>3, <1>4, <1>5, <1>6, <1>7, <1>8 DEF Next

\* Every reachable state of a console session satisfies the invariant.
THEOREM Invariant == Spec => []Inv
BY InvInit, InvStep, PTL DEF Spec

-----------------------------------------------------------------------------
(* The properties *)

LEMMA NumbersType ==
  ASSUME NEW k \in Nat, NEW n \in Nat
  PROVE  Numbers(k, n) \in Seq(Nat) /\ Len(Numbers(k, n)) = n
         /\ \A i \in 1..n : Numbers(k, n)[i] = k + i
  BY FrameBytes DEF Numbers

\* A sequence of numbers is the one that its elements say.
LEMMA AreNumbers ==
  ASSUME NEW k \in Nat, NEW n \in Nat, NEW t \in Seq(Nat), Len(t) = n,
         \A i \in 1..n : t[i] = k + i
  PROVE  t = Numbers(k, n)
<1>1. t \in [1..n -> Nat]
  BY LenProperties
<1>2. QED BY <1>1 DEF Numbers

\* A VNC server gets all that its client sends while the connection lasts, each
\* byte once and in order, however the frames and callbacks come (Ws::index).
THEOREM VncStreamWhole == Spec => []VncStream
<1>1. Inv => VncStream
  <2> SUFFICES ASSUME Inv, kind = "vnc"
               PROVE  /\ toServer = Numbers(0, Len(toServer))
                      /\ sock = "connected" => Len(toServer) = sent
    BY DEF VncStream
  <2>1. toServer \in Seq(1..ByteMax) /\ ByteMax \in Nat
    BY ByteMaxAssumption DEF Inv, TypeOK
  <2>2. toServer \in Seq(Nat) /\ Len(toServer) \in Nat
    BY <2>1, SeqMonotonic, LenProperties
  <2>3. \A i \in 1..Len(toServer) : toServer[i] = 0 + i
    BY <2>2 DEF Inv, VncInv
  <2>4. toServer = Numbers(0, Len(toServer))
    BY <2>2, <2>3, AreNumbers
  <2>5. QED BY <2>4 DEF Inv, VncInv
<1>2. QED BY <1>1, Invariant, PTL

\* No frame overtakes another once the connection stands, and nothing is
\* relayed twice, through the buffer and past it (Ws::index).
THEOREM Relayed == Spec => []RelayedOnce
<1>1. Inv => RelayedOnce
  <2> SUFFICES ASSUME Inv PROVE RelayedOnce
    OBVIOUS
  <2>1. /\ toServer \in Seq(1..ByteMax) /\ ByteMax \in Nat /\ sent \in Nat
        /\ mark.len \in Nat /\ mark.sent \in Nat
    BY ByteMaxAssumption DEF Inv, TypeOK
  <2>2. Len(toServer) \in Nat /\ DOMAIN toServer = 1..Len(toServer)
    BY <2>1, LenProperties
  <2>3. NoByteTwice
    BY <2>2 DEF NoByteTwice, Inv, StreamInv
  <2>4. ASSUME sock = "connected"
        PROVE  SubSeq(toServer, mark.len + 1, Len(toServer)) = Numbers(mark.sent, sent - mark.sent)
    <3> DEFINE m == mark.len + 1
               l == Len(toServer)
               n == sent - mark.sent
               t == SubSeq(toServer, m, l)
    <3>1. /\ mark.len <= l /\ mark.sent <= sent /\ l - mark.len = n /\ n \in Nat
          /\ \A i \in 1..n : toServer[mark.len + i] = mark.sent + i
      BY <2>1, <2>2, <2>4 DEF Inv, StreamInv
    <3>2. m \in Nat /\ l \in Nat /\ l - m + 1 = n /\ (~(m <= l) => n = 0)
          /\ \A i \in 1..n : m + i - 1 = mark.len + i
      <4> DEFINE k == mark.len
      <4>1. k \in Nat /\ l \in Nat /\ n \in Nat /\ l - k = n /\ m = k + 1
        BY <2>1, <2>2, <3>1
      <4> HIDE DEF k, l, n, m
      <4>2. m \in Nat /\ l - m + 1 = n /\ (~(m <= l) => n = 0) /\ \A i \in 1..n : m + i - 1 = k + i
        BY <4>1
      <4>3. QED BY <4>1, <4>2 DEF k
    <3>3. \A i \in m..l : toServer[i] \in Nat
      BY <2>1, <2>2
    <3> HIDE DEF m, l, n
    <3>4. /\ t \in Seq(Nat) /\ Len(t) = IF m <= l THEN l - m + 1 ELSE 0
          /\ \A i \in 1..(l - m + 1) : t[i] = toServer[m + i - 1]
      BY <3>2, <3>3, SubSeqProperties
    <3> HIDE DEF t
    <3>5. Len(t) = n /\ \A i \in 1..n : t[i] = mark.sent + i
      BY <3>1, <3>2, <3>4
    <3>6. t = Numbers(mark.sent, n)
      BY <2>1, <3>1, <3>4, <3>5, AreNumbers
    <3>7. QED BY <3>6 DEF t, m, l, n
  <2>5. QED BY <2>3, <2>4 DEF RelayedOnce, FifoOnceConnected, Inv
<1>2. QED BY <1>1, Invariant, PTL

\* No websocket stays open for a socket that is gone, whichever callback came
\* first (Ws::index).
THEOREM NeverHalfOpen == Spec => []NoHalfOpen
<1>1. Inv => NoHalfOpen
  BY DEF Inv, PhaseInv
<1>2. QED BY <1>1, Invariant, PTL

=============================================================================
