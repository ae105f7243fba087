------------------------- MODULE FileTransferProofs -------------------------
(***************************************************************************)
(* The file transfer, for all sizes of the file, of the older file, of the *)
(* devices' buffers and of the queue: a server that has verified the file  *)
(* stores what the client's digest was computed from, a good file is never *)
(* dropped by a server that succeeds, and a told file is final.            *)
(*                                                                         *)
(* The inductive invariant numbers the messages a client sends (the        *)
(* digest, the count, the messages of the file): the queue holds, in       *)
(* order, the ones after those the server has taken, and together with     *)
(* them the ones the client has sent.  What the server received and stored *)
(* follows from that.                                                      *)
(***************************************************************************)
EXTENDS FileTransfer, SequenceTheorems, TLAPS

Messages == [kind : {"digest", "count", "segment"}, of : Seq(Int), n : Nat, last : BOOLEAN]

Shapes ==
    /\ {source, digest, expected, old, dest} \subseteq Seq(Int)
    /\ packed \in [of : Seq(Int), n : Nat] /\ sent \in Nat /\ cap \in Nat
    /\ toServer \in Seq(Messages) /\ received \in Seq(Messages)
    /\ shaFailed \in BOOLEAN

\* The n-th message of a file of so many; it is read from the mapping, byte by
\* byte, or is a part of the compressed file.
IsSegment(m, n, many, mapped) ==
    /\ m.kind = "segment" /\ m.n = n /\ n \in 1..many /\ m.of \in Seq(Int)
    /\ mapped => Len(m.of) = 1

\* The k-th message of a transfer.
IsMessage(m, k, of, many, mapped) ==
    /\ k = 1 => m = Digest(of)
    /\ k = 2 => m = Count(many)
    /\ k > 2 => IsSegment(m, k - 2, many, mapped)

\* The steps at which the server still takes messages, and how many it has.
Takes == {"digest", "count", "file"}
Taken == IF server = "digest" THEN 0 ELSE IF server = "count" THEN 1 ELSE 2 + Len(received)

\* The messages a running client has sent.
Sent == IF client = "send_count" THEN 1
        ELSE IF client \in {"send_file", "wait"} THEN 2 + sent ELSE 0

InOrder ==
    server \in Takes =>
        /\ \A i \in 1..Len(toServer) : 
               IsMessage(toServer[i], Taken + i, digest, packed.n, ~Compression)
        /\ client # "end" => Taken + Len(toServer) = Sent

Received ==
    /\ \A i \in 1..Len(received) : IsSegment(received[i], i, packed.n, ~Compression)
    /\ received # <<>> => client \in {"send_file", "wait", "end"}
    /\ server \in {"digest", "count"} => received = <<>>

\* How far the client is, and what it has prepared by then.
Prepared ==
    /\ client \in {"compute", "compress"} => Len(source) >= 1
    /\ client = "compress" => Compression
    /\ client \in {"compress", "send_digest", "send_count", "send_file", "wait"} =>
           packed.n >= 1 /\ (~Compression => packed.n = Len(source))
    /\ client \in {"open", "compute", "compress", "send_digest", "send_count"} => sent = 0
    /\ client = "send_file" => sent < packed.n

\* A server that goes on has the client's digest.
HasDigest ==
    server \in {"count", "file", "check", "write"}
      \/ (server \in {"finish", "end"} /\ result = "ok") =>
        /\ expected = digest
        /\ client \in {"send_count", "send_file", "wait", "end"}

Stored ==
    /\ server \in Takes \cup {"check"} => outcome = "none"
    /\ server = "write" => Compression /\ outcome = "verified"
    /\ Compression => outcome \in {"none", "verified"}
    /\ Compression /\ outcome = "none" => dest = old
    /\ ~Compression /\ outcome # "removed" => Holds(Bytes(received))
    /\ outcome = "removed" => dest = <<>>

Success ==
    server \in {"finish", "end"} /\ result = "ok" =>
        \/ outcome \in {"verified", "removed", "kept"}
        \/ Compression /\ outcome = "none" /\ packed.n > cap

Told ==
    /\ finish => server = "end"
    /\ client = "end" /\ clientRes = "ok" => server = "end"

IInv ==
    /\ TypeOK /\ Shapes /\ InOrder /\ Received /\ Prepared /\ HasDigest
    /\ Stored /\ VerifiedFile /\ Success /\ Told

-----------------------------------------------------------------------------
\* Messages.
LEMMA MessageFacts ==
  /\ \A of \in Seq(Int) : /\ Digest(of) \in Messages
                          /\ Digest(of).kind = "digest" /\ Digest(of).of = of
  /\ \A n \in Nat : /\ Count(n) \in Messages
                    /\ Count(n).kind = "count" /\ Count(n).n = n
  BY DEF Digest, Count, Messages

\* What a write leaves at the beginning of the file is what was written.
LEMMA OverHolds ==
  ASSUME NEW c \in Seq(Int), NEW f \in Seq(Int)
  PROVE  /\ Over(c, f) \in Seq(Int)
         /\ Len(Over(c, f)) >= Len(c)
         /\ SubSeq(Over(c, f), 1, Len(c)) = c
  <1> DEFINE r == SubSeq(f, Len(c) + 1, Len(f))
             o == c \o r
             s == SubSeq(o, 1, Len(c))
  <1>1. r \in Seq(Int) /\ Len(c) \in Nat /\ Len(r) \in Nat
    <2>1. \A i \in (Len(c) + 1)..Len(f) : f[i] \in Int
      BY LenProperties, ElementOfSeq
    <2>2. Len(c) + 1 \in Int /\ Len(f) \in Int
      BY LenProperties
    <2>3. r \in Seq(Int)
      BY <2>1, <2>2, SubSeqProperties
    <2> QED
      BY <2>3, LenProperties
  <1>2. /\ o \in Seq(Int) /\ Len(o) = Len(c) + Len(r)
        /\ \A i \in 1..Len(c) : o[i] = c[i]
    BY <1>1, ConcatProperties
  <1>3. /\ s \in Seq(Int) /\ Len(s) = Len(c)
        /\ \A i \in 1..Len(c) : s[i] = o[i]
    <2>1. \A i \in 1..Len(c) : o[i] \in Int
      BY <1>1, <1>2, ElementOfSeq
    <2>2. /\ s \in Seq(Int) /\ Len(s) = IF 1 <= Len(c) THEN Len(c) - 1 + 1 ELSE 0
          /\ \A i \in 1..(Len(c) - 1 + 1) : s[i] = o[1 + i - 1]
      BY <1>1, <2>1, SubSeqProperties
    <2>3. Len(c) - 1 + 1 = Len(c) /\ \A i \in 1..Len(c) : 1 + i - 1 = i
      BY <1>1
    <2> QED
      BY <1>1, <2>2, <2>3
  <1>4. s = c
    BY <1>1, <1>2, <1>3, SeqEqual
  <1> QED
    BY <1>1, <1>2, <1>4 DEF Over

\* The bytes of the messages of an integrity transfer are a file.
LEMMA BytesAreAFile ==
  ASSUME NEW msgs \in Seq(Messages), NEW many,
         \A i \in 1..Len(msgs) : IsSegment(msgs[i], i, many, TRUE)
  PROVE  Bytes(msgs) \in Seq(Int)
  <1>1. Len(msgs) \in Nat /\ DOMAIN msgs = 1..Len(msgs)
    BY LenProperties
  <1>2. \A i \in 1..Len(msgs) : msgs[i].of[1] \in Int
    BY ElementOfSeq DEF IsSegment
  <1> QED
    BY <1>1, <1>2 DEF Bytes

\* The next message is the one the server waits for, and the others follow.
LEMMA TakeOne ==
  ASSUME TypeOK, Shapes, InOrder, toServer # <<>>, server \in Takes
  PROVE  /\ IsMessage(Head(toServer), Taken + 1, digest, packed.n, ~Compression)
         /\ Head(toServer) \in Messages /\ Tail(toServer) \in Seq(Messages)
         /\ Len(Tail(toServer)) = Len(toServer) - 1
         /\ Len(Tail(toServer)) \in Nat /\ Taken \in Nat
         /\ \A i \in 1..Len(Tail(toServer)) :
              IsMessage(Tail(toServer)[i], Taken + 1 + i, digest, packed.n, ~Compression)
  <1>1. /\ toServer \in Seq(Messages) /\ Len(toServer) \in Nat /\ Len(toServer) >= 1
        /\ Head(toServer) = toServer[1]
    BY EmptySeq DEF Shapes
  <1>2. /\ Head(toServer) \in Messages /\ Tail(toServer) \in Seq(Messages)
        /\ Len(Tail(toServer)) = Len(toServer) - 1
        /\ \A i \in 1..Len(Tail(toServer)) : Tail(toServer)[i] = toServer[i + 1]
    BY <1>1, HeadTailProperties
  <1>3. Taken \in Nat
    BY LenProperties DEF Taken, Shapes
  <1>4. \A i \in 1..Len(toServer) :
          IsMessage(toServer[i], Taken + i, digest, packed.n, ~Compression)
    BY DEF InOrder
  <1>5. ASSUME NEW i \in 1..Len(Tail(toServer))
        PROVE  IsMessage(Tail(toServer)[i], Taken + 1 + i, digest, packed.n, ~Compression)
    <2>1. i + 1 \in 1..Len(toServer) /\ Taken + (i + 1) = Taken + 1 + i
      BY <1>1, <1>2, <1>3
    <2> QED
      BY <1>2, <1>4, <2>1
  <1> QED
    BY <1>1, <1>2, <1>3, <1>4, <1>5

\* A message that is sent extends the queue.
LEMMA SendOne ==
  ASSUME TypeOK, Shapes, InOrder, client # "end", NEW m \in Messages, Send(m),
         UNCHANGED <<server, received, digest, packed, app>>,
         IsMessage(m, Sent + 1, digest, packed.n, ~Compression)
  PROVE  /\ toServer' \in Seq(Messages) /\ Len(toServer') <= Queue
         /\ server \in Takes =>
              /\ Taken' + Len(toServer') = Sent + 1
              /\ \A i \in 1..Len(toServer') :
                   IsMessage(toServer'[i], Taken' + i, digest', packed'.n, ~Compression')
  <1>1. /\ toServer' \in Seq(Messages) /\ Len(toServer') = Len(toServer) + 1
        /\ \A i \in 1..Len(toServer) : toServer'[i] = toServer[i]
        /\ toServer'[Len(toServer) + 1] = m
        /\ Len(toServer) \in Nat
    BY AppendProperties, LenProperties DEF Send, Shapes
  <1>2. Taken' = Taken /\ Taken \in Nat
    BY LenProperties DEF Taken, Shapes
  <1>3. server \in Takes =>
          /\ \A i \in 1..Len(toServer) :
               IsMessage(toServer[i], Taken + i, digest, packed.n, ~Compression)
          /\ Taken + Len(toServer) = Sent
    BY DEF InOrder
  <1>4. Len(toServer') <= Queue
    BY <1>1, FileAssumption DEF Send
  <1>5. ASSUME server \in Takes, NEW i \in 1..Len(toServer')
        PROVE  IsMessage(toServer'[i], Taken' + i, digest', packed'.n, ~Compression')
    <2>0. digest' = digest /\ packed' = packed /\ Compression' = Compression
      BY DEF Compression
    <2>1. CASE i \in 1..Len(toServer)
      BY <1>1, <1>2, <1>3, <1>5, <2>0, <2>1
    <2>2. CASE i = Len(toServer) + 1
      BY <1>1, <1>2, <1>3, <1>5, <2>0, <2>2
    <2> QED
      BY <1>1, <2>1, <2>2
  <1> QED
    BY <1>1, <1>2, <1>3, <1>4, <1>5
LEMMA SegmentIsMessage ==
  ASSUME NEW m, NEW n \in Nat \ {0}, NEW of, NEW many, NEW mapped
  PROVE  IsMessage(m, n + 2, of, many, mapped) <=> IsSegment(m, n, many, mapped)
  <1>1. n + 2 # 1 /\ n + 2 # 2 /\ n + 2 > 2 /\ (n + 2) - 2 = n
    OBVIOUS
  <1> QED
    BY <1>1 DEF IsMessage

LEMMA FirstMessages ==
  ASSUME NEW m, NEW of \in Seq(Int), NEW many \in Nat, NEW mapped
  PROVE  /\ IsMessage(m, 1, of, many, mapped) => m.kind = "digest" /\ m.of = of
         /\ IsMessage(m, 2, of, many, mapped) => m.kind = "count" /\ m.n = many
  BY MessageFacts DEF IsMessage

LEMMA InitIInv == Init => IInv
  <1> SUFFICES ASSUME Init PROVE IInv
    OBVIOUS
  <1> USE FileAssumption DEF Init
  <1>1. source \in Seq(Int) /\ old \in Seq(Int) /\ dest = old /\ <<>> \in Seq(Int)
    <2>1. PICK n \in Sizes : source = [i \in 1..n |-> i]
      OBVIOUS
    <2>2. PICK m \in OldSizes : old = [i \in 1..m |-> Older]
      OBVIOUS
    <2>3. n \in Nat /\ m \in Nat /\ Older \in Int
      BY DEF Older
    <2>4. [i \in 1..n |-> i] \in Seq(Int)
      BY <2>3
    <2>5. [i \in 1..m |-> Older] \in Seq(Int)
      BY <2>3
    <2>6. source \in Seq(Int)
      BY <2>1, <2>4
    <2>7. old \in Seq(Int)
      BY <2>2, <2>5
    <2> QED
      BY <2>6, <2>7, EmptySeq
  <1>2. Len(toServer) = 0 /\ Len(received) = 0 /\ received = <<>>
    OBVIOUS
  <1>3. TypeOK
    <2>1. finish \in BOOLEAN
      OBVIOUS
    <2>2. Len(toServer) <= Queue /\ sent <= packed.n
      BY <1>2
    <2> QED
      BY <2>1, <2>2 DEF TypeOK
  <1>4. Shapes
    <2>1. packed \in [of : Seq(Int), n : Nat]
      BY <1>1
    <2>2. toServer \in Seq(Messages) /\ received \in Seq(Messages) /\ shaFailed \in BOOLEAN
      BY EmptySeq
    <2> QED
      BY <1>1, <2>1, <2>2 DEF Shapes
  <1>5. InOrder /\ Received /\ Prepared /\ HasDigest
    BY <1>2 DEF InOrder, Received, Prepared, HasDigest, Taken, Sent
  <1>6. Holds(Bytes(received))
    <2>1. Bytes(received) = <<>>
      BY <1>2 DEF Bytes
    <2>2. Len(Bytes(received)) = 0 /\ Len(dest) >= 0
      <3>1. Len(dest) \in Nat
        BY <1>1, LenProperties
      <3>2. Len(Bytes(received)) = 0
        BY <2>1
      <3> HIDE DEF Init
      <3> QED
        BY <3>1, <3>2
    <2>3. SubSeq(dest, 1, Len(Bytes(received))) = <<>>
      BY <2>2, SubSeqEmpty
    <2> HIDE DEF Init
    <2> QED
      BY <2>1, <2>2, <2>3 DEF Holds
  <1>7. Stored
    BY <1>1, <1>6 DEF Stored
  <1>8. VerifiedFile /\ Success /\ Told
    BY DEF VerifiedFile, Success, Told
  <1> QED
    BY <1>3, <1>4, <1>5, <1>7, <1>8 DEF IInv

\* The client's steps that send nothing.
LEMMA ClientIInv == IInv /\ (Open \/ ReceiveFinish \/ ClientReset \/ ClientFails \/ ChangeFile) => IInv'
  <1> SUFFICES ASSUME IInv, Open \/ ReceiveFinish \/ ClientReset \/ ClientFails \/ ChangeFile PROVE IInv'
    OBVIOUS
  <1> USE FileAssumption DEF Compression, clientVars, serverVars, fixed
  <1>0. /\ TypeOK /\ Shapes /\ InOrder /\ Received /\ Prepared /\ HasDigest
        /\ Stored /\ VerifiedFile /\ Success /\ Told
    BY DEF IInv
  <1>1. CASE Open
    <2> USE <1>1 DEF Open, ClientGo, ClientError
    <2>1. TypeOK'
      BY <1>0 DEF TypeOK
    <2>2. Shapes'
      BY <1>0 DEF Shapes
    <2>3. InOrder'
      BY <1>0 DEF InOrder, Taken, Sent, Takes
    <2>4. Received'
      BY <1>0 DEF Received
    <2>5. Prepared'
      BY <1>0 DEF Prepared
    <2>6. HasDigest'
      BY <1>0 DEF HasDigest
    <2>7. Stored'
      BY <1>0 DEF Stored, Holds, Takes
    <2>8. VerifiedFile'
      BY <1>0 DEF VerifiedFile, Holds
    <2>9. Success'
      BY <1>0 DEF Success
    <2>10. Told'
      BY <1>0 DEF Told
    <2> QED
      BY <2>1, <2>2, <2>3, <2>4, <2>5, <2>6, <2>7, <2>8, <2>9, <2>10 DEF IInv
  <1>2. CASE ReceiveFinish
    <2> USE <1>2 DEF ReceiveFinish, ClientGo, ClientError
    <2>1. TypeOK'
      BY <1>0 DEF TypeOK
    <2>2. Shapes'
      BY <1>0 DEF Shapes
    <2>3. InOrder'
      BY <1>0 DEF InOrder, Taken, Sent, Takes
    <2>4. Received'
      BY <1>0 DEF Received
    <2>5. Prepared'
      BY <1>0 DEF Prepared
    <2>6. HasDigest'
      BY <1>0 DEF HasDigest
    <2>7. Stored'
      BY <1>0 DEF Stored, Holds, Takes
    <2>8. VerifiedFile'
      BY <1>0 DEF VerifiedFile, Holds
    <2>9. Success'
      BY <1>0 DEF Success
    <2>10. Told'
      BY <1>0 DEF Told
    <2> QED
      BY <2>1, <2>2, <2>3, <2>4, <2>5, <2>6, <2>7, <2>8, <2>9, <2>10 DEF IInv
  <1>3. CASE ClientReset
    <2> USE <1>3 DEF ClientReset, ClientGo, ClientError
    <2>1. TypeOK'
      BY <1>0 DEF TypeOK
    <2>2. Shapes'
      BY <1>0 DEF Shapes
    <2>3. InOrder'
      BY <1>0 DEF InOrder, Taken, Sent, Takes
    <2>4. Received'
      BY <1>0 DEF Received
    <2>5. Prepared'
      BY <1>0 DEF Prepared
    <2>6. HasDigest'
      BY <1>0 DEF HasDigest
    <2>7. Stored'
      BY <1>0 DEF Stored, Holds, Takes
    <2>8. VerifiedFile'
      BY <1>0 DEF VerifiedFile, Holds
    <2>9. Success'
      BY <1>0 DEF Success
    <2>10. Told'
      BY <1>0 DEF Told
    <2> QED
      BY <2>1, <2>2, <2>3, <2>4, <2>5, <2>6, <2>7, <2>8, <2>9, <2>10 DEF IInv
  <1>4. CASE ClientFails
    <2> USE <1>4 DEF ClientFails, ClientGo, ClientError
    <2>1. TypeOK'
      BY <1>0 DEF TypeOK
    <2>2. Shapes'
      BY <1>0 DEF Shapes
    <2>3. InOrder'
      BY <1>0 DEF InOrder, Taken, Sent, Takes
    <2>4. Received'
      BY <1>0 DEF Received
    <2>5. Prepared'
      BY <1>0 DEF Prepared
    <2>6. HasDigest'
      BY <1>0 DEF HasDigest
    <2>7. Stored'
      BY <1>0 DEF Stored, Holds, Takes
    <2>8. VerifiedFile'
      BY <1>0 DEF VerifiedFile, Holds
    <2>9. Success'
      BY <1>0 DEF Success
    <2>10. Told'
      BY <1>0 DEF Told
    <2> QED
      BY <2>1, <2>2, <2>3, <2>4, <2>5, <2>6, <2>7, <2>8, <2>9, <2>10 DEF IInv
  <1>5. CASE ChangeFile
    <2> USE <1>5 DEF ChangeFile
    <2>1. TypeOK'
      BY <1>0 DEF TypeOK
    <2>2. Shapes'
      <3>1. source \in Seq(Int)
        BY <1>0 DEF Shapes
      <3>2. PICK i \in DOMAIN source : source' = [source EXCEPT ![i] = 0]
        BY DEF Changed
      <3>3. source' \in Seq(Int)
        <4> HIDE <1>5
        <4> QED BY <3>1, <3>2, ExceptSeq
      <3> QED
        BY <1>0, <3>3 DEF Shapes
    <2>3. InOrder'
      BY <1>0 DEF InOrder, Taken, Sent, Takes
    <2>4. Received'
      BY <1>0 DEF Received
    <2>5. Prepared'
      BY <1>0 DEF Prepared
    <2>6. HasDigest'
      BY <1>0 DEF HasDigest
    <2>7. Stored'
      BY <1>0 DEF Stored, Holds, Takes
    <2>8. VerifiedFile'
      BY <1>0 DEF VerifiedFile, Holds
    <2>9. Success'
      BY <1>0 DEF Success
    <2>10. Told'
      BY <1>0 DEF Told
    <2> QED
      BY <2>1, <2>2, <2>3, <2>4, <2>5, <2>6, <2>7, <2>8, <2>9, <2>10 DEF IInv
  <1> QED
    BY <1>1, <1>2, <1>3, <1>4, <1>5

\* The client computes its digest and compresses before it has sent anything.
LEMMA PrepareIInv == IInv /\ (Compute \/ Compress) => IInv'
  <1> SUFFICES ASSUME IInv, Compute \/ Compress PROVE IInv'
    OBVIOUS
  <1> USE FileAssumption DEF Compression, clientVars, serverVars, fixed
  <1>0. /\ TypeOK /\ Shapes /\ InOrder /\ Received /\ Prepared /\ HasDigest
        /\ Stored /\ VerifiedFile /\ Success /\ Told
    BY DEF IInv
  <1>1. CASE Compute
    <2> USE <1>1 DEF Compute, ClientGo, ClientError
    <2>a. received = <<>> /\ Len(received) = 0
      BY <1>0 DEF Received
    <2>b. server \in Takes => server = "digest" /\ Len(toServer) = 0
      BY <1>0, LenProperties DEF InOrder, Taken, Sent, Takes, Shapes
    <2>c. Len(source) \in Nat /\ Len(source) >= 1
      BY <1>0, LenProperties DEF Shapes, Prepared
    <2>1. TypeOK'
      BY <1>0, <2>c DEF TypeOK, Prepared, Shapes
    <2>2. Shapes'
      BY <1>0, <2>c DEF Shapes
    <2>3. InOrder'
      BY <1>0, <2>b DEF InOrder, Taken, Sent, Takes
    <2>4. Received'
      BY <1>0, <2>a DEF Received
    <2>5. Prepared'
      BY <1>0, <2>c DEF Prepared, Shapes
    <2>6. HasDigest'
      BY <1>0 DEF HasDigest
    <2>7. Stored'
      BY <1>0 DEF Stored, Holds, Takes
    <2>8. VerifiedFile'
      BY <1>0 DEF VerifiedFile, HasDigest
    <2>9. Success'
      BY <1>0 DEF Success, HasDigest
    <2>10. Told'
      BY <1>0 DEF Told
    <2> QED
      BY <2>1, <2>2, <2>3, <2>4, <2>5, <2>6, <2>7, <2>8, <2>9, <2>10 DEF IInv
  <1>2. CASE Compress
    <2> USE <1>2 DEF Compress, ClientGo, ClientError
    <2>a. received = <<>> /\ Len(received) = 0
      BY <1>0 DEF Received
    <2>b. server \in Takes => server = "digest" /\ Len(toServer) = 0
      <3>1. Len(toServer) \in Nat /\ Len(received) \in Nat
        BY <1>0, LenProperties DEF Shapes
      <3>2. client = "compress" /\ Sent = 0
        BY DEF Sent
      <3>3. server \in Takes => Taken + Len(toServer) = 0
        BY <1>0, <3>2 DEF InOrder
      <3> QED
        BY <3>1, <3>3 DEF Taken, Takes
    <2>c. Len(source) \in Nat /\ Len(source) >= 1
      BY <1>0, LenProperties DEF Shapes, Prepared
    <2>1. TypeOK'
      BY <1>0, <2>c DEF TypeOK, Prepared, Shapes
    <2>2. Shapes'
      BY <1>0, <2>c DEF Shapes
    <2>3. InOrder'
      BY <1>0, <2>b DEF InOrder, Taken, Sent, Takes
    <2>4. Received'
      BY <1>0, <2>a DEF Received
    <2>5. Prepared'
      BY <1>0, <2>c DEF Prepared, Shapes
    <2>6. HasDigest'
      BY <1>0 DEF HasDigest
    <2>7. Stored'
      BY <1>0 DEF Stored, Holds, Takes
    <2>8. VerifiedFile'
      BY <1>0 DEF VerifiedFile, HasDigest
    <2>9. Success'
      BY <1>0 DEF Success, HasDigest
    <2>10. Told'
      BY <1>0 DEF Told
    <2> QED
      BY <2>1, <2>2, <2>3, <2>4, <2>5, <2>6, <2>7, <2>8, <2>9, <2>10 DEF IInv
  <1> QED
    BY <1>1, <1>2

\* The client's messages.
LEMMA SendIInv == IInv /\ (SendDigest \/ SendCount \/ SendSegment) => IInv'
  <1> SUFFICES ASSUME IInv, SendDigest \/ SendCount \/ SendSegment PROVE IInv'
    OBVIOUS
  <1> USE FileAssumption DEF Compression, clientVars, serverVars, fixed
  <1>0. /\ TypeOK /\ Shapes /\ InOrder /\ Received /\ Prepared /\ HasDigest
        /\ Stored /\ VerifiedFile /\ Success /\ Told
    BY DEF IInv
  <1>1. CASE SendDigest
    <2> USE <1>1 DEF SendDigest, ClientGo, ClientError
    <2>a. Digest(digest) \in Messages
      BY <1>0, MessageFacts DEF Shapes
    <2>b. Sent = 0 /\ Sent' = Sent + 1
      BY <1>0 DEF Sent, Prepared, Shapes
    <2>c. IsMessage(Digest(digest), Sent + 1, digest, packed.n, ~Compression)
      BY <2>b DEF IsMessage
    <2>d. /\ toServer' \in Seq(Messages) /\ Len(toServer') <= Queue
          /\ server \in Takes =>
               /\ Taken' + Len(toServer') = Sent + 1
               /\ \A i \in 1..Len(toServer') :
                    IsMessage(toServer'[i], Taken' + i, digest', packed'.n, ~Compression')
      BY <1>0, <2>a, <2>c, SendOne
    <2>1. TypeOK'
      BY <1>0, <2>d DEF TypeOK, Prepared, Shapes
    <2>2. Shapes'
      BY <1>0, <2>d DEF Shapes
    <2>3. InOrder'
      BY <1>0, <2>b, <2>d DEF InOrder
    <2>4. Received'
      BY <1>0 DEF Received
    <2>5. Prepared'
      BY <1>0 DEF Prepared, Shapes
    <2>6. HasDigest'
      BY <1>0 DEF HasDigest
    <2>7. Stored'
      BY <1>0 DEF Stored, Holds, Takes
    <2>8. VerifiedFile'
      BY <1>0 DEF VerifiedFile, Holds
    <2>9. Success'
      BY <1>0 DEF Success
    <2>10. Told'
      BY <1>0 DEF Told
    <2> QED
      BY <2>1, <2>2, <2>3, <2>4, <2>5, <2>6, <2>7, <2>8, <2>9, <2>10 DEF IInv
  <1>2. CASE SendCount
    <2> USE <1>2 DEF SendCount, ClientGo, ClientError
    <2>a. Count(packed.n) \in Messages
      BY <1>0, MessageFacts DEF Shapes
    <2>b. Sent = 1 /\ Sent' = Sent + 1
      BY <1>0 DEF Sent, Prepared, Shapes
    <2>c. IsMessage(Count(packed.n), Sent + 1, digest, packed.n, ~Compression)
      BY <2>b DEF IsMessage
    <2>d. /\ toServer' \in Seq(Messages) /\ Len(toServer') <= Queue
          /\ server \in Takes =>
               /\ Taken' + Len(toServer') = Sent + 1
               /\ \A i \in 1..Len(toServer') :
                    IsMessage(toServer'[i], Taken' + i, digest', packed'.n, ~Compression')
      BY <1>0, <2>a, <2>c, SendOne
    <2>1. TypeOK'
      BY <1>0, <2>d DEF TypeOK, Prepared, Shapes
    <2>2. Shapes'
      BY <1>0, <2>d DEF Shapes
    <2>3. InOrder'
      BY <1>0, <2>b, <2>d DEF InOrder
    <2>4. Received'
      BY <1>0 DEF Received
    <2>5. Prepared'
      BY <1>0 DEF Prepared, Shapes
    <2>6. HasDigest'
      BY <1>0 DEF HasDigest
    <2>7. Stored'
      BY <1>0 DEF Stored, Holds, Takes
    <2>8. VerifiedFile'
      BY <1>0 DEF VerifiedFile, Holds
    <2>9. Success'
      BY <1>0 DEF Success
    <2>10. Told'
      BY <1>0 DEF Told
    <2> QED
      BY <2>1, <2>2, <2>3, <2>4, <2>5, <2>6, <2>7, <2>8, <2>9, <2>10 DEF IInv
  <1>3. CASE SendSegment
    <2> USE <1>3 DEF SendSegment, ClientGo, ClientError
    <2>a. Segment(sent + 1) \in Messages /\ IsSegment(Segment(sent + 1), sent + 1, packed.n, ~Compression)
      <3>1. sent + 1 \in Nat /\ packed.n \in Nat /\ sent + 1 \in 1..packed.n
        BY <1>0 DEF Shapes, Prepared
      <3>2. ~Compression => sent + 1 \in 1..Len(source) /\ source[sent + 1] \in Int
        BY <1>0, <3>1, ElementOfSeq DEF Shapes, Prepared
      <3>3. packed.of \in Seq(Int)
        BY <1>0 DEF Shapes
      <3>4. ~Compression => <<source[sent + 1]>> \in Seq(Int) /\ Len(<<source[sent + 1]>>) = 1
        BY <3>2
      <3>5. /\ Segment(sent + 1).kind = "segment" /\ Segment(sent + 1).n = sent + 1
            /\ Segment(sent + 1).of \in Seq(Int)
            /\ ~Compression => Len(Segment(sent + 1).of) = 1
        BY <3>3, <3>4 DEF Segment
      <3>6. Segment(sent + 1) \in Messages
        <4>1. (sent + 1 = packed.n) \in BOOLEAN
          OBVIOUS
        <4> QED
          BY <3>1, <3>3, <3>4, <4>1 DEF Segment, Messages
      <3>7. IsSegment(Segment(sent + 1), sent + 1, packed.n, ~Compression)
        <4> HIDE DEF Compression
        <4> QED
          BY <3>1, <3>5 DEF IsSegment
      <3> QED
        BY <3>6, <3>7
    <2>b. Sent = 2 + sent /\ Sent' = Sent + 1 /\ sent \in Nat
      BY <1>0 DEF Sent, Prepared, Shapes
    <2>c. IsMessage(Segment(sent + 1), Sent + 1, digest, packed.n, ~Compression)
      <3>1. Sent + 1 = (sent + 1) + 2 /\ sent + 1 \in Nat \ {0}
        BY <2>b
      <3> QED
        BY <2>a, <3>1, SegmentIsMessage
    <2>d. /\ toServer' \in Seq(Messages) /\ Len(toServer') <= Queue
          /\ server \in Takes =>
               /\ Taken' + Len(toServer') = Sent + 1
               /\ \A i \in 1..Len(toServer') :
                    IsMessage(toServer'[i], Taken' + i, digest', packed'.n, ~Compression')
      BY <1>0, <2>a, <2>c, SendOne
    <2>1. TypeOK'
      BY <1>0, <2>d DEF TypeOK, Prepared, Shapes
    <2>2. Shapes'
      BY <1>0, <2>d DEF Shapes
    <2>3. InOrder'
      BY <1>0, <2>b, <2>d DEF InOrder
    <2>4. Received'
      BY <1>0 DEF Received
    <2>5. Prepared'
      BY <1>0 DEF Prepared, Shapes
    <2>6. HasDigest'
      BY <1>0 DEF HasDigest
    <2>7. Stored'
      BY <1>0 DEF Stored, Holds, Takes
    <2>8. VerifiedFile'
      BY <1>0 DEF VerifiedFile, Holds
    <2>9. Success'
      BY <1>0 DEF Success
    <2>10. Told'
      BY <1>0 DEF Told
    <2> QED
      BY <2>1, <2>2, <2>3, <2>4, <2>5, <2>6, <2>7, <2>8, <2>9, <2>10 DEF IInv
  <1> QED
    BY <1>1, <1>2, <1>3

\* The server's next message of the file is the one after those it has.
LEMMA NextSegment ==
  ASSUME IInv, server = "file", toServer # <<>>
  PROVE  /\ Len(received) \in Nat /\ Head(toServer) \in Messages
         /\ IsSegment(Head(toServer), Len(received) + 1, packed.n, ~Compression)
         /\ client \in {"send_file", "wait", "end"}
  <1>0. TypeOK /\ Shapes /\ InOrder
    BY DEF IInv
  <1>1. Len(received) \in Nat /\ Len(toServer) \in Nat /\ Len(toServer) >= 1
    BY <1>0, LenProperties, EmptySeq DEF Shapes
  <1>2. Taken + 1 = (Len(received) + 1) + 2 /\ Len(received) + 1 \in Nat \ {0}
    BY <1>1 DEF Taken
  <1>3. IsSegment(Head(toServer), Len(received) + 1, packed.n, ~Compression)
    BY <1>0, <1>2, TakeOne, SegmentIsMessage DEF Takes
  <1>4. client \in {"send_file", "wait", "end"}
    <2>1. client # "end" => Taken + Len(toServer) = Sent
      BY <1>0 DEF InOrder, Takes
    <2>2. Taken + Len(toServer) \notin {0, 1}
      BY <1>1 DEF Taken
    <2>3. client \notin {"send_file", "wait"} => Sent \in {0, 1}
      BY DEF Sent
    <2> QED
      BY <2>1, <2>2, <2>3
  <1> QED
    BY <1>0, <1>1, <1>3, <1>4, TakeOne DEF Takes

\* A message of the file that is received extends what was received.
LEMMA ReceiveOne ==
  ASSUME IInv, server = "file", toServer # <<>>, UNCHANGED <<app, client, packed>>,
         received' = Append(received, Head(toServer))
  PROVE  /\ received' \in Seq(Messages) /\ received' # <<>>
         /\ Len(received') = Len(received) + 1
         /\ \A i \in 1..Len(received') : IsSegment(received'[i], i, packed'.n, ~Compression')
  <1>0. Shapes /\ Received
    BY DEF IInv
  <1>1. /\ Len(received) \in Nat /\ Head(toServer) \in Messages
        /\ IsSegment(Head(toServer), Len(received) + 1, packed.n, ~Compression)
    BY NextSegment
  <1>2. /\ received' \in Seq(Messages) /\ received' # <<>>
        /\ Len(received') = Len(received) + 1
        /\ \A i \in 1..Len(received) : received'[i] = received[i]
        /\ received'[Len(received) + 1] = Head(toServer)
    <2>1. received \in Seq(Messages)
      BY <1>0 DEF Shapes
    <2> HIDE DEF Messages
    <2>2. /\ Append(received, Head(toServer)) \in Seq(Messages)
          /\ Append(received, Head(toServer)) # <<>>
          /\ Len(Append(received, Head(toServer))) = Len(received) + 1
          /\ \A i \in 1..Len(received) : Append(received, Head(toServer))[i] = received[i]
          /\ Append(received, Head(toServer))[Len(received) + 1] = Head(toServer)
      BY <1>1, <2>1, AppendProperties
    <2> QED
      BY <2>2
  <1>3. packed' = packed /\ Compression' = Compression
    BY DEF Compression
  <1>4. ASSUME NEW i \in 1..Len(received')
        PROVE  IsSegment(received'[i], i, packed'.n, ~Compression')
    <2>1. CASE i \in 1..Len(received)
      BY <1>0, <1>2, <1>3, <2>1 DEF Received
    <2>2. CASE i = Len(received) + 1
      BY <1>1, <1>2, <1>3, <2>2
    <2> QED
      BY <1>1, <1>2, <2>1, <2>2
  <1> QED
    BY <1>2, <1>4

\* A message that is taken leaves the others in order.
LEMMA TakeInOrder ==
  ASSUME IInv, server \in Takes, toServer # <<>>, toServer' = Tail(toServer),
         UNCHANGED <<client, sent, digest, packed, app>>,
         server' \in Takes => Taken' = Taken + 1
  PROVE  InOrder'
  <1>0. TypeOK /\ Shapes /\ InOrder
    BY DEF IInv
  <1>1. /\ Len(toServer') = Len(toServer) - 1 /\ Len(toServer') \in Nat /\ Taken \in Nat
        /\ \A i \in 1..Len(toServer') :
             IsMessage(toServer'[i], Taken + 1 + i, digest, packed.n, ~Compression)
    BY <1>0, TakeOne
  <1>2. Len(toServer) \in Nat
    BY <1>0, LenProperties DEF Shapes
  <1>3. Sent' = Sent /\ Compression' = Compression
    BY DEF Sent, Compression
  <1>4. client # "end" => Taken + Len(toServer) = Sent
    BY <1>0 DEF InOrder
  <1>5. ASSUME server' \in Takes
        PROVE  \A i \in 1..Len(toServer') :
                 IsMessage(toServer'[i], Taken' + i, digest', packed'.n, ~Compression')
    BY <1>1, <1>3, <1>5
  <1>6. ASSUME server' \in Takes, client' # "end"
        PROVE  Taken' + Len(toServer') = Sent'
    BY <1>1, <1>2, <1>3, <1>4, <1>6
  <1> QED
    BY <1>5, <1>6 DEF InOrder

\* The messages the server takes.
LEMMA TakeIInv == IInv /\ (ReceiveDigest \/ ReceiveCount \/ ReceivePart \/ ReceiveSegment) => IInv'
  <1> SUFFICES ASSUME IInv, ReceiveDigest \/ ReceiveCount \/ ReceivePart \/ ReceiveSegment PROVE IInv'
    OBVIOUS
  <1> USE FileAssumption DEF Compression, clientVars, serverVars, fixed
  <1>0. /\ TypeOK /\ Shapes /\ InOrder /\ Received /\ Prepared /\ HasDigest
        /\ Stored /\ VerifiedFile /\ Success /\ Told
    BY DEF IInv
  <1>1. CASE ReceiveDigest
    <2> USE <1>1 DEF ReceiveDigest, Take, Next1, ToFinish, ServerGo
    <2>a. /\ toServer # <<>> /\ Len(toServer) \in Nat /\ Len(toServer) >= 1 /\ server \in Takes
      BY <1>0, LenProperties, EmptySeq DEF Shapes, Takes
    <2>b. /\ IsMessage(Head(toServer), Taken + 1, digest, packed.n, ~Compression)
          /\ toServer' \in Seq(Messages) /\ Len(toServer') = Len(toServer) - 1
          /\ Len(toServer') \in Nat /\ Taken \in Nat
          /\ \A i \in 1..Len(toServer') :
               IsMessage(toServer'[i], Taken + 1 + i, digest, packed.n, ~Compression)
      BY <1>0, <2>a, TakeOne
    <2>c. Taken = 0 /\ Next1.kind = "digest" /\ Next1.of = digest
      <3>1. Taken = 0
        BY DEF Taken
      <3>2. digest \in Seq(Int) /\ packed.n \in Nat
        BY <1>0 DEF Shapes
      <3> QED
        BY <2>b, <3>1, <3>2, FirstMessages
    <2>d. server' = "count" /\ result' = result /\ expected' = digest /\ Taken' = Taken + 1
      BY <2>c DEF Taken
    <2>e. client \in {"send_count", "send_file", "wait", "end"}
      BY <1>0, <2>a, <2>c DEF InOrder, Sent
    <2>1. TypeOK'
      BY <1>0, <2>b, <2>d DEF TypeOK
    <2>2. Shapes'
      BY <1>0, <2>b, <2>d DEF Shapes
    <2>3. InOrder'
      BY <2>a, <2>d, TakeInOrder DEF Takes
    <2>4. Received'
      BY <1>0, <2>d DEF Received
    <2>5. Prepared'
      BY <1>0 DEF Prepared
    <2>6. HasDigest'
      BY <2>d, <2>e DEF HasDigest
    <2>7. Stored'
      BY <1>0, <2>d DEF Stored, Holds, Takes
    <2>8. VerifiedFile'
      BY <2>d DEF VerifiedFile
    <2>9. Success'
      BY <2>d DEF Success
    <2>10. Told'
      BY <1>0, <2>d DEF Told
    <2> QED
      BY <2>1, <2>2, <2>3, <2>4, <2>5, <2>6, <2>7, <2>8, <2>9, <2>10 DEF IInv
  <1>2. CASE ReceiveCount
    <2> USE <1>2 DEF ReceiveCount, Take, Next1, ToFinish, ServerGo
    <2>a. /\ toServer # <<>> /\ Len(toServer) \in Nat /\ Len(toServer) >= 1 /\ server \in Takes
      BY <1>0, LenProperties, EmptySeq DEF Shapes, Takes
    <2>b. /\ IsMessage(Head(toServer), Taken + 1, digest, packed.n, ~Compression)
          /\ toServer' \in Seq(Messages) /\ Len(toServer') = Len(toServer) - 1
          /\ Len(toServer') \in Nat /\ Taken \in Nat
          /\ \A i \in 1..Len(toServer') :
               IsMessage(toServer'[i], Taken + 1 + i, digest, packed.n, ~Compression)
      BY <1>0, <2>a, TakeOne
    <2>c. Taken = 1 /\ Next1.kind = "count" /\ Next1.n = packed.n
      <3>1. Taken = 1
        BY DEF Taken
      <3>2. digest \in Seq(Int) /\ packed.n \in Nat
        BY <1>0 DEF Shapes
      <3> QED
        BY <2>b, <3>1, <3>2, FirstMessages
    <2>d. /\ received = <<>> /\ received' = <<>> /\ Len(received') = 0
          /\ \/ server' = "finish" /\ result' = "error"
             \/ server' = "check" /\ result' = result
             \/ server' = "file" /\ result' = result /\ Taken' = Taken + 1
      BY <1>0, <2>c DEF Received, Taken
    <2>1. TypeOK'
      BY <1>0, <2>b, <2>d DEF TypeOK
    <2>2. Shapes'
      BY <1>0, <2>b, <2>d DEF Shapes
    <2>3. InOrder'
      BY <2>a, <2>d, TakeInOrder DEF Takes
    <2>4. Received'
      BY <1>0, <2>d DEF Received
    <2>5. Prepared'
      BY <1>0 DEF Prepared
    <2>6. HasDigest'
      BY <1>0, <2>d DEF HasDigest
    <2>7. Stored'
      BY <1>0, <2>d DEF Stored, Holds, Takes
    <2>8. VerifiedFile'
      BY <1>0, <2>d DEF VerifiedFile, Stored, Takes
    <2>9. Success'
      BY <1>0, <2>d DEF Success
    <2>10. Told'
      BY <1>0, <2>d DEF Told
    <2> QED
      BY <2>1, <2>2, <2>3, <2>4, <2>5, <2>6, <2>7, <2>8, <2>9, <2>10 DEF IInv
  <1>3. CASE ReceivePart
    <2> USE <1>3 DEF ReceivePart, Take, Next1, ToFinish, ServerGo
    <2>a. /\ toServer # <<>> /\ Len(toServer) \in Nat /\ Len(toServer) >= 1 /\ server \in Takes
      BY <1>0, LenProperties, EmptySeq DEF Shapes, Takes
    <2>b. /\ IsMessage(Head(toServer), Taken + 1, digest, packed.n, ~Compression)
          /\ toServer' \in Seq(Messages) /\ Len(toServer') = Len(toServer) - 1
          /\ Len(toServer') \in Nat /\ Taken \in Nat
          /\ \A i \in 1..Len(toServer') :
               IsMessage(toServer'[i], Taken + 1 + i, digest, packed.n, ~Compression)
      BY <1>0, <2>a, TakeOne
    <2>c. /\ Len(received) \in Nat /\ Len(received) + 1 \in 1..packed.n /\ packed.n \in Nat
          /\ client \in {"send_file", "wait", "end"} /\ cap \in Nat /\ Taken = 2 + Len(received)
      BY <1>0, <2>a, NextSegment DEF IsSegment, Shapes, Taken
    <2>d. \/ /\ received' = received /\ server' = "finish" /\ result' = "ok"
             /\ packed.n > cap
          \/ /\ received' = Append(received, Head(toServer)) /\ server' \in {"file", "check"}
             /\ result' = result
      BY <2>c
    <2>e. received' # received =>
            /\ received' \in Seq(Messages) /\ received' # <<>>
            /\ Len(received') = Len(received) + 1
            /\ \A i \in 1..Len(received') : IsSegment(received'[i], i, packed'.n, ~Compression')
      BY <2>a, <2>d, ReceiveOne
    <2>f. server' = "file" => Taken' = Taken + 1
      <3>1. server' = "file" => Len(received') = Len(received) + 1
        BY <2>a, <2>d, ReceiveOne
      <3> QED
        BY <2>c, <3>1 DEF Taken
    <2>1. TypeOK'
      BY <1>0, <2>b, <2>d DEF TypeOK
    <2>2. Shapes'
      BY <1>0, <2>b, <2>e DEF Shapes
    <2>3. InOrder'
      BY <2>a, <2>d, <2>f, TakeInOrder DEF Takes
    <2>4. Received'
      BY <1>0, <2>c, <2>d, <2>e DEF Received
    <2>5. Prepared'
      BY <1>0 DEF Prepared
    <2>6. HasDigest'
      BY <1>0, <2>c, <2>d DEF HasDigest
    <2>7. Stored'
      BY <1>0, <2>d DEF Stored, Takes
    <2>8. VerifiedFile'
      BY <1>0 DEF VerifiedFile, Stored, Takes
    <2>9. Success'
      BY <1>0, <2>d DEF Success, Stored, Takes
    <2>10. Told'
      BY <1>0, <2>d DEF Told
    <2> QED
      BY <2>1, <2>2, <2>3, <2>4, <2>5, <2>6, <2>7, <2>8, <2>9, <2>10 DEF IInv
  <1>4. CASE ReceiveSegment
    <2> USE <1>4 DEF ReceiveSegment, Take, Next1, ToFinish, ServerGo
    <2>a. /\ toServer # <<>> /\ Len(toServer) \in Nat /\ Len(toServer) >= 1 /\ server \in Takes
      BY <1>0, LenProperties, EmptySeq DEF Shapes, Takes
    <2>b. /\ IsMessage(Head(toServer), Taken + 1, digest, packed.n, ~Compression)
          /\ toServer' \in Seq(Messages) /\ Len(toServer') = Len(toServer) - 1
          /\ Len(toServer') \in Nat /\ Taken \in Nat
          /\ \A i \in 1..Len(toServer') :
               IsMessage(toServer'[i], Taken + 1 + i, digest, packed.n, ~Compression)
      BY <1>0, <2>a, TakeOne
    <2>c. /\ Len(received) \in Nat /\ client \in {"send_file", "wait", "end"}
          /\ Taken = 2 + Len(received)
      BY <1>0, <2>a, NextSegment DEF Taken
    <2>d. /\ \/ server' \in {"file", "check"} /\ result' = result
             \/ server' = "finish" /\ result' = "error"
          /\ shaFailed' = shaFailed \/ shaFailed' = TRUE
      OBVIOUS
    <2>e. /\ received' \in Seq(Messages) /\ received' # <<>>
          /\ Len(received') = Len(received) + 1
          /\ \A i \in 1..Len(received') : IsSegment(received'[i], i, packed'.n, ~Compression')
      BY <2>a, ReceiveOne
    <2>f. server' = "file" => Taken' = Taken + 1
      BY <2>c, <2>e DEF Taken
    <2>g. Bytes(received') \in Seq(Int)
      <3>1. ~Compression' = TRUE
        OBVIOUS
      <3> QED
        BY <2>e, <3>1, BytesAreAFile
    <2>h. /\ dest' \in Seq(Int) /\ Len(dest') >= Len(Bytes(received'))
          /\ SubSeq(dest', 1, Len(Bytes(received'))) = Bytes(received')
      BY <1>0, <2>g, OverHolds DEF Shapes
    <2>1. TypeOK'
      BY <1>0, <2>b, <2>d DEF TypeOK
    <2>2. Shapes'
      BY <1>0, <2>b, <2>d, <2>e, <2>h DEF Shapes
    <2>3. InOrder'
      BY <2>a, <2>d, <2>f, TakeInOrder DEF Takes
    <2>4. Received'
      BY <1>0, <2>c, <2>d, <2>e DEF Received
    <2>5. Prepared'
      BY <1>0 DEF Prepared
    <2>6. HasDigest'
      BY <1>0, <2>d DEF HasDigest
    <2>7. Stored'
      BY <1>0, <2>d, <2>h DEF Stored, Holds, Takes
    <2>8. VerifiedFile'
      BY <1>0 DEF VerifiedFile, Stored, Takes
    <2>9. Success'
      BY <1>0, <2>d DEF Success
    <2>10. Told'
      BY <1>0, <2>d DEF Told
    <2> QED
      BY <2>1, <2>2, <2>3, <2>4, <2>5, <2>6, <2>7, <2>8, <2>9, <2>10 DEF IInv
  <1> QED
    BY <1>1, <1>2, <1>3, <1>4

\* The server's other steps.
LEMMA FinishIInv == IInv /\ (\/ Timeout \/ ServerFails \/ ServerReturns \/ CheckCompression
           \/ Write \/ CheckIntegrity \/ Finish) => IInv'
  <1> SUFFICES ASSUME IInv, \/ Timeout \/ ServerFails \/ ServerReturns \/ CheckCompression
           \/ Write \/ CheckIntegrity \/ Finish PROVE IInv'
    OBVIOUS
  <1> USE FileAssumption DEF Compression, clientVars, serverVars, fixed
  <1>0. /\ TypeOK /\ Shapes /\ InOrder /\ Received /\ Prepared /\ HasDigest
        /\ Stored /\ VerifiedFile /\ Success /\ Told
    BY DEF IInv
  <1>1. CASE Timeout
    <2> USE <1>1 DEF Timeout, ToFinish, ServerGo
    <2>1. TypeOK'
      BY <1>0 DEF TypeOK
    <2>2. Shapes'
      BY <1>0 DEF Shapes
    <2>3. InOrder'
      BY <1>0 DEF InOrder, Taken, Sent, Takes
    <2>4. Received'
      BY <1>0 DEF Received
    <2>5. Prepared'
      BY <1>0 DEF Prepared
    <2>6. HasDigest'
      BY <1>0 DEF HasDigest
    <2>7. Stored'
      BY <1>0 DEF Stored, Holds, Takes
    <2>8. VerifiedFile'
      BY <1>0 DEF VerifiedFile, Holds
    <2>9. Success'
      BY <1>0 DEF Success
    <2>10. Told'
      BY <1>0 DEF Told
    <2> QED
      BY <2>1, <2>2, <2>3, <2>4, <2>5, <2>6, <2>7, <2>8, <2>9, <2>10 DEF IInv
  <1>2. CASE ServerFails
    <2> USE <1>2 DEF ServerFails, ToFinish, ServerGo
    <2>1. TypeOK'
      BY <1>0 DEF TypeOK
    <2>2. Shapes'
      BY <1>0 DEF Shapes
    <2>3. InOrder'
      BY <1>0 DEF InOrder, Taken, Sent, Takes
    <2>4. Received'
      BY <1>0 DEF Received
    <2>5. Prepared'
      BY <1>0 DEF Prepared
    <2>6. HasDigest'
      BY <1>0 DEF HasDigest
    <2>7. Stored'
      BY <1>0 DEF Stored, Holds, Takes
    <2>8. VerifiedFile'
      BY <1>0 DEF VerifiedFile, Holds
    <2>9. Success'
      BY <1>0 DEF Success
    <2>10. Told'
      BY <1>0 DEF Told
    <2> QED
      BY <2>1, <2>2, <2>3, <2>4, <2>5, <2>6, <2>7, <2>8, <2>9, <2>10 DEF IInv
  <1>3. CASE ServerReturns
    <2> USE <1>3 DEF ServerReturns
    <2>1. TypeOK'
      BY <1>0 DEF TypeOK
    <2>2. Shapes'
      BY <1>0 DEF Shapes
    <2>3. InOrder'
      BY <1>0 DEF InOrder, Taken, Sent, Takes
    <2>4. Received'
      BY <1>0 DEF Received
    <2>5. Prepared'
      BY <1>0 DEF Prepared
    <2>6. HasDigest'
      BY <1>0 DEF HasDigest
    <2>7. Stored'
      BY <1>0 DEF Stored, Holds, Takes
    <2>8. VerifiedFile'
      BY <1>0 DEF VerifiedFile, Holds
    <2>9. Success'
      BY <1>0 DEF Success
    <2>10. Told'
      BY <1>0 DEF Told
    <2> QED
      BY <2>1, <2>2, <2>3, <2>4, <2>5, <2>6, <2>7, <2>8, <2>9, <2>10 DEF IInv
  <1>4. CASE CheckCompression
    <2> USE <1>4 DEF CheckCompression, ToFinish, ServerGo
    <2>1. TypeOK'
      BY <1>0 DEF TypeOK
    <2>2. Shapes'
      BY <1>0 DEF Shapes
    <2>3. InOrder'
      BY <1>0 DEF InOrder, Taken, Sent, Takes
    <2>4. Received'
      BY <1>0 DEF Received
    <2>5. Prepared'
      BY <1>0 DEF Prepared
    <2>6. HasDigest'
      BY <1>0 DEF HasDigest
    <2>7. Stored'
      BY <1>0 DEF Stored, Holds, Takes
    <2>8. VerifiedFile'
      BY <1>0 DEF VerifiedFile, Holds
    <2>9. Success'
      BY <1>0 DEF Success
    <2>10. Told'
      BY <1>0 DEF Told
    <2> QED
      BY <2>1, <2>2, <2>3, <2>4, <2>5, <2>6, <2>7, <2>8, <2>9, <2>10 DEF IInv
  <1>5. CASE Write
    <2> USE <1>5 DEF Write, ToFinish, ServerGo
    <2>a. /\ expected = digest /\ outcome = "verified" /\ Compression /\ expected \in Seq(Int)
          /\ dest \in Seq(Int) /\ Len(expected) \in Nat
      BY <1>0, LenProperties DEF HasDigest, Stored, Shapes
    <2>b. /\ Over(expected, dest) \in Seq(Int)
          /\ Len(Over(expected, dest)) >= Len(expected)
          /\ SubSeq(Over(expected, dest), 1, Len(expected)) = expected
      BY <2>a, OverHolds
    <2>c. dest' \in Seq(Int)
      <3>1. ASSUME NEW n \in 0..(Len(expected) - 1)
            PROVE  Over(SubSeq(expected, 1, n), dest) \in Seq(Int)
        <4>1. \A i \in 1..n : expected[i] \in Int
          BY <2>a, ElementOfSeq
        <4>2. SubSeq(expected, 1, n) \in Seq(Int)
          BY <2>a, <4>1, SubSeqProperties
        <4> QED
          BY <2>a, <4>2, OverHolds
      <3> QED
        BY <2>b, <3>1
    <2>d. server' = "finish" /\ (result' = "error" \/ (result' = result /\ dest' = Over(expected, dest)))
      OBVIOUS
    <2>1. TypeOK'
      BY <1>0, <2>d DEF TypeOK
    <2>2. Shapes'
      BY <1>0, <2>c DEF Shapes
    <2>3. InOrder'
      BY <2>d DEF InOrder, Takes
    <2>4. Received'
      BY <1>0, <2>d DEF Received
    <2>5. Prepared'
      BY <1>0 DEF Prepared
    <2>6. HasDigest'
      BY <1>0, <2>d DEF HasDigest
    <2>7. Stored'
      BY <1>0, <2>a, <2>d DEF Stored, Takes
    <2>8. VerifiedFile'
      BY <2>a, <2>b, <2>d DEF VerifiedFile, Holds
    <2>9. Success'
      BY <2>a DEF Success
    <2>10. Told'
      BY <1>0 DEF Told
    <2> QED
      BY <2>1, <2>2, <2>3, <2>4, <2>5, <2>6, <2>7, <2>8, <2>9, <2>10 DEF IInv
  <1>6. CASE CheckIntegrity
    <2> USE <1>6 DEF CheckIntegrity, ToFinish, ServerGo, Identical
    <2>1. TypeOK'
      BY <1>0 DEF TypeOK
    <2>2. Shapes'
      BY <1>0, EmptySeq DEF Shapes
    <2>3. InOrder'
      BY <1>0 DEF InOrder, Taken, Sent, Takes
    <2>4. Received'
      BY <1>0 DEF Received
    <2>5. Prepared'
      BY <1>0 DEF Prepared
    <2>6. HasDigest'
      BY <1>0 DEF HasDigest
    <2>7. Stored'
      BY <1>0 DEF Stored, Holds, Takes
    <2>8. VerifiedFile'
      <3>1. ASSUME outcome' = "verified", ~shaFailed, result = "ok"
            PROVE  Bytes(received) = digest /\ dest' = dest
        BY <1>0, <3>1 DEF HasDigest
      <3>2. Holds(Bytes(received))
        BY <1>0 DEF Stored, Takes
      <3> QED
        BY <3>1, <3>2 DEF VerifiedFile, Holds
    <2>9. Success'
      BY <1>0 DEF Success
    <2>10. Told'
      BY <1>0 DEF Told
    <2> QED
      BY <2>1, <2>2, <2>3, <2>4, <2>5, <2>6, <2>7, <2>8, <2>9, <2>10 DEF IInv
  <1>7. CASE Finish
    <2> USE <1>7 DEF Finish
    <2>1. TypeOK'
      BY <1>0 DEF TypeOK
    <2>2. Shapes'
      BY <1>0 DEF Shapes
    <2>3. InOrder'
      BY <1>0 DEF InOrder, Taken, Sent, Takes
    <2>4. Received'
      BY <1>0 DEF Received
    <2>5. Prepared'
      BY <1>0 DEF Prepared
    <2>6. HasDigest'
      BY <1>0 DEF HasDigest
    <2>7. Stored'
      BY <1>0 DEF Stored, Holds, Takes
    <2>8. VerifiedFile'
      BY <1>0 DEF VerifiedFile, Holds
    <2>9. Success'
      BY <1>0 DEF Success
    <2>10. Told'
      BY <1>0 DEF Told
    <2> QED
      BY <2>1, <2>2, <2>3, <2>4, <2>5, <2>6, <2>7, <2>8, <2>9, <2>10 DEF IInv
  <1> QED
    BY <1>1, <1>2, <1>3, <1>4, <1>5, <1>6, <1>7

LEMMA NextIInv == IInv /\ [Next]_vars => IInv'
  <1> SUFFICES ASSUME IInv, [Next]_vars PROVE IInv'
    OBVIOUS
  <1>1. CASE UNCHANGED vars
    BY <1>1 DEF vars, clientVars, serverVars, fixed, IInv, TypeOK, Shapes, InOrder,
         Received, Prepared, HasDigest, Stored, VerifiedFile, Success, Told, Taken, Sent,
         Holds, Compression
  <1>2. CASE Next
    BY <1>2, ClientIInv, PrepareIInv, SendIInv, TakeIInv, FinishIInv
    DEF Next, ClientStep, ServerStep
  <1> QED
    BY <1>1, <1>2

LEMMA SpecIInv == FairSpec => []IInv
  BY InitIInv, NextIInv, PTL DEF FairSpec

-----------------------------------------------------------------------------
\* The states and messages of both sides have the shapes the code gives them.
THEOREM TypeCorrect == FairSpec => []TypeOK
  <1>1. IInv => TypeOK
    BY DEF IInv
  <1> QED
    BY SpecIInv, <1>1, PTL

\* A server of either application that found the digests equal and returns
\* success has stored the content the digest was computed from, whatever the
\* sizes and whoever writes the client's file meanwhile.
THEOREM VerifiedFileHolds == FairSpec => []VerifiedFile
  <1>1. IInv => VerifiedFile
    BY DEF IInv
  <1> QED
    BY SpecIInv, <1>1, PTL

\* Messages of an unchanged file carry the bytes at their place.
AsSource(msgs) ==
    \A i \in 1..Len(msgs) : msgs[i].kind = "segment" => msgs[i].of = <<source[msgs[i].n]>>

\* What the server knows of a file that nobody has written.
SourceDigest ==
    digest # <<>> => /\ ~Compression => packed.n = Len(source)
                     /\ Unchanged => digest = source
DigestKnown ==
    (\/ toServer # <<>>
     \/ server \in {"count", "file", "check"}
     \/ client \in {"compress", "send_digest", "send_count", "send_file", "wait"})
        => digest # <<>>
Copies == Unchanged /\ ~Compression => AsSource(toServer) /\ AsSource(received)
Counted ==
    /\ server = "file" => total = packed.n
    /\ server = "check" /\ ~Compression /\ ~shaFailed => Len(received) = packed.n
RemovedBad == outcome \in {"removed", "kept"} /\ ~shaFailed => ~Unchanged

Faithful == SourceDigest /\ DigestKnown /\ Copies /\ Counted /\ RemovedBad

LEMMA InitFaithful == Init => Faithful
  <1> SUFFICES ASSUME Init PROVE Faithful
    OBVIOUS
  <1>1. Len(toServer) = 0 /\ Len(received) = 0
    BY DEF Init
  <1> QED
    BY <1>1 DEF Init, Faithful, SourceDigest, DigestKnown, Copies, Counted, RemovedBad, AsSource

\* The steps that move no message.
LEMMA QuietFaithful ==
  ASSUME IInv, Faithful,
         \/ Open \/ ReceiveFinish \/ ClientReset \/ Timeout \/ ServerFails \/ ServerReturns
         \/ CheckCompression \/ Write \/ Finish \/ UNCHANGED vars
  PROVE  Faithful'
  <1>1. UNCHANGED <<source, toServer, received, digest, packed, app>>
    BY Zenon DEF Open, ReceiveFinish, ClientReset, Timeout, ServerFails, ServerReturns,
       CheckCompression, Write, Finish, vars, serverVars, clientVars, fixed
  <1>2. total' = total /\ outcome' \in {outcome, "verified"}
    BY Zenon DEF Open, ReceiveFinish, ClientReset, Timeout, ServerFails, ServerReturns,
       CheckCompression, Write, Finish, vars, serverVars, clientVars, fixed
  <1>3. \/ server' = server /\ shaFailed' = shaFailed
        \/ server' \in {"finish", "end", "write"} /\ shaFailed' = shaFailed
        \/ server = "file" /\ server' = "check" /\ shaFailed' = TRUE
    BY Zenon DEF Open, ReceiveFinish, ClientReset, Timeout, ServerFails, ServerReturns,
       CheckCompression, Write, Finish, vars, serverVars, clientVars, fixed, ToFinish, ServerGo
  <1>4. client' = client \/ client' \in {"compute", "end"}
    BY Zenon DEF Open, ReceiveFinish, ClientReset, Timeout, ServerFails, ServerReturns,
       CheckCompression, Write, Finish, vars, serverVars, clientVars, fixed, ClientGo, ClientError
  <1>5. Unchanged' = Unchanged /\ Compression' = Compression
    BY <1>1 DEF Unchanged, Compression
  <1>6. SourceDigest'
    BY <1>1, <1>5 DEF Faithful, SourceDigest
  <1>7. DigestKnown'
    BY <1>1, <1>3, <1>4 DEF Faithful, DigestKnown
  <1>8. Copies'
    BY <1>1, <1>5 DEF Faithful, Copies, AsSource
  <1>9. Counted'
    BY <1>1, <1>2, <1>3, <1>5 DEF Faithful, Counted
  <1>10. RemovedBad'
    BY <1>2, <1>3, <1>5 DEF Faithful, RemovedBad
  <1> QED
    BY <1>6, <1>7, <1>8, <1>9, <1>10 DEF Faithful

\* Once the file is written by somebody else nothing more is asked.
LEMMA ChangeFaithful ==
  ASSUME IInv, Faithful, ChangeFile
  PROVE  Faithful'
  <1>1. PICK i \in DOMAIN source : source' = [source EXCEPT ![i] = Changed]
    BY DEF ChangeFile
  <1>2. source \in Seq(Int)
    BY DEF IInv, Shapes
  <1>3. ~Unchanged' /\ Len(source') = Len(source)
    BY <1>1, <1>2 DEF Unchanged
  <1>4. UNCHANGED <<toServer, received, digest, packed, app, server, client, total, outcome, shaFailed>>
    BY DEF ChangeFile, clientVars, serverVars, fixed
  <1> QED
    BY <1>3, <1>4 DEF Faithful, SourceDigest, DigestKnown, Copies, Counted, RemovedBad, Compression

\* Before the digest is sent the server has nothing.
LEMMA NothingSent ==
  ASSUME IInv, client \in {"compute", "compress"}
  PROVE  /\ server \notin {"count", "file", "check"} /\ received = <<>>
         /\ server \in {"finish", "end"} => result # "ok"
         /\ server \in Takes => toServer = <<>>
  <1>1. Shapes /\ InOrder /\ Received /\ HasDigest
    BY DEF IInv
  <1>2. server \notin {"count", "file", "check"} /\ received = <<>>
    BY <1>1 DEF HasDigest, Received
  <1>3. server \in {"finish", "end"} => result # "ok"
    BY <1>1 DEF HasDigest
  <1>4. server \in Takes => toServer = <<>>
    <2>1. Len(toServer) \in Nat /\ Sent = 0 /\ (server = "digest" => Taken = 0)
      BY <1>1, LenProperties DEF Shapes, Sent, Taken
    <2>2. server \in Takes => Len(toServer) = 0
      BY <1>1, <1>2, <2>1 DEF InOrder, Takes
    <2> QED
      BY <1>1, <2>2, EmptySeq DEF Shapes
  <1> QED
    BY <1>2, <1>3, <1>4
LEMMA PrepareFaithful ==
  ASSUME IInv, Faithful, Compute \/ Compress
  PROVE  Faithful'
  <1>0. Shapes /\ Prepared /\ client \in {"compute", "compress"}
    BY DEF IInv, Compute, Compress
  <1>1. UNCHANGED <<source, toServer, received, app, server, outcome, shaFailed>>
    BY DEF Compute, Compress, serverVars, fixed
  <1>2. Unchanged' = Unchanged /\ Compression' = Compression
    BY <1>1 DEF Unchanged, Compression
  <1>3. server \notin {"count", "file", "check"}
    BY <1>0, NothingSent
  <1>4. digest' # <<>> /\ (digest' = source \/ (digest' = digest /\ client = "compress"))
    <2>1. CASE Compute
      BY <1>0, <2>1, EmptySeq DEF Compute, Shapes, Prepared
    <2>2. CASE Compress
      BY <2>2 DEF Compress, Faithful, DigestKnown
    <2> QED
      BY <2>1, <2>2
  <1>5. ~Compression => packed'.n = Len(source)
    BY <1>0 DEF Compute, Compress, Prepared, Shapes
  <1>6. SourceDigest'
    BY <1>1, <1>2, <1>4, <1>5 DEF Faithful, SourceDigest, DigestKnown
  <1>7. DigestKnown'
    BY <1>4 DEF DigestKnown
  <1>8. Copies'
    BY <1>1, <1>2 DEF Faithful, Copies, AsSource
  <1>9. Counted'
    BY <1>1, <1>3 DEF Counted
  <1>10. RemovedBad'
    BY <1>1, <1>2 DEF Faithful, RemovedBad
  <1> QED
    BY <1>6, <1>7, <1>8, <1>9, <1>10 DEF Faithful

\* A client that leaves may drop its last messages.
LEMMA LeaveFaithful ==
  ASSUME IInv, Faithful, ClientFails
  PROVE  Faithful'
  <1>0. toServer \in Seq(Messages)
    BY DEF IInv, Shapes
  <1>1. PICK n \in 0..Len(toServer) : toServer' = SubSeq(toServer, 1, n)
    BY DEF ClientFails
  <1>2. UNCHANGED <<source, received, digest, packed, app, server, total, outcome, shaFailed>>
        /\ client' = "end"
    BY DEF ClientFails, ClientError, serverVars, fixed
  <1>3. /\ toServer' \in Seq(Messages) /\ Len(toServer') = n
        /\ \A i \in 1..n : toServer'[i] = toServer[i] /\ i \in 1..Len(toServer)
    BY <1>0, <1>1
  <1>4. toServer' # <<>> => toServer # <<>>
    BY <1>0, <1>3, EmptySeq
  <1>5. Unchanged' = Unchanged /\ Compression' = Compression
    BY <1>2 DEF Unchanged, Compression
  <1>6. SourceDigest'
    BY <1>2, <1>5 DEF Faithful, SourceDigest
  <1>7. DigestKnown'
    BY <1>2, <1>4 DEF Faithful, DigestKnown
  <1>8. Copies'
    BY <1>2, <1>3, <1>5 DEF Faithful, Copies, AsSource
  <1>9. Counted'
    BY <1>2, <1>5 DEF Faithful, Counted
  <1>10. RemovedBad'
    BY <1>2, <1>5 DEF Faithful, RemovedBad
  <1> QED
    BY <1>6, <1>7, <1>8, <1>9, <1>10 DEF Faithful

\* The client's messages: the digest and the count are no part of the file.
LEMMA SendFaithful ==
  ASSUME IInv, Faithful, SendDigest \/ SendCount \/ SendSegment
  PROVE  Faithful'
  <1>0. /\ toServer \in Seq(Messages) /\ Len(toServer) \in Nat
        /\ client \in {"send_digest", "send_count", "send_file"}
    BY LenProperties DEF IInv, Shapes, SendDigest, SendCount, SendSegment
  <1>1. UNCHANGED <<source, received, digest, packed, app, server, total, outcome, shaFailed>>
    BY DEF SendDigest, SendCount, SendSegment, serverVars, fixed
  <1>2. PICK m : /\ toServer' = Append(toServer, m)
                 /\ m = Digest(digest) \/ m = Count(packed.n) \/ m = Segment(sent + 1)
    BY DEF SendDigest, SendCount, SendSegment, Send
  <1>3. m.kind = "segment" /\ ~Compression => m.of = <<source[m.n]>>
    BY <1>2 DEF Digest, Count, Segment
  <1>4. /\ Len(toServer') = Len(toServer) + 1
        /\ \A i \in 1..Len(toServer) : toServer'[i] = toServer[i]
        /\ toServer'[Len(toServer) + 1] = m
    BY <1>0, <1>2
  <1>5. Unchanged' = Unchanged /\ Compression' = Compression
    BY <1>1 DEF Unchanged, Compression
  <1>6. SourceDigest'
    BY <1>1, <1>5 DEF Faithful, SourceDigest
  <1>7. DigestKnown'
    BY <1>0, <1>1 DEF Faithful, DigestKnown
  <1>8. Copies'
    <2> SUFFICES ASSUME Unchanged', ~Compression' PROVE AsSource(toServer)' /\ AsSource(received)'
      BY DEF Copies
    <2>1. AsSource(toServer) /\ AsSource(received)
      BY <1>5 DEF Faithful, Copies
    <2>2. ASSUME NEW i \in 1..Len(toServer')
          PROVE  toServer'[i].kind = "segment" => toServer'[i].of = <<source[toServer'[i].n]>>
      <3>1. CASE i \in 1..Len(toServer)
        BY <1>4, <2>1, <3>1 DEF AsSource
      <3>2. CASE i = Len(toServer) + 1
        BY <1>3, <1>4, <1>5, <3>2
      <3> QED
        BY <1>0, <1>4, <3>1, <3>2
    <2> QED
      BY <1>1, <2>1, <2>2 DEF AsSource
  <1>9. Counted'
    BY <1>1, <1>5 DEF Faithful, Counted
  <1>10. RemovedBad'
    BY <1>1, <1>5 DEF Faithful, RemovedBad
  <1> QED
    BY <1>6, <1>7, <1>8, <1>9, <1>10 DEF Faithful

\* The messages the server takes.
LEMMA TakeFaithful ==
  ASSUME IInv, Faithful, ReceiveDigest \/ ReceiveCount \/ ReceivePart \/ ReceiveSegment
  PROVE  Faithful'
  <1>0. /\ toServer \in Seq(Messages) /\ received \in Seq(Messages) /\ Len(received) \in Nat
        /\ digest \in Seq(Int) /\ packed.n \in Nat
        /\ TypeOK /\ Shapes /\ InOrder /\ Received /\ toServer # <<>> /\ server \in Takes
    BY LenProperties
    DEF IInv, Shapes, Takes, ReceiveDigest, ReceiveCount, ReceivePart, ReceiveSegment, Take
  <1>1. UNCHANGED <<source, digest, packed, app, client, outcome>>
    BY DEF ReceiveDigest, ReceiveCount, ReceivePart, ReceiveSegment, clientVars, fixed
  <1>2. /\ toServer' = Tail(toServer) /\ Len(toServer') = Len(toServer) - 1
        /\ \A i \in 1..Len(toServer') : toServer'[i] = toServer[i + 1] /\ i + 1 \in 1..Len(toServer)
        /\ Head(toServer) = toServer[1] /\ 1 \in 1..Len(toServer)
    <2>1. toServer' = Tail(toServer)
      BY DEF ReceiveDigest, ReceiveCount, ReceivePart, ReceiveSegment, Take
    <2>2. Len(toServer) \in Nat /\ Len(toServer) >= 1
      BY <1>0, EmptySeq
    <2>3. /\ Len(Tail(toServer)) = Len(toServer) - 1 /\ Head(toServer) = toServer[1]
          /\ \A i \in 1..Len(Tail(toServer)) : Tail(toServer)[i] = toServer[i + 1]
      BY <1>0, HeadTailProperties
    <2> QED
      BY <2>1, <2>2, <2>3
  <1>3. digest # <<>>
    BY <1>0 DEF Faithful, DigestKnown
  <1>4. Unchanged' = Unchanged /\ Compression' = Compression
    BY <1>1 DEF Unchanged, Compression
  <1>5. \/ received' = received
        \/ server = "file" /\ received' = Append(received, Head(toServer))
    BY DEF ReceiveDigest, ReceiveCount, ReceivePart, ReceiveSegment, Next1
  <1>6. SourceDigest'
    BY <1>1, <1>4 DEF Faithful, SourceDigest
  <1>7. DigestKnown'
    BY <1>1, <1>3 DEF DigestKnown
  <1>8. Copies'
    <2> SUFFICES ASSUME Unchanged', ~Compression' PROVE AsSource(toServer)' /\ AsSource(received)'
      BY DEF Copies
    <2>1. AsSource(toServer) /\ AsSource(received)
      BY <1>4 DEF Faithful, Copies
    <2>2. AsSource(toServer)'
      BY <1>1, <1>2, <2>1 DEF AsSource
    <2>3. AsSource(received)'
      <3>1. CASE received' = received
        BY <1>1, <2>1, <3>1 DEF AsSource
      <3>2. CASE received' = Append(received, Head(toServer))
        <4>1. /\ Len(received') = Len(received) + 1
              /\ \A i \in 1..Len(received) : received'[i] = received[i]
              /\ received'[Len(received) + 1] = toServer[1]
          BY <1>0, <1>2, <3>2
        <4>2. ASSUME NEW i \in 1..Len(received')
              PROVE  received'[i].kind = "segment" => received'[i].of = <<source[received'[i].n]>>
          <5>1. CASE i \in 1..Len(received)
            BY <2>1, <4>1, <5>1 DEF AsSource
          <5>2. CASE i = Len(received) + 1
            BY <1>2, <2>1, <4>1, <5>2 DEF AsSource
          <5> QED
            BY <1>0, <4>1, <5>1, <5>2
        <4> QED
          BY <1>1, <4>2 DEF AsSource
      <3> QED
        BY <1>5, <3>1, <3>2
    <2> QED
      BY <2>2, <2>3
  <1>9. Counted'
    <2>1. CASE ReceiveDigest
      BY <2>1 DEF ReceiveDigest, Counted, ToFinish, ServerGo
    <2>2. CASE ReceiveCount
      <3>1. Taken + 1 = 2
        BY <2>2 DEF ReceiveCount, Taken
      <3>2. Head(toServer).kind = "count" /\ Head(toServer).n = packed.n
        BY <1>0, <3>1, TakeOne, FirstMessages
      <3>3. server' = "file" => total' = packed.n
        BY <2>2, <3>2 DEF ReceiveCount, Next1, ToFinish, ServerGo
      <3>4. server' = "check" => Compression
        BY <2>2, <3>2 DEF ReceiveCount, Next1, ToFinish, ServerGo
      <3> QED
        BY <1>1, <1>4, <3>3, <3>4 DEF Counted
    <2>3. CASE ReceivePart
      BY <1>1, <2>3 DEF ReceivePart, Faithful, Counted, Compression, ToFinish, ServerGo
    <2>4. CASE ReceiveSegment
      <3>1. total = packed.n /\ total' = total
        BY <2>4 DEF ReceiveSegment, Faithful, Counted
      <3>2. server' = "check" /\ ~shaFailed' => Len(received') = total
        BY <2>4 DEF ReceiveSegment, ServerGo, ToFinish, AllIn
      <3> QED
        BY <1>1, <3>1, <3>2 DEF Counted
    <2> QED
      BY <2>1, <2>2, <2>3, <2>4
  <1>10. RemovedBad'
    <2>1. outcome = "none"
      BY <1>0 DEF IInv, Stored
    <2> QED
      BY <1>1, <2>1 DEF RemovedBad
  <1> QED
    BY <1>6, <1>7, <1>8, <1>9, <1>10 DEF Faithful

\* The bytes of all messages of an unchanged file are the digest's.
LEMMA WholeFile ==
  ASSUME IInv, Faithful, Unchanged, ~Compression, ~shaFailed, server = "check"
  PROVE  Bytes(received) = expected
  <1>0. /\ source \in Seq(Int) /\ received \in Seq(Messages) /\ expected = digest
        /\ Len(received) \in Nat /\ Len(source) \in Nat
    BY LenProperties DEF IInv, Shapes, HasDigest
  <1>1. digest = source /\ Len(received) = Len(source)
    BY DEF Faithful, DigestKnown, SourceDigest, Counted
  <1>2. \A i \in 1..Len(received) : received[i].kind = "segment" /\ received[i].n = i
    BY DEF IInv, Received, IsSegment
  <1>3. \A i \in 1..Len(received) : received[i].of = <<source[i]>>
    BY <1>2 DEF Faithful, Copies, AsSource
  <1>4. \A i \in 1..Len(received) : received[i].of[1] = source[i]
    BY <1>3
  <1>5. Bytes(received) = [i \in 1..Len(received) |-> source[i]]
    BY <1>0, <1>4 DEF Bytes
  <1>6. source = [i \in 1..Len(source) |-> source[i]]
    BY <1>0
  <1> QED
    BY <1>0, <1>1, <1>5, <1>6

LEMMA CheckFaithful ==
  ASSUME IInv, Faithful, CheckIntegrity
  PROVE  Faithful'
  <1>1. /\ UNCHANGED <<source, toServer, received, digest, packed, app, client, total, shaFailed>>
        /\ server' = "finish" /\ server = "check" /\ ~Compression
    BY DEF CheckIntegrity, ToFinish, clientVars, fixed
  <1>2. Unchanged' = Unchanged /\ Compression' = Compression
    BY <1>1 DEF Unchanged, Compression
  <1>3. ASSUME outcome' \in {"removed", "kept"}, ~shaFailed PROVE ~Unchanged
    <2>1. Bytes(received) # expected
      BY <1>3 DEF CheckIntegrity, Identical
    <2> QED
      BY <1>1, <1>3, <2>1, WholeFile
  <1>4. RemovedBad'
    BY <1>1, <1>2, <1>3 DEF RemovedBad
  <1>5. SourceDigest' /\ DigestKnown' /\ Counted'
    BY <1>1, <1>2 DEF Faithful, SourceDigest, DigestKnown, Counted
  <1>6. Copies'
    BY <1>1, <1>2 DEF Faithful, Copies, AsSource
  <1> QED
    BY <1>4, <1>5, <1>6 DEF Faithful

LEMMA SpecFaithful == FairSpec => []Faithful
  <1>1. IInv /\ Faithful /\ [Next]_vars => Faithful'
    BY QuietFaithful, ChangeFaithful, PrepareFaithful, LeaveFaithful, SendFaithful,
       TakeFaithful, CheckFaithful
    DEF Next, ClientStep, ServerStep
  <1> QED
    BY InitFaithful, <1>1, SpecIInv, PTL DEF FairSpec

\* A server that returns success has verified and stored a file that nobody
\* wrote meanwhile, that fits its buffer and whose hash tasks did not fail:
\* neither application drops a good file, for all sizes, buffers and queues.
THEOREM GoodFileStoredHolds == FairSpec => []GoodFileStored
  <1>1. IInv /\ Faithful => GoodFileStored
    <2> SUFFICES ASSUME IInv, Faithful, server = "end", result = "ok", Unchanged, ~shaFailed,
                        Compression => packed.n <= cap
                 PROVE  outcome = "verified" /\ Holds(digest)
      BY DEF GoodFileStored
    <2>1. packed.n \in Nat /\ cap \in Nat
      BY DEF IInv, Shapes
    <2>2. outcome = "verified"
      BY <2>1 DEF IInv, Success, Stored, Faithful, RemovedBad
    <2> QED
      BY <2>2 DEF IInv, VerifiedFile
  <1> QED
    BY SpecIInv, SpecFaithful, <1>1, PTL

\* file_compression replaces its file only by a verified one, and no step of
\* either server changes the file once a client was told that it is done.
THEOREM FinalWhenToldHolds == FairSpec => FinalWhenTold
  <1> DEFINE Final == /\ (Compression /\ dest' # dest) => outcome = "verified"
                      /\ (client = "end" /\ clientRes = "ok") => dest' = dest
  <1>1. IInv /\ [Next]_vars => [Final]_vars
    <2> SUFFICES ASSUME IInv, Next, dest' # dest PROVE Final
      BY DEF vars, serverVars
    <2>1. \/ ~Compression /\ server \in {"file", "check"}
          \/ server = "write"
      BY DEF Next, ClientStep, ServerStep, Open, Compute, Compress, SendDigest, SendCount,
           SendSegment, ReceiveFinish, ClientReset, ClientFails, ChangeFile, ReceiveDigest,
           ReceiveCount, ReceivePart, ReceiveSegment, Timeout, ServerFails, ServerReturns,
           CheckCompression, CheckIntegrity, Write, Finish, serverVars, clientVars
    <2>2. server = "write" => outcome = "verified"
      BY DEF IInv, Stored
    <2>3. client = "end" /\ clientRes = "ok" => server = "end"
      BY DEF IInv, Told
    <2> QED
      BY <2>1, <2>2, <2>3
  <1> QED
    BY SpecIInv, <1>1, PTL DEF FairSpec, FinalWhenTold
=============================================================================
