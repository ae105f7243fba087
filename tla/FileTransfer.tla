---------------------------- MODULE FileTransfer ----------------------------
(***************************************************************************)
(* file_compression and file_integrity: a client sends a digest of its     *)
(* file, the number of messages and the messages; a server stores the file *)
(* and compares its digest with the client's.  The two applications share  *)
(* the protocol and differ in when the file is written: file_compression   *)
(* decompresses and compares before it writes, file_integrity writes every *)
(* message as it comes and removes the file when the digests differ.       *)
(*                                                                         *)
(* A file is a sequence of marks, one for each message it fills: i for the *)
(* i-th as the client found it, Changed if somebody else has written it    *)
(* since (the client maps the file and reads it again after the digest),   *)
(* Older for what the server had before.                                   *)
(* A digest is the content it was computed from: collisions are left out.  *)
(* The Comm Channel is external: reliable and in order, its send queue     *)
(* holds Queue messages, and a side that ends disconnects, which may drop  *)
(* what it has in flight.                                                  *)
(***************************************************************************)
EXTENDS Integers, Sequences

CONSTANTS
    Sizes,     \* sizes the client's file may have, in messages
    OldSizes,  \* sizes of the file the server may have already, 0: none
    MaxSize,   \* the largest file the client's device takes
    Caps,      \* the largest files the server's device may take
    Queue      \* messages the client may have in flight

ASSUME FileAssumption ==
    /\ Sizes \subseteq Nat /\ OldSizes \subseteq Nat
    /\ MaxSize \in Nat \ {0} /\ Caps \subseteq Nat \ {0} /\ Queue \in Nat \ {0}

VARIABLES
    app,       \* which of the two applications runs
    source,    \* the client's file
    client,    \* the step the client takes next, "end"
    clientRes, \* what the client returns
    digest,    \* the digest the client computed
    packed,    \* what the client sends: its compressed file and its length
    sent,      \* messages of the file sent
    toServer,  \* messages in flight
    finish,    \* the finish message is in flight
    server,    \* the step the server takes next, "end"
    cap,       \* max_buf_size of the server
    expected,  \* received_checksum, received_sha
    total,     \* total_msgs
    received,  \* messages of the file received
    old, dest, \* the server's file before and now
    outcome,   \* what the server found when it compared
    shaFailed, \* a partial hash task failed
    result     \* what the server returns

clientVars == <<client, clientRes, digest, packed, sent>>
serverVars == <<server, expected, total, received, dest, outcome, shaFailed, result>>
fixed == <<app, cap, old>>
vars == <<clientVars, serverVars, fixed, source, toServer, finish>>

Compression == app = "compression"

Changed == 0
Older == -1
Digest(of) == [kind |-> "digest", of |-> of, n |-> 0, last |-> FALSE]
Count(n) == [kind |-> "count", of |-> <<>>, n |-> n, last |-> FALSE]
\* Message n of the file: a part of the compressed file, or the file's own
\* bytes, read from the mapping when they are sent.
Segment(n) ==
    [kind |-> "segment", n |-> n, last |-> n = packed.n,
     of |-> IF Compression THEN packed.of ELSE <<source[n]>>]

Init ==
    /\ app \in {"compression", "integrity"}
    /\ \E n \in Sizes : source = [i \in 1..n |-> i]
    /\ client = "open" /\ clientRes = "ok" /\ digest = <<>>
    /\ packed = [of |-> <<>>, n |-> 0] /\ sent = 0
    /\ toServer = <<>> /\ finish = FALSE
    /\ server = "digest" /\ cap \in Caps /\ expected = <<>> /\ total = 0
    /\ received = <<>> /\ \E n \in OldSizes : old = [i \in 1..n |-> Older]
    /\ dest = old /\ outcome = "none" /\ shaFailed = FALSE /\ result = "ok"

-----------------------------------------------------------------------------
\* file_compression_client, file_integrity_client, send_file

ClientGo(next) == client' = next /\ UNCHANGED clientRes
ClientError == client' = "end" /\ clientRes' = "error"

\* open, fstat, mmap, and the size check.
Open ==
    /\ client = "open"
    /\ IF Len(source) \in 1..MaxSize THEN ClientGo("compute") ELSE ClientError
    /\ UNCHANGED <<digest, packed, sent, serverVars, fixed, source, toServer, finish>>

\* calculate_checksum_sw, calculate_sha
Compute ==
    /\ client = "compute" /\ digest' = source
    /\ ClientGo(IF Compression THEN "compress" ELSE "send_digest")
    /\ packed' = [packed EXCEPT !.n = Len(source)]
    /\ UNCHANGED <<sent, serverVars, fixed, source, toServer, finish>>

\* compress_file_sw into a buffer of twice the size, at most max_buf_size.
Compress ==
    /\ client = "compress" /\ ClientGo("send_digest")
    /\ \E n \in 1..MaxSize :
         n <= 2 * Len(source) /\ packed' = [of |-> source, n |-> n]
    /\ UNCHANGED <<digest, sent, serverVars, fixed, source, toServer, finish>>

\* doca_comm_channel_ep_sendto returns AGAIN while the queue is full.
Send(msg) ==
    /\ Len(toServer) < Queue /\ server # "end"
    /\ toServer' = Append(toServer, msg)

SendDigest ==
    /\ client = "send_digest" /\ Send(Digest(digest)) /\ ClientGo("send_count")
    /\ UNCHANGED <<digest, packed, sent, serverVars, fixed, source, finish>>

SendCount ==
    /\ client = "send_count" /\ Send(Count(packed.n)) /\ ClientGo("send_file")
    /\ UNCHANGED <<digest, packed, sent, serverVars, fixed, source, finish>>

SendSegment ==
    /\ client = "send_file" /\ Send(Segment(sent + 1)) /\ sent' = sent + 1
    /\ ClientGo(IF sent' = packed.n THEN "wait" ELSE "send_file")
    /\ UNCHANGED <<digest, packed, serverVars, fixed, source, finish>>

\* "Receive finish message when file was completely read by the server"
ReceiveFinish ==
    /\ client = "wait" /\ finish /\ finish' = FALSE /\ ClientGo("end")
    /\ UNCHANGED <<digest, packed, sent, serverVars, fixed, source, toServer>>

\* The server has disconnected and left no message.
ClientReset ==
    /\ client \in {"send_digest", "send_count", "send_file", "wait"}
    /\ server = "end" /\ (client = "wait" => ~finish) /\ ClientError
    /\ UNCHANGED <<digest, packed, sent, serverVars, fixed, source, toServer, finish>>

\* A call of the client fails before it waits: it leaves, and its disconnect
\* may drop the last messages it sent.
ClientFails ==
    /\ client \notin {"wait", "end"} /\ ClientError
    /\ \E n \in 0..Len(toServer) : toServer' = SubSeq(toServer, 1, n)
    /\ UNCHANGED <<digest, packed, sent, serverVars, fixed, source, finish>>

\* The mapping is shared: another process writes the file meanwhile.
ChangeFile ==
    /\ client # "end"
    /\ \E i \in DOMAIN source : source[i] # Changed /\ source' = [source EXCEPT ![i] = Changed]
    /\ UNCHANGED <<clientVars, serverVars, fixed, toServer, finish>>

-----------------------------------------------------------------------------
\* file_compression_server, file_integrity_server

\* goto finish_msg
ToFinish(res) == server' = "finish" /\ result' = res
ServerGo(next) == server' = next /\ UNCHANGED result

Next1 == Head(toServer)
Take == toServer # <<>> /\ toServer' = Tail(toServer)

ReceiveDigest ==
    /\ server = "digest" /\ Take
    /\ IF Compression /\ Next1.kind # "digest"
       THEN ToFinish("ok") /\ UNCHANGED expected
       ELSE ServerGo("count") /\ expected' = Next1.of
    /\ UNCHANGED <<total, received, dest, outcome, shaFailed, clientVars, fixed,
                   source, finish>>

ReceiveCount ==
    /\ server = "count" /\ Take
    /\ CASE Next1.kind # "count" -> ToFinish("ok") /\ UNCHANGED total
         [] Next1.kind = "count" /\ Next1.n = 0 /\ ~Compression ->
              ToFinish("error") /\ UNCHANGED total
         [] OTHER -> ServerGo(IF Next1.n = 0 THEN "check" ELSE "file") /\ total' = Next1.n
    /\ UNCHANGED <<expected, received, dest, outcome, shaFailed, clientVars, fixed,
                   source, finish>>

\* Mutant: every write begins at the start of the file.
OverStart(content, file) ==
    IF content = <<>> THEN file
    ELSE <<content[Len(content)]>> \o SubSeq(file, 2, Len(file))

\* open without O_TRUNC: what was there beyond the new content stays.
Over(content, file) ==
    content \o SubSeq(file, Len(content) + 1, Len(file))

\* Mutant: the loop over total_msgs ends one message early.
AllButLast(n) == n + 1 >= total

\* The loop over total_msgs ends.
AllIn(n) == n = total

\* file_compression: a message of the file is kept in memory if it fits.
ReceivePart ==
    /\ Compression /\ server = "file" /\ Take
    /\ IF Len(received) + 1 > cap
       THEN ToFinish("ok") /\ UNCHANGED received
       ELSE /\ received' = Append(received, Next1)
            /\ ServerGo(IF AllIn(Len(received')) THEN "check" ELSE "file")
    /\ UNCHANGED <<expected, total, dest, outcome, shaFailed, clientVars, fixed,
                   source, finish>>

\* The bytes of the messages of an integrity transfer.
Bytes(msgs) == [i \in DOMAIN msgs |-> msgs[i].of[1]]

\* file_integrity: a message of the file is written and hashed.  An error
\* after the write is returned (calculate_sha of a single message, or
\* doca_task_submit), but a partial hash task that completes with an error
\* leaves the loop with the result of the last call before it, which
\* succeeded.
ReceiveSegment ==
    /\ ~Compression /\ server = "file" /\ Take
    /\ received' = Append(received, Next1)
    /\ dest' = Over(Bytes(received'), dest)
    /\ \/ /\ ServerGo(IF AllIn(Len(received')) THEN "check" ELSE "file")
          /\ UNCHANGED shaFailed
       \/ ToFinish("error") /\ UNCHANGED shaFailed
       \/ total > 1 /\ ServerGo("check") /\ shaFailed' = TRUE
    /\ UNCHANGED <<expected, total, outcome, clientVars, fixed, source, finish>>

\* counter == num_of_iterations: result still is DOCA_ERROR_AGAIN, or TIME_OUT.
\* The digest is waited for without a limit.
\* Mutant: the wait for a message of the file has no limit either.
TimeoutCountOnly ==
    /\ server = "count" /\ toServer = <<>> /\ ToFinish("error")
    /\ UNCHANGED <<expected, total, received, dest, outcome, shaFailed, clientVars,
                   fixed, source, toServer, finish>>

Timeout ==
    /\ server \in {"count", "file"} /\ toServer = <<>> /\ ToFinish("error")
    /\ UNCHANGED <<expected, total, received, dest, outcome, shaFailed, clientVars,
                   fixed, source, toServer, finish>>

\* recvfrom, calloc, open, doca_buf_set_data or write fails (a short write is
\* taken for none).  A partial hash task that is not there when the loop
\* begins leaves it with the result of its allocation, which succeeded.
ServerFails ==
    /\ \/ /\ server \in {"digest", "count", "file", "check"} /\ ToFinish("error")
          /\ UNCHANGED shaFailed
       \/ /\ ~Compression /\ server = "file" /\ total > 1 /\ received = <<>>
          /\ ServerGo("check") /\ shaFailed' = TRUE
    /\ UNCHANGED <<expected, total, received, dest, outcome, clientVars, fixed, source,
                   toServer, finish>>

\* compress_file in the server: what the parts decompress to, if all of them
\* are there and the result fits the buffer.
Decompressed ==
    {c \in {received[i].of : i \in DOMAIN received} :
       /\ \A i \in DOMAIN received : received[i].of = c /\ received[i].n = i
       /\ received[Len(received)].last /\ Len(c) <= cap}

\* Mutant: the decompressed file is written whatever its checksum is.
CheckIgnored ==
    /\ Compression /\ server = "check"
    /\ IF Decompressed = {} THEN ToFinish("error") ELSE ServerGo("write")
    /\ UNCHANGED <<outcome, expected, total, received, dest, shaFailed, clientVars,
                   fixed, source, toServer, finish>>

CheckCompression ==
    /\ Compression /\ server = "check"
    /\ IF expected \in Decompressed
       THEN ServerGo("write") /\ outcome' = "verified"
       ELSE ToFinish("error") /\ UNCHANGED outcome
    /\ UNCHANGED <<expected, total, received, dest, shaFailed, clientVars, fixed,
                   source, toServer, finish>>

\* The file is written once it is verified; a failing write may leave a part.
Write ==
    /\ server = "write"
    /\ \/ dest' = Over(expected, dest) /\ ToFinish(result)
       \/ \E n \in 0..(Len(expected) - 1) :
            dest' = Over(SubSeq(expected, 1, n), dest) /\ ToFinish("error")
    /\ UNCHANGED <<expected, total, received, outcome, shaFailed, clientVars, fixed,
                   source, toServer, finish>>

\* memcmp over the length of the calculated hash.  What the hash buffer holds
\* after a failed task, and how long it is, is not defined: either answer.
Identical ==
    IF shaFailed THEN BOOLEAN ELSE {Bytes(received) = expected}

\* The digests are compared; a different one has the file removed, and the
\* server's result still is success.
CheckIntegrity ==
    /\ ~Compression /\ server = "check" /\ ToFinish(result)
    /\ \/ TRUE \in Identical /\ outcome' = "verified" /\ UNCHANGED dest
       \/ FALSE \in Identical /\ outcome' = "removed" /\ dest' = <<>>
       \/ FALSE \in Identical /\ outcome' = "kept" /\ UNCHANGED dest  \* remove fails
    /\ UNCHANGED <<expected, total, received, shaFailed, clientVars, fixed, source,
                   toServer, finish>>

\* The SHA capabilities cannot be queried, received_sha or sha_output cannot be
\* allocated: the server of file_integrity returns without a finish message.
ServerReturns ==
    /\ ~Compression /\ server \in {"digest", "check"} /\ server' = "end"
    /\ result' = "error"
    /\ UNCHANGED <<expected, total, received, dest, outcome, shaFailed, clientVars,
                   fixed, source, toServer, finish>>

\* The finish message is sent whatever happened, then cleanup disconnects,
\* which may drop it.  A failing send is an error if there was none.
Finish ==
    /\ server = "finish" /\ server' = "end"
    /\ \/ finish' \in BOOLEAN /\ UNCHANGED result
       \/ result' = "error" /\ UNCHANGED finish
    /\ UNCHANGED <<expected, total, received, dest, outcome, shaFailed, clientVars,
                   fixed, source, toServer>>

-----------------------------------------------------------------------------
ClientStep ==
    \/ Open \/ Compute \/ Compress \/ SendDigest \/ SendCount \/ SendSegment
    \/ ReceiveFinish \/ ClientReset

ServerStep ==
    \/ ReceiveDigest \/ ReceiveCount \/ ReceivePart \/ ReceiveSegment \/ Timeout
    \/ CheckCompression \/ CheckIntegrity \/ Write \/ Finish

Next ==
    \/ ClientStep \/ ServerStep \/ ClientFails \/ ServerFails \/ ServerReturns
    \/ ChangeFile

\* Both sides poll in a loop of their own.
FairSpec == Init /\ [][Next]_vars /\ WF_vars(ClientStep) /\ WF_vars(ServerStep)

-----------------------------------------------------------------------------
\* The server's states and messages have the shapes the code gives them.
TypeOK ==
    /\ app \in {"compression", "integrity"} /\ finish \in BOOLEAN
    /\ client \in {"open", "compute", "compress", "send_digest", "send_count",
                   "send_file", "wait", "end"}
    /\ server \in {"digest", "count", "file", "check", "write", "finish", "end"}
    /\ outcome \in {"none", "verified", "removed", "kept"}
    /\ {clientRes, result} \subseteq {"ok", "error"}
    /\ Len(toServer) <= Queue /\ sent <= packed.n

\* Content is at the beginning of the server's file.
Holds(content) ==
    Len(dest) >= Len(content) /\ SubSeq(dest, 1, Len(content)) = content

\* A server that found the digests equal, and returns success, has stored
\* exactly the content the client computed its digest from, although the
\* client reads its file again after that and others may write it meanwhile:
\* no message is missing, repeated or out of place.  (Not after a failed
\* partial hash task, whose result the server compares all the same; and an
\* older, longer file keeps its tail, for it is not truncated.)
VerifiedFile ==
    server \in {"finish", "end"} /\ result = "ok" /\ outcome = "verified" /\ ~shaFailed
        => Holds(digest)

\* Nobody has written the client's file since the transfer began.
Unchanged == \A i \in DOMAIN source : source[i] # Changed

\* A good file is stored: when nobody writes the client's file, it fits the
\* server's buffer and no hash task fails, a server that returns success has
\* verified and stored it, and has not removed it or dropped a message, in
\* any order of sends, receives, timeouts and failures of either side.
GoodFileStored ==
    server = "end" /\ result = "ok" =>
        (Unchanged /\ ~shaFailed /\ (Compression => packed.n <= cap)
           => outcome = "verified" /\ Holds(digest))

\* Both servers return "DOCA_SUCCESS on success and DOCA_ERROR otherwise": a
\* success says that the file was verified.  The code returns it, too, after
\* a file that was too long and after one that was compromised.
ServerSuccess == server = "end" /\ result = "ok" => outcome = "verified"

\* A file of file_compression is replaced only by a verified one, and once a
\* client was told that the server is done, the server's file is final.
FinalWhenTold ==
    [][/\ (Compression /\ dest' # dest) => outcome = "verified"
       /\ (client = "end" /\ clientRes = "ok") => dest' = dest]_vars

\* The client always ends; the server ends once the digest has arrived, even
\* when the client leaves or its messages are dropped: only the wait for the
\* digest has no limit.
Completes == <>(client = "end") /\ [](server # "digest" => <>(server = "end"))
=============================================================================
