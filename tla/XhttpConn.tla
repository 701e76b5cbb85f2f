----------------------------- MODULE XhttpConn -----------------------------
(***************************************************************************)
(* The batching transport (core/transport.go, xhttpConn) with the endpoint *)
(* that serves it (server/server.go, startXHTTPServer).  Writes are        *)
(* gathered into a batch; a batch leaves as one HTTP POST, started by the  *)
(* flusher goroutine (every 5 ms), by a Write that fills the batch or by a *)
(* Read that has nothing to return; the answers to the keep-alives of a    *)
(* POST come back in its response and wait there for Read.  No mutex is    *)
(* held during a POST, so that several may be under way, and the client    *)
(* sets no time limit on them.                                             *)
(*                                                                         *)
(* A packet is known by its nonce; the copies that fec > 1 makes of it are *)
(* equal.  The replay filter is that of ServerIngress, emptied at any time *)
(* and without its false positives.                                        *)
(***************************************************************************)
EXTENDS Integers, Sequences, FiniteSets

CONSTANTS
    Packets,        \* what the client encrypts: records with an id (the nonce)
                    \* and the goroutine that encrypts and writes it
    FEC,            \* copies written of every packet
    FlushAt,        \* packets that make Write flush (500 in the code)
    Garbage,        \* what a response holds that is no whole answer
    MaxPosts        \* bound: POST requests

WriterLoop == "writerLoop"
PingLoop == "persistentPingLoop"
Writers == {WriterLoop, PingLoop}
Flusher == "flusher"
Reader == "readerLoop"
Threads == Writers \cup {Flusher, Reader}
Requests == 1..MaxPosts

ASSUME PacketsAssumption == Garbage \notin Packets /\ \A p \in Packets : p.by \in Writers
ASSUME SizesAssumption == FEC \in Nat \ {0} /\ FlushAt \in Nat \ {0} /\ MaxPosts \in Nat

VARIABLES
    batch,      \* c.batch, c.batchN: the packets not yet in a POST
    closed,     \* c.closeCh is closed
    readBuf,    \* c.readBuf from c.readIdx on: answers, named by their ping
    pc,         \* per thread, where it is
    job, left,  \* per writer, the packet it writes and the copies still to write
    last,       \* the flusher is in its last flush
    req,        \* the POST requests, in the order in which they were put together
    filter,     \* the server's replay filter
    made,       \* packets the client has encrypted
    taken,      \* history: the requests and places of the packets accepted since the
                \* filter was emptied
    late,       \* history: packets appended to the batch after Close
    took,       \* history: per packet, how often the server accepted it
    acked       \* history: per packet, how often its answer was read and decrypted

conn == <<batch, closed, readBuf>>
threads == <<pc, job, left, last>>
server == <<req, filter, taken, took>>
history == <<made, late, acked>>
vars == <<conn, threads, server, history>>

Labels == {"idle", "append", "flush", "post", "end", "done"}
\* "nobody" waits for the response of a request that ended for the client.
RequestType == [by : Threads \cup {"nobody"}, body : Seq(Packets), pos : Nat, echoes : Seq(Packets),
                pc : {"check", "set", "done"}]

TypeOK ==
    /\ batch \in Seq(Packets) /\ closed \in BOOLEAN /\ readBuf \in Seq(Packets \cup {Garbage})
    /\ pc \in [Threads -> Labels]
    /\ job \in [Writers -> Packets \cup {<<>>}] /\ left \in [Writers -> 0..FEC]
    /\ last \in BOOLEAN
    /\ req \in Seq(RequestType) /\ Len(req) <= MaxPosts
    /\ filter \subseteq Packets /\ made \subseteq Packets /\ late \subseteq Packets
    /\ taken \subseteq Requests \X Nat
    /\ took \in [Packets -> Nat] /\ acked \in [Packets -> Nat]

Init ==
    /\ batch = <<>> /\ closed = FALSE /\ readBuf = <<>>
    /\ pc = [t \in Threads |-> "idle"]
    /\ job = [w \in Writers |-> <<>>] /\ left = [w \in Writers |-> 0]
    /\ last = FALSE
    /\ req = <<>> /\ filter = {} /\ taken = {} /\ took = [p \in Packets |-> 0]
    /\ made = {} /\ late = {} /\ acked = [p \in Packets |-> 0]

\* An empty payload, which the server answers.
IsPing(p) == p.by = PingLoop

Goto(t, label) == pc' = [pc EXCEPT ![t] = label]

\* Where a thread goes on when its flush returns.
After(t) == CASE t = Reader -> "end"
              [] t = Flusher /\ last -> "done"
              [] OTHER -> "idle"

-----------------------------------------------------------------------------
(* Write.  The loops encrypt a packet once, with the next nonce, and write  *)
(* it fec times.                                                            *)
Encrypt(w, p) ==
    /\ pc[w] = "idle" /\ left[w] = 0
    /\ p \notin made /\ p.by = w
    /\ \A q \in Packets \ made : q.by = w => p.id <= q.id
    /\ made' = made \cup {p}
    /\ job' = [job EXCEPT ![w] = p]
    /\ left' = [left EXCEPT ![w] = FEC]
    /\ UNCHANGED <<conn, pc, last, server, late, acked>>

\* A plausible slip: the batch is flushed one packet too late.
WrongWriteAppend(w) ==
    /\ pc[w] = "append"
    /\ batch' = Append(batch, job[w])
    /\ late' = IF closed THEN late \cup {job[w]} ELSE late
    /\ Goto(w, IF Len(batch) + 1 > FlushAt THEN "flush" ELSE "idle")
    /\ UNCHANGED <<closed, readBuf, job, left, last, server, made, acked>>

\* A plausible slip: one copy too many.
WrongWriteCopy(w) ==
    /\ pc[w] = "idle" /\ job[w] # <<>> /\ left[w] >= 0
    /\ left' = [left EXCEPT ![w] = IF closed THEN 0 ELSE @ - 1]
    /\ IF closed THEN UNCHANGED pc ELSE Goto(w, "append")
    /\ UNCHANGED <<conn, job, last, server, history>>

\* A closed connection refuses this copy and all the others; otherwise the copy
\* will be appended, even if Close comes first.
WriteCopy(w) ==
    /\ pc[w] = "idle" /\ left[w] > 0
    /\ left' = [left EXCEPT ![w] = IF closed THEN 0 ELSE @ - 1]
    /\ IF closed THEN UNCHANGED pc ELSE Goto(w, "append")
    /\ UNCHANGED <<conn, job, last, server, history>>

WriteAppend(w) ==
    /\ pc[w] = "append"
    /\ batch' = Append(batch, job[w])
    /\ late' = IF closed THEN late \cup {job[w]} ELSE late
    /\ Goto(w, IF Len(batch) + 1 >= FlushAt THEN "flush" ELSE "idle")
    /\ UNCHANGED <<closed, readBuf, job, left, last, server, made, acked>>

-----------------------------------------------------------------------------
(* flush.  The batch is taken and emptied in one critical section of        *)
(* batchMu; the POST follows outside it.                                    *)
Post(t) == Append(req, [by |-> t, body |-> batch, pos |-> 0, echoes |-> <<>>,
                        pc |-> "check"])

\* A plausible slip: the batch is emptied only once the POST has succeeded.
WrongFlush(t, next) ==
    IF batch = <<>>
    THEN Goto(t, next) /\ UNCHANGED <<batch, req>>
    ELSE Len(req) < MaxPosts /\ req' = Post(t) /\ Goto(t, "post") /\ UNCHANGED batch

Flush(t, next) ==
    IF batch = <<>>
    THEN Goto(t, next) /\ UNCHANGED <<batch, req>>
    ELSE Len(req) < MaxPosts /\ req' = Post(t) /\ Goto(t, "post") /\ batch' = <<>>

WriterFlush(w) ==
    /\ pc[w] = "flush"
    /\ Flush(w, "idle")
    /\ UNCHANGED <<closed, readBuf, job, left, last, filter, taken, took, history>>

\* The request thread t waits for.
Mine(t, i) == i \in DOMAIN req /\ req[i].by = t

\* The request fails: the batch is gone and nobody is told.
PostFails(t, i) ==
    /\ pc[t] = "post" /\ Mine(t, i)
    /\ req' = [req EXCEPT ![i].by = "nobody", ![i].echoes = <<>>]
    /\ Goto(t, After(t))
    /\ UNCHANGED <<conn, job, left, last, filter, taken, took, history>>

\* What a response may hold: flush looks neither at the status, so that anything may
\* come from whoever answers, nor at the error of ReadAll, so that the answers of the
\* server may be cut off: after one of them, or within one, which then spoils the rest.
Responses(r) ==
    {<<Garbage>>} \cup
    IF r.pc = "done" THEN {SubSeq(r.echoes, 1, n) : n \in 0..Len(r.echoes)} ELSE {}

\* The response is there, and replaces what is left of the one before it; an
\* empty one is not stored.
PostReturns(t, i) ==
    /\ pc[t] = "post" /\ Mine(t, i)
    /\ \E body \in Responses(req[i]) : readBuf' = IF body = <<>> THEN readBuf ELSE body
    /\ req' = [req EXCEPT ![i].by = "nobody", ![i].echoes = <<>>]
    /\ Goto(t, After(t))
    /\ UNCHANGED <<batch, closed, job, left, last, filter, taken, took, history>>

-----------------------------------------------------------------------------
(* The flusher goroutine, and Close.                                        *)
\* A plausible slip: only a full batch is flushed.
WrongFlusherTick ==
    /\ pc[Flusher] = "idle" /\ Len(batch) >= FlushAt
    /\ Flush(Flusher, "idle")
    /\ UNCHANGED <<closed, readBuf, job, left, last, filter, taken, took, history>>

FlusherTick ==
    /\ pc[Flusher] = "idle"
    /\ Flush(Flusher, "idle")
    /\ UNCHANGED <<closed, readBuf, job, left, last, filter, taken, took, history>>

\* A plausible slip: the goroutine returns at once when the connection closes.
WrongFlusherLast ==
    /\ pc[Flusher] = "idle" /\ closed
    /\ last' = TRUE
    /\ Goto(Flusher, "done")
    /\ UNCHANGED <<conn, job, left, server, history>>

FlusherLast ==
    /\ pc[Flusher] = "idle" /\ closed
    /\ last' = TRUE
    /\ Flush(Flusher, "done")
    /\ UNCHANGED <<closed, readBuf, job, left, filter, taken, took, history>>

Close ==
    /\ ~closed
    /\ closed' = TRUE
    /\ UNCHANGED <<batch, readBuf, threads, server, history>>

-----------------------------------------------------------------------------
(* Read, in the goroutine of readerLoop.  It returns all there is: one      *)
(* answer can be decrypted, several in a row, or garbage, cannot.           *)
Answered ==
    IF Len(readBuf) = 1 /\ readBuf[1] \in Packets THEN [acked EXCEPT ![readBuf[1]] = @ + 1]
                                                 ELSE acked

\* A plausible slip: readIdx does not move.
WrongConsume == readBuf' = readBuf /\ acked' = Answered

Consume == readBuf' = <<>> /\ acked' = Answered

\* The test of readBuf and the flush are two critical sections of two mutexes
\* which nothing tells from one: no step touches both batch and readBuf.
ReadStart ==
    /\ pc[Reader] = "idle"
    /\ IF readBuf # <<>> THEN Consume /\ UNCHANGED <<pc, batch, req>>
                         ELSE Flush(Reader, "end") /\ UNCHANGED <<readBuf, acked>>
    /\ UNCHANGED <<closed, job, left, last, filter, taken, took, made, late>>

\* After the flush: what it brought, or the error "no data".
ReadEnd ==
    /\ pc[Reader] = "end"
    /\ Consume
    /\ Goto(Reader, "idle")
    /\ UNCHANGED <<batch, closed, job, left, last, server, made, late>>

-----------------------------------------------------------------------------
(* The server, if the request reaches it: one goroutine per request takes   *)
(* its packets one by one through xhttpProcessPacket, which tests the       *)
(* filter and inserts in two critical sections, and collects the answers.   *)
NextPacket(r) == [r EXCEPT !.pos = @ + 1,
                           !.pc = IF r.pos + 1 = Len(r.body) THEN "done" ELSE "check"]

\* A plausible slip: the packets of a batch are trusted to be different.
WrongServerCheck(i) ==
    /\ i \in DOMAIN req /\ req[i].pc = "check"
    /\ req' = [req EXCEPT ![i].pc = "set"]
    /\ UNCHANGED <<conn, threads, filter, taken, took, history>>

ServerCheck(i) ==
    /\ i \in DOMAIN req /\ req[i].pc = "check"
    /\ req' = [req EXCEPT ![i] = IF @.body[@.pos + 1] \in filter THEN NextPacket(@)
                                                               ELSE [@ EXCEPT !.pc = "set"]]
    /\ UNCHANGED <<conn, threads, filter, taken, took, history>>

\* bloomSet, Decrypt, and the answer to a keep-alive or the write to the TUN.
ServerAccept(i) ==
    /\ i \in DOMAIN req /\ req[i].pc = "set"
    /\ LET r == req[i]
           p == r.body[r.pos + 1]
       IN  /\ filter' = filter \cup {p}
           /\ taken' = taken \cup {<<i, r.pos + 1>>}
           /\ took' = [took EXCEPT ![p] = @ + 1]
           /\ req' = [req EXCEPT ![i] = [NextPacket(r) EXCEPT
                         !.echoes = IF IsPing(p) /\ r.by # "nobody" THEN Append(@, p) ELSE @]]
    /\ UNCHANGED <<conn, threads, history>>

\* The reset goroutine, every 60 s or when the filter is full: also between two copies
\* of one POST.
ResetFilter ==
    /\ filter # {}
    /\ filter' = {} /\ taken' = {}
    /\ UNCHANGED <<conn, threads, req, took, history>>

-----------------------------------------------------------------------------
WriterStep(w) == WriteCopy(w) \/ WriteAppend(w) \/ WriterFlush(w)
PostEnds(t) == \E i \in Requests : PostFails(t, i) \/ PostReturns(t, i)
ServerStep(i) == ServerCheck(i) \/ ServerAccept(i)

Next ==
    \/ \E w \in Writers : WriterStep(w) \/ \E p \in Packets : Encrypt(w, p)
    \/ \E t \in Threads : PostEnds(t)
    \/ FlusherTick \/ FlusherLast \/ Close
    \/ ReadStart \/ ReadEnd
    \/ \E i \in Requests : ServerStep(i)
    \/ ResetFilter

Spec == Init /\ [][Next]_vars

(* The flusher's ticker ticks, its select takes the closed channel in the   *)
(* end, and each of its POSTs ends: the client sets no limit on them, but   *)
(* the keep-alive of TCP fails the request of a server that has gone.       *)
(* Nothing else is needed: neither the writers, nor the reader, nor the     *)
(* server need go on.                                                       *)
FairSpec == Spec /\ WF_vars(FlusherTick) /\ WF_vars(FlusherLast) /\ WF_vars(PostEnds(Flusher))

-----------------------------------------------------------------------------
InBatch(p) == \E i \in DOMAIN batch : batch[i] = p

(* The connection implements BatchChannel: whichever of the four goroutines *)
(* flush at once, a copy that Write took goes into exactly one POST, and    *)
(* the POSTs are put together in the order of the writes.                   *)
Channel == INSTANCE BatchChannel WITH queue <- batch, posts <- [i \in DOMAIN req |-> req[i].body]
ChannelSpec == Channel!Spec

(* flush is called without a lock by the writers, which fill the batch, and *)
(* a POST may take long, while Write goes on.  The batch still stays short: *)
(* every writer that appends to a full one waits until somebody has taken   *)
(* it (Write's test of batchN).                                             *)
BatchBounded == Len(batch) < FlushAt + Cardinality(Writers)

(* The last flush of the flusher leaves nothing behind but what was         *)
(* appended after Close by a Write that had found the connection open.      *)
FlushedOnClose == pc[Flusher] = "done" => \A p \in Packets : InBatch(p) => p \in late

(* Packets written while the connection is open do not wait for others: the *)
(* batch leaves, whatever POSTs are under way and even if Close comes       *)
(* first (unless the bound on POSTs is reached).                            *)
Flushed == batch # <<>> ~> (batch = <<>> \/ late # {} \/ Len(req) = MaxPosts)

(* However often FEC repeats a packet within a POST, and whatever other     *)
(* POSTs carry copies of it at the same time: between two resets of its     *)
(* filter the server accepts no two copies out of one POST                  *)
(* (xhttpProcessPacket's check).  A reset between two copies lets the       *)
(* second one pass.                                                         *)
OncePerPost == \A t, u \in taken :
    t[1] = u[1] /\ req[t[1]].body[t[2]] = req[u[1]].body[u[2]] => t = u

(* The client counts an answer to a keep-alive only if the server gave it,  *)
(* and each one once: responses of POSTs under way together replace each    *)
(* other in readBuf, and are read while others arrive.                      *)
AnswerOnce == \A p \in Packets : acked[p] <= IF IsPing(p) THEN took[p] ELSE 0
=============================================================================
