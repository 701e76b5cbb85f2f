---------------------------- MODULE XhttpProofs ----------------------------
(***************************************************************************)
(* Proofs about XhttpConn for every set of packets, every number of copies *)
(* and every size of a batch: the type invariant, that the connection      *)
(* implements BatchChannel, that the batch stays short, that the last      *)
(* flush leaves nothing behind, and that neither the server's filter nor   *)
(* the client's reader counts a packet too often.                          *)
(***************************************************************************)
EXTENDS XhttpConn, FiniteSetTheorems, TLAPS

USE PacketsAssumption, SizesAssumption

(***************************************************************************)
(* The inductive invariant, part by part.                                  *)
(***************************************************************************)
\* A writer with copies to write or to append has a packet.
HasJob == \A w \in Writers : pc[w] = "append" \/ left[w] > 0 => job[w] \in Packets

\* The server's position in a request, and that there is a packet to look at.
Positions == \A i \in DOMAIN req :
    /\ req[i].pos <= Len(req[i].body)
    /\ req[i].pc # "done" => req[i].pos < Len(req[i].body)

\* Every writer beyond the limit is about to flush.
AboutToFlush(w) == IF pc[w] = "flush" THEN 1 ELSE 0
FullFlushed == Len(batch) < FlushAt + AboutToFlush(WriterLoop) + AboutToFlush(PingLoop)

\* From its last flush on, the flusher has left nothing behind but late packets.
LastFlush ==
    /\ pc[Flusher] = "done" => last
    /\ last => closed /\ \A p \in Packets : InBatch(p) => p \in late

\* The places of the packets accepted since the filter was emptied: their requests are
\* past them, they are in the filter, and the packet about to be inserted is not among
\* those accepted from its request.
At(t) == req[t[1]].body[t[2]]
Counting ==
    /\ \A t \in taken : /\ t[1] \in DOMAIN req /\ t[2] \in 1..req[t[1]].pos
                        /\ At(t) \in filter
                        /\ req[t[1]].pc = "set" => At(t) # req[t[1]].body[req[t[1]].pos + 1]
    /\ OncePerPost

\* Every answer counted, waiting to be read or under way was given by the server.
Has(seq, p) == \E j \in DOMAIN seq : seq[j] = p
Carriers(p) == {i \in DOMAIN req : Has(req[i].echoes, p)}
Waiting(p) == IF Has(readBuf, p) THEN 1 ELSE 0
Answers == \A p \in Packets :
    acked[p] + Waiting(p) + Cardinality(Carriers(p)) <= IF IsPing(p) THEN took[p] ELSE 0

-----------------------------------------------------------------------------
(* Replacing one request of the sequence.                                   *)
LEMMA ReplaceRequest ==
    ASSUME req \in Seq(RequestType), NEW i \in DOMAIN req, NEW r \in RequestType,
           req' = [req EXCEPT ![i] = r]
    PROVE  /\ req' \in Seq(RequestType) /\ Len(req') = Len(req) /\ DOMAIN req' = DOMAIN req
           /\ req'[i] = r /\ \A j \in DOMAIN req : j # i => req'[j] = req[j]
  OBVIOUS

(* Putting a request together.                                              *)
LEMMA AppendRequest ==
    ASSUME req \in Seq(RequestType), batch \in Seq(Packets), NEW t \in Threads,
           req' = Post(t)
    PROVE  /\ req' \in Seq(RequestType) /\ Len(req') = Len(req) + 1
           /\ DOMAIN req' = DOMAIN req \cup {Len(req) + 1}
           /\ \A j \in DOMAIN req : req'[j] = req[j]
           /\ req'[Len(req) + 1] = [by |-> t, body |-> batch, pos |-> 0, echoes |-> <<>>,
                                    pc |-> "check"]
<1> DEFINE r == [by |-> t, body |-> batch, pos |-> 0, echoes |-> <<>>, pc |-> "check"]
<1>1. r \in RequestType
  BY DEF RequestType
<1>2. req' = Append(req, r)
  BY DEF Post
<1> HIDE DEF r
<1>3. QED
  BY <1>1, <1>2 DEF r

(* Changes of one field of a request.                                       *)
LEMMA SetEchoes ==
    ASSUME NEW r \in RequestType, NEW e \in Seq(Packets)
    PROVE  [r EXCEPT !.echoes = e] \in RequestType
  BY DEF RequestType

LEMMA SetPc ==
    ASSUME NEW r \in RequestType, NEW l \in {"check", "set", "done"}
    PROVE  /\ [r EXCEPT !.pc = l] \in RequestType
           /\ [r EXCEPT !.pc = l].by = r.by /\ [r EXCEPT !.pc = l].body = r.body
           /\ [r EXCEPT !.pc = l].pos = r.pos /\ [r EXCEPT !.pc = l].echoes = r.echoes
           /\ [r EXCEPT !.pc = l].pc = l
  BY DEF RequestType

(* A request that has ended for the client.                                 *)
Ended(r) == [r EXCEPT !.by = "nobody", !.echoes = <<>>]

LEMMA EndedFields ==
    ASSUME NEW r \in RequestType
    PROVE  /\ Ended(r) \in RequestType
           /\ Ended(r).by = "nobody" /\ Ended(r).echoes = <<>>
           /\ Ended(r).body = r.body /\ Ended(r).pos = r.pos /\ Ended(r).pc = r.pc
<1> DEFINE s == [r EXCEPT !.by = "nobody"]
<1>1. s \in RequestType
  BY DEF RequestType
<1>2. <<>> \in Seq(Packets)
  OBVIOUS
<1>3. Ended(r) = [s EXCEPT !.echoes = <<>>]
  BY DEF Ended
<1>4. Ended(r) \in RequestType
  <2> HIDE DEF s
  <2>1. QED
    BY <1>1, <1>2, <1>3, SetEchoes
<1>5. QED
  BY <1>4 DEF Ended, RequestType

(* The server's move to the next packet of a request.                       *)
LEMMA NextPacketFields ==
    ASSUME NEW r \in RequestType, r.pos < Len(r.body)
    PROVE  /\ NextPacket(r) \in RequestType
           /\ NextPacket(r).by = r.by /\ NextPacket(r).body = r.body
           /\ NextPacket(r).echoes = r.echoes /\ NextPacket(r).pos = r.pos + 1
           /\ NextPacket(r).pos <= Len(r.body) /\ NextPacket(r).pc # "set"
           /\ NextPacket(r).pc # "done" => NextPacket(r).pos < Len(r.body)
<1> DEFINE s == [r EXCEPT !.pos = @ + 1]
           l == IF r.pos + 1 = Len(r.body) THEN "done" ELSE "check"
<1>1. r.pos + 1 \in Nat
  BY DEF RequestType
<1>2. s \in RequestType
  BY <1>1 DEF RequestType
<1>3. l \in {"check", "set", "done"}
  OBVIOUS
<1>4. NextPacket(r) = [s EXCEPT !.pc = l]
  BY DEF NextPacket
<1>5. NextPacket(r) \in RequestType
  <2> HIDE DEF s, l
  <2>1. [s EXCEPT !.pc = l] \in RequestType
    BY <1>2, <1>3 DEF RequestType
  <2>2. QED
    BY <1>4, <2>1
<1>6. QED
  BY <1>5 DEF NextPacket, RequestType

(* The server's insertion of a packet: the answer, if one is due.           *)
LEMMA AcceptFields ==
    ASSUME NEW r \in RequestType, r.pos < Len(r.body), NEW e \in Seq(Packets)
    PROVE  LET s == [NextPacket(r) EXCEPT !.echoes = e]
           IN  /\ s \in RequestType /\ s.by = r.by /\ s.body = r.body /\ s.pos = r.pos + 1
               /\ s.pos <= Len(r.body) /\ s.pc # "set" /\ s.echoes = e
               /\ s.pc # "done" => s.pos < Len(r.body)
<1> DEFINE n == NextPacket(r)
<1>1. n \in RequestType /\ n.by = r.by /\ n.body = r.body /\ n.pos = r.pos + 1
      /\ n.pos <= Len(r.body) /\ n.pc # "set" /\ (n.pc # "done" => n.pos < Len(r.body))
  BY NextPacketFields
<1> HIDE DEF n
<1>2. QED
  BY <1>1, SetEchoes DEF n, RequestType

(* What a flush does, and that a request it puts together has a packet.     *)
LEMMA FlushCases ==
    ASSUME batch \in Seq(Packets), NEW t \in Threads, NEW next \in Labels, Flush(t, next)
    PROVE  \/ batch = <<>> /\ UNCHANGED <<batch, req>> /\ Goto(t, next)
           \/ /\ Len(batch) > 0 /\ Len(req) < MaxPosts
              /\ req' = Post(t) /\ batch' = <<>> /\ Goto(t, "post")
  BY DEF Flush

LEMMA FlushTyping ==
    ASSUME TypeOK, Positions, NEW t \in Threads, NEW next \in Labels \ {"append"}, Flush(t, next)
    PROVE  /\ batch' \in Seq(Packets) /\ req' \in Seq(RequestType) /\ Len(req') <= MaxPosts
           /\ pc' \in [Threads -> Labels] /\ Positions'
           /\ \A u \in Threads : pc'[u] = "append" => pc[u] = "append"
<1>1. CASE batch = <<>> /\ UNCHANGED <<batch, req>> /\ Goto(t, next)
  BY <1>1 DEF TypeOK, Positions, Goto, Labels
<1>2. CASE /\ Len(batch) > 0 /\ Len(req) < MaxPosts
           /\ req' = Post(t) /\ batch' = <<>> /\ Goto(t, "post")
  <2>1. /\ req' \in Seq(RequestType) /\ Len(req') = Len(req) + 1
        /\ DOMAIN req' = DOMAIN req \cup {Len(req) + 1}
        /\ \A j \in DOMAIN req : req'[j] = req[j]
        /\ req'[Len(req) + 1] = [by |-> t, body |-> batch, pos |-> 0, echoes |-> <<>>,
                                 pc |-> "check"]
    BY <1>2, AppendRequest DEF TypeOK
  <2>2. Positions'
    BY <1>2, <2>1 DEF Positions
  <2>3. Len(req) + 1 <= MaxPosts
    BY <1>2 DEF TypeOK
  <2>4. pc' \in [Threads -> Labels] /\ \A u \in Threads : pc'[u] = "append" => pc[u] = "append"
    BY <1>2 DEF TypeOK, Goto, Labels
  <2>5. QED
    BY <1>2, <2>1, <2>2, <2>3, <2>4
<1>3. QED
  BY <1>1, <1>2, FlushCases DEF TypeOK

LEMMA ConsumeTyping ==
    ASSUME TypeOK, Consume
    PROVE  readBuf' \in Seq(Packets \cup {Garbage}) /\ acked' \in [Packets -> Nat]
<1>1. CASE Len(readBuf) = 1 /\ readBuf[1] \in Packets
  <2>1. acked[readBuf[1]] + 1 \in Nat
    BY <1>1 DEF TypeOK
  <2>2. QED
    BY <1>1, <2>1 DEF Consume, Answered, TypeOK
<1>2. CASE ~(Len(readBuf) = 1 /\ readBuf[1] \in Packets)
  BY <1>2 DEF Consume, Answered, TypeOK
<1>3. QED
  BY <1>1, <1>2

(* A response is a sequence of answers, or garbage.                         *)
LEMMA ResponseFields ==
    ASSUME NEW r \in RequestType, NEW body \in Responses(r)
    PROVE  /\ body \in Seq(Packets \cup {Garbage})
           /\ \A p \in Packets : Has(body, p) => Has(r.echoes, p)
<1>1. CASE body = <<Garbage>>
  BY <1>1 DEF Has
<1>2. ASSUME NEW n \in 0..Len(r.echoes), body = SubSeq(r.echoes, 1, n)
      PROVE  /\ body \in Seq(Packets \cup {Garbage})
             /\ \A p \in Packets : Has(body, p) => Has(r.echoes, p)
  <2>1. r.echoes \in Seq(Packets)
    BY DEF RequestType
  <2>2. Len(body) = n /\ \A j \in 1..n : body[j] = r.echoes[j] /\ body[j] \in Packets
    BY <1>2, <2>1
  <2>3. body \in Seq(Packets)
    BY <1>2, <2>1
  <2>4. QED
    BY <2>1, <2>2, <2>3 DEF Has
<1>3. QED
  BY <1>1, <1>2 DEF Responses

(* What the server does to a request: it moves on, or is about to insert.    *)
LEMMA ServerMoves ==
    ASSUME TypeOK, Positions, NEW i \in Requests, ServerStep(i)
    PROVE  \E r \in RequestType :
               /\ i \in DOMAIN req /\ req' = [req EXCEPT ![i] = r]
               /\ r.body = req[i].body /\ r.pos <= Len(r.body)
               /\ r.pc # "done" => r.pos < Len(r.body)
<1>0. i \in DOMAIN req /\ req[i] \in RequestType /\ req[i].pos < Len(req[i].body)
  BY DEF ServerStep, ServerCheck, ServerAccept, TypeOK, Positions
<1>1. CASE ServerCheck(i)
  <2>1. CASE req[i].body[req[i].pos + 1] \in filter
    <3>1. req' = [req EXCEPT ![i] = NextPacket(req[i])]
      BY <1>1, <2>1 DEF ServerCheck
    <3>2. QED
      BY <1>0, <3>1, NextPacketFields
  <2>2. CASE req[i].body[req[i].pos + 1] \notin filter
    <3> DEFINE s == [req[i] EXCEPT !.pc = "set"]
    <3>1. req' = [req EXCEPT ![i] = s]
      BY <1>1, <2>2 DEF ServerCheck
    <3>2. s \in RequestType /\ s.body = req[i].body /\ s.pos = req[i].pos
      BY <1>0, SetPc
    <3>3. s.pos < Len(s.body) /\ s.pos <= Len(s.body)
      BY <1>0, <3>2 DEF RequestType
    <3> HIDE DEF s
    <3>4. QED
      BY <1>0, <3>1, <3>2, <3>3
  <2>3. QED
    BY <2>1, <2>2
<1>2. CASE ServerAccept(i)
  <2> DEFINE p == req[i].body[req[i].pos + 1]
             e == IF IsPing(p) /\ req[i].by # "nobody" THEN Append(req[i].echoes, p)
                                                       ELSE req[i].echoes
  <2>1. e \in Seq(Packets)
    BY <1>0 DEF RequestType
  <2>2. req' = [req EXCEPT ![i] = [NextPacket(req[i]) EXCEPT !.echoes = e]]
    BY <1>0, <1>2, NextPacketFields DEF ServerAccept
  <2> DEFINE s == [NextPacket(req[i]) EXCEPT !.echoes = e]
  <2> HIDE DEF e
  <2>3. s \in RequestType /\ s.body = req[i].body /\ s.pos <= Len(s.body)
        /\ (s.pc # "done" => s.pos < Len(s.body))
    BY <1>0, <2>1, AcceptFields
  <2> HIDE DEF s
  <2>4. QED
    BY <1>0, <2>2, <2>3 DEF s
<1>3. QED
  BY <1>1, <1>2 DEF ServerStep

(* The type invariant is inductive together with what writers and requests  *)
(* have in hand.                                                            *)
LEMMA Typing ==
    ASSUME TypeOK, HasJob, Positions, [Next]_vars
    PROVE  TypeOK' /\ HasJob' /\ Positions'
<1> USE DEF conn, threads, server, history
<1>1. CASE UNCHANGED vars
  BY <1>1 DEF TypeOK, HasJob, Positions, vars
<1>2. ASSUME NEW w \in Writers, NEW p \in Packets, Encrypt(w, p)
      PROVE  TypeOK' /\ HasJob' /\ Positions'
  BY <1>2 DEF Encrypt, TypeOK, HasJob, Positions
<1>3. ASSUME NEW w \in Writers, WriteCopy(w)
      PROVE  TypeOK' /\ HasJob' /\ Positions'
  <2>1. w \in Threads /\ left[w] \in 1..FEC /\ left[w] - 1 \in 0..FEC /\ job[w] \in Packets
    BY <1>3 DEF WriteCopy, TypeOK, HasJob, Threads
  <2>2. left' \in [Writers -> 0..FEC] /\ \A v \in Writers : left'[v] > 0 => left[v] > 0
    <3>1. CASE closed
      BY <1>3, <2>1, <3>1 DEF WriteCopy, TypeOK
    <3>2. CASE ~closed
      BY <1>3, <2>1, <3>2 DEF WriteCopy, TypeOK
    <3>3. QED
      BY <3>1, <3>2
  <2>3. /\ pc' \in [Threads -> Labels]
        /\ \A v \in Threads : v # w => pc'[v] = pc[v]
    BY <1>3, <2>1 DEF WriteCopy, Goto, TypeOK, Labels
  <2>4. UNCHANGED <<conn, job, last, server, history>>
    BY <1>3 DEF WriteCopy
  <2>5. HasJob'
    BY <2>1, <2>2, <2>3, <2>4 DEF HasJob, Threads
  <2>6. QED
    BY <2>2, <2>3, <2>4, <2>5 DEF TypeOK, Positions
<1>4. ASSUME NEW w \in Writers, WriteAppend(w)
      PROVE  TypeOK' /\ HasJob' /\ Positions'
  BY <1>4 DEF WriteAppend, Goto, TypeOK, HasJob, Positions, Threads, Labels
<1>5. ASSUME NEW w \in Writers, WriterFlush(w)
      PROVE  TypeOK' /\ HasJob' /\ Positions'
  <2>1. w \in Threads /\ "idle" \in Labels \ {"append"} /\ Writers \subseteq Threads
    BY DEF Threads, Labels
  <2>2. Flush(w, "idle") /\ UNCHANGED <<closed, readBuf, job, left, last, filter, taken, took, history>>
    BY <1>5 DEF WriterFlush
  <2>3. QED
    BY <2>1, <2>2, FlushTyping DEF TypeOK, HasJob
<1>6. ASSUME NEW t \in Threads, PostEnds(t)
      PROVE  TypeOK' /\ HasJob' /\ Positions'
  <2>1. PICK i \in Requests : PostFails(t, i) \/ PostReturns(t, i)
    BY <1>6 DEF PostEnds
  <2> DEFINE r == Ended(req[i])
  <2>2. i \in DOMAIN req /\ req[i] \in RequestType
    BY <2>1 DEF PostFails, PostReturns, Mine, TypeOK
  <2>3. /\ r \in RequestType
        /\ r.body = req[i].body /\ r.pos = req[i].pos /\ r.pc = req[i].pc
    BY <2>2, EndedFields
  <2>4. req' = [req EXCEPT ![i] = r]
    BY <2>1, <2>2 DEF PostFails, PostReturns, Ended, TypeOK
  <2>5. After(t) \in Labels \ {"append"} /\ Writers \subseteq Threads
    BY DEF After, Labels, Threads
  <2> HIDE DEF r
  <2>6. /\ req' \in Seq(RequestType) /\ Len(req') = Len(req) /\ DOMAIN req' = DOMAIN req
        /\ req'[i] = r /\ \A j \in DOMAIN req : j # i => req'[j] = req[j]
    BY <2>2, <2>3, <2>4, ReplaceRequest DEF TypeOK
  <2>7. Positions'
    BY <2>3, <2>6 DEF Positions
  <2>8. readBuf' \in Seq(Packets \cup {Garbage})
    BY <2>1, <2>2, ResponseFields DEF PostFails, PostReturns, TypeOK
  <2>9. pc' \in [Threads -> Labels] /\ \A u \in Threads : pc'[u] = "append" => pc[u] = "append"
    <3>1. pc' = [pc EXCEPT ![t] = After(t)]
      BY <2>1 DEF PostFails, PostReturns, Goto
    <3>2. QED
      BY <2>5, <3>1 DEF TypeOK
  <2>10. UNCHANGED <<batch, closed, job, left, last, filter, taken, took, history>>
    BY <2>1 DEF PostFails, PostReturns
  <2>11. QED
    BY <2>5, <2>6, <2>7, <2>8, <2>9, <2>10 DEF TypeOK, HasJob
<1>7. ASSUME FlusherTick \/ FlusherLast
      PROVE  TypeOK' /\ HasJob' /\ Positions'
  <2>1. Flusher \in Threads /\ {"idle", "done"} \subseteq Labels \ {"append"} /\ Writers \subseteq Threads
    BY DEF Threads, Labels
  <2>2. PICK next \in {"idle", "done"} : Flush(Flusher, next)
    BY <1>7 DEF FlusherTick, FlusherLast
  <2>3. last' \in BOOLEAN /\ UNCHANGED <<closed, readBuf, job, left, filter, taken, took, history>>
    BY <1>7 DEF FlusherTick, FlusherLast, TypeOK
  <2>4. QED
    BY <2>1, <2>2, <2>3, FlushTyping DEF TypeOK, HasJob
<1>8. CASE Close
  BY <1>8 DEF Close, TypeOK, HasJob, Positions
<1>9. CASE ReadStart
  <2>1. CASE readBuf # <<>>
    BY <1>9, <2>1, ConsumeTyping DEF ReadStart, TypeOK, HasJob, Positions
  <2>2. CASE readBuf = <<>>
    <3>1. Reader \in Threads /\ "end" \in Labels \ {"append"} /\ Writers \subseteq Threads
      BY DEF Threads, Labels
    <3>2. Flush(Reader, "end") /\ UNCHANGED <<readBuf, acked>>
          /\ UNCHANGED <<closed, job, left, last, filter, taken, took, made, late>>
      BY <1>9, <2>2 DEF ReadStart
    <3>3. QED
      BY <3>1, <3>2, FlushTyping DEF TypeOK, HasJob
  <2>3. QED
    BY <2>1, <2>2
<1>10. CASE ReadEnd
  BY <1>10, ConsumeTyping DEF ReadEnd, Goto, TypeOK, HasJob, Positions, Threads, Labels
<1>11. ASSUME NEW i \in Requests, ServerStep(i)
       PROVE  TypeOK' /\ HasJob' /\ Positions'
  <2>1. i \in DOMAIN req /\ req[i] \in RequestType /\ req[i].pos < Len(req[i].body)
    BY <1>11 DEF ServerStep, ServerCheck, ServerAccept, TypeOK, Positions
  <2>2. PICK r \in RequestType : /\ req' = [req EXCEPT ![i] = r]
                                 /\ r.body = req[i].body /\ r.pos <= Len(r.body)
                                 /\ r.pc # "done" => r.pos < Len(r.body)
    BY <1>11, ServerMoves
  <2>3. /\ req' \in Seq(RequestType) /\ Len(req') = Len(req) /\ DOMAIN req' = DOMAIN req
        /\ req'[i] = r /\ \A j \in DOMAIN req : j # i => req'[j] = req[j]
    BY <2>1, <2>2, ReplaceRequest DEF TypeOK
  <2>4. Positions'
    BY <2>2, <2>3 DEF Positions
  <2>5. filter' \subseteq Packets /\ took' \in [Packets -> Nat]
        /\ taken' \subseteq Requests \X Nat
    <3>1. req[i].body[req[i].pos + 1] \in Packets /\ req[i].pos + 1 \in Nat
      BY <2>1 DEF RequestType
    <3>2. CASE ServerCheck(i)
      BY <3>2 DEF ServerCheck, TypeOK
    <3>3. CASE ServerAccept(i)
      <4>1. /\ filter' = filter \cup {req[i].body[req[i].pos + 1]}
            /\ taken' = taken \cup {<<i, req[i].pos + 1>>}
            /\ took' = [took EXCEPT ![req[i].body[req[i].pos + 1]] = @ + 1]
        BY <3>3 DEF ServerAccept
      <4>2. <<i, req[i].pos + 1>> \in Requests \X Nat
        BY <3>1
      <4>3. QED
        BY <3>1, <4>1, <4>2 DEF TypeOK
    <3>4. QED
      BY <1>11, <3>2, <3>3 DEF ServerStep
  <2>6. UNCHANGED <<conn, threads, history>>
    BY <1>11 DEF ServerStep, ServerCheck, ServerAccept
  <2>7. QED
    BY <2>3, <2>4, <2>5, <2>6 DEF TypeOK, HasJob
<1>12. CASE ResetFilter
  BY <1>12 DEF ResetFilter, TypeOK, HasJob, Positions
<1>13. QED
  BY <1>1, <1>2, <1>3, <1>4, <1>5, <1>6, <1>7, <1>8, <1>9, <1>10, <1>11, <1>12 DEF Next, WriterStep

-----------------------------------------------------------------------------
LEMMA FlushEmpties ==
    ASSUME NEW t, NEW next, Flush(t, next)
    PROVE  batch' = <<>>
  BY DEF Flush

LEMMA OthersStay ==
    ASSUME TypeOK, NEW t \in Threads, NEW u \in Threads \ {t},
           \/ \E next : Flush(t, next) \/ Goto(t, next)
           \/ UNCHANGED pc
    PROVE  pc'[u] = pc[u]
<1>1. CASE UNCHANGED pc
  BY <1>1
<1>2. ASSUME NEW next, Goto(t, next) PROVE pc'[u] = pc[u]
  BY <1>2 DEF Goto, TypeOK
<1>3. ASSUME NEW next, Flush(t, next) PROVE Goto(t, next) \/ Goto(t, "post")
  BY <1>3 DEF Flush
<1>4. QED
  BY <1>1, <1>2, <1>3

(* The step of a writer that appends a copy: the batch may be full, but then *)
(* this writer flushes it.                                                   *)
LEMMA AppendStaysShort ==
    ASSUME TypeOK, HasJob, FullFlushed, NEW w \in Writers, WriteAppend(w)
    PROVE  FullFlushed'
<1>1. w \in Threads /\ job[w] \in Packets /\ Len(batch) \in Nat
  BY DEF WriteAppend, HasJob, TypeOK, Threads
<1>2. batch' = Append(batch, job[w]) /\ Len(batch') = Len(batch) + 1
  BY <1>1 DEF WriteAppend, TypeOK
<1>3. \A v \in Writers : v # w => AboutToFlush(v)' = AboutToFlush(v)
  BY <1>1 DEF WriteAppend, Goto, AboutToFlush, TypeOK, Threads
<1>4. AboutToFlush(w) = 0 /\ AboutToFlush(w)' = IF Len(batch) + 1 >= FlushAt THEN 1 ELSE 0
  BY <1>1 DEF WriteAppend, Goto, AboutToFlush, TypeOK
<1>5. \A v \in Writers : AboutToFlush(v) \in {0, 1} /\ AboutToFlush(v)' \in {0, 1}
  BY DEF AboutToFlush
<1> HIDE DEF AboutToFlush
<1>6. CASE w = WriterLoop
  BY <1>1, <1>2, <1>3, <1>4, <1>5, <1>6 DEF FullFlushed, Writers, WriterLoop, PingLoop
<1>7. CASE w = PingLoop
  BY <1>1, <1>2, <1>3, <1>4, <1>5, <1>7 DEF FullFlushed, Writers, WriterLoop, PingLoop
<1>8. QED
  BY <1>6, <1>7 DEF Writers

(* The batch is bounded, whoever flushes when.                              *)
LEMMA Bounded ==
    ASSUME TypeOK, HasJob, FullFlushed, [Next]_vars
    PROVE  FullFlushed'
<1> USE DEF conn, threads, server, history
<1>1. ASSUME batch' = <<>> PROVE FullFlushed'
  BY <1>1 DEF FullFlushed, AboutToFlush
<1>2. ASSUME UNCHANGED batch, \A w \in Writers : pc[w] = "flush" => pc'[w] = "flush"
      PROVE  FullFlushed'
  BY <1>2 DEF FullFlushed, AboutToFlush, Writers, TypeOK
<1>3. CASE UNCHANGED vars
  BY <1>2, <1>3 DEF vars
<1>4. ASSUME NEW w \in Writers, NEW p \in Packets, Encrypt(w, p) PROVE FullFlushed'
  BY <1>2, <1>4 DEF Encrypt
<1>5. ASSUME NEW w \in Writers, WriterStep(w) PROVE FullFlushed'
  <2>1. CASE WriteCopy(w)
    <3>1. pc[w] = "idle" /\ \A v \in Threads : v # w => pc'[v] = pc[v]
      BY <2>1 DEF WriteCopy, Goto, TypeOK
    <3>2. QED
      BY <1>2, <2>1, <3>1 DEF WriteCopy, Threads
  <2>2. CASE WriteAppend(w)
    BY <2>2, AppendStaysShort
  <2>3. CASE WriterFlush(w)
    BY <1>1, <2>3, FlushEmpties DEF WriterFlush
  <2>4. QED
    BY <1>5, <2>1, <2>2, <2>3 DEF WriterStep
<1>6. ASSUME NEW t \in Threads, PostEnds(t) PROVE FullFlushed'
  <2>1. pc[t] = "post" /\ UNCHANGED batch /\ pc' = [pc EXCEPT ![t] = After(t)]
    BY <1>6 DEF PostEnds, PostFails, PostReturns, Goto
  <2>2. \A w \in Writers : pc[w] = "flush" => pc'[w] = "flush"
    BY <2>1 DEF TypeOK, Threads
  <2>3. QED
    BY <1>2, <2>1, <2>2
<1>7. CASE FlusherTick \/ FlusherLast
  BY <1>1, <1>7, FlushEmpties DEF FlusherTick, FlusherLast
<1>8. CASE Close
  BY <1>2, <1>8 DEF Close
<1>9. CASE ReadStart
  BY <1>1, <1>2, <1>9, FlushEmpties DEF ReadStart
<1>10. CASE ReadEnd
  BY <1>2, <1>10 DEF ReadEnd, Goto, TypeOK
<1>11. ASSUME NEW i \in Requests, ServerStep(i) PROVE FullFlushed'
  BY <1>2, <1>11 DEF ServerStep, ServerCheck, ServerAccept
<1>12. CASE ResetFilter
  BY <1>2, <1>12 DEF ResetFilter
<1>13. QED
  BY <1>3, <1>4, <1>5, <1>6, <1>7, <1>8, <1>9, <1>10, <1>11, <1>12 DEF Next

(* What the last flush left behind was appended later.                      *)
LEMMA NothingBehind ==
    ASSUME TypeOK, HasJob, LastFlush, [Next]_vars
    PROVE  LastFlush'
<1> USE DEF conn, threads, server, history
<1>1. ASSUME batch' = <<>>, UNCHANGED <<closed, last>>, pc'[Flusher] = "done" => pc[Flusher] = "done"
      PROVE  LastFlush'
  BY <1>1 DEF LastFlush, InBatch
<1>2. ASSUME UNCHANGED <<batch, closed, last, late>>, pc'[Flusher] = "done" => last
      PROVE  LastFlush'
  BY <1>2 DEF LastFlush, InBatch
<1>3. CASE UNCHANGED vars
  BY <1>2, <1>3 DEF vars, LastFlush
<1>4. ASSUME NEW w \in Writers, NEW p \in Packets, Encrypt(w, p) PROVE LastFlush'
  BY <1>2, <1>4 DEF Encrypt, LastFlush
<1>5. ASSUME NEW w \in Writers, WriterStep(w) PROVE LastFlush'
  <2>1. w # Flusher
    BY DEF Writers, WriterLoop, PingLoop, Flusher
  <2>2. CASE WriteCopy(w)
    <3>1. pc'[Flusher] = pc[Flusher]
      BY <2>1, <2>2, OthersStay DEF WriteCopy, Threads
    <3>2. QED
      BY <1>2, <2>2, <3>1 DEF WriteCopy, LastFlush
  <2>3. CASE WriteAppend(w)
    <3>1. job[w] \in Packets /\ batch' = Append(batch, job[w]) /\ UNCHANGED <<closed, last>>
          /\ late' = IF closed THEN late \cup {job[w]} ELSE late
      BY <2>3 DEF WriteAppend, HasJob
    <3>2. \A p \in Packets : InBatch(p)' => InBatch(p) \/ p = job[w]
      BY <3>1 DEF InBatch, TypeOK
    <3>3. pc'[Flusher] = pc[Flusher]
      BY <2>1, <2>3 DEF WriteAppend, Goto, TypeOK
    <3>4. QED
      BY <3>1, <3>2, <3>3 DEF LastFlush
  <2>4. CASE WriterFlush(w)
    <3>1. pc'[Flusher] = pc[Flusher]
      BY <2>1, <2>4, OthersStay DEF WriterFlush, Threads
    <3>2. QED
      BY <1>1, <2>4, <3>1, FlushEmpties DEF WriterFlush
  <2>5. QED
    BY <1>5, <2>2, <2>3, <2>4 DEF WriterStep
<1>6. ASSUME NEW t \in Threads, PostEnds(t) PROVE LastFlush'
  <2>1. pc' = [pc EXCEPT ![t] = After(t)] /\ UNCHANGED <<batch, closed, last, late>>
    BY <1>6 DEF PostEnds, PostFails, PostReturns, Goto
  <2>2. pc'[Flusher] = "done" => last
    <3>1. CASE t = Flusher
      <4>1. ~last => After(t) = "idle"
        BY <3>1 DEF After, Flusher, Reader
      <4>2. QED
        BY <2>1, <3>1, <4>1 DEF TypeOK
    <3>2. CASE t # Flusher
      BY <2>1, <3>2 DEF TypeOK, LastFlush
    <3>3. QED
      BY <3>1, <3>2
  <2>3. QED
    BY <1>2, <2>1, <2>2
<1>7. CASE FlusherTick
  <2>1. pc'[Flusher] # "done"
    BY <1>7 DEF FlusherTick, Flush, Goto, TypeOK, Threads
  <2>2. QED
    BY <1>1, <1>7, <2>1, FlushEmpties DEF FlusherTick
<1>8. CASE FlusherLast
  <2>1. batch' = <<>> /\ closed' /\ last'
    BY <1>8, FlushEmpties DEF FlusherLast
  <2>2. QED
    BY <2>1 DEF LastFlush, InBatch
<1>9. CASE Close
  BY <1>9 DEF Close, LastFlush, InBatch
<1>10. CASE ReadStart
  <2>1. pc'[Flusher] = pc[Flusher]
    BY <1>10, OthersStay DEF ReadStart, Threads, Flusher, Reader
  <2>2. QED
    BY <1>1, <1>2, <1>10, <2>1, FlushEmpties DEF ReadStart, LastFlush
<1>11. CASE ReadEnd
  <2>1. pc'[Flusher] = pc[Flusher]
    BY <1>11 DEF ReadEnd, Goto, TypeOK, Flusher, Reader
  <2>2. QED
    BY <1>2, <1>11, <2>1 DEF ReadEnd, LastFlush
<1>12. ASSUME NEW i \in Requests, ServerStep(i) PROVE LastFlush'
  BY <1>2, <1>12 DEF ServerStep, ServerCheck, ServerAccept, LastFlush
<1>13. CASE ResetFilter
  BY <1>2, <1>13 DEF ResetFilter, LastFlush
<1>14. QED
  BY <1>3, <1>4, <1>5, <1>6, <1>7, <1>8, <1>9, <1>10, <1>11, <1>12, <1>13 DEF Next

-----------------------------------------------------------------------------
(* The bodies of the requests, which the refinement maps to the POSTs.      *)
Bodies == [i \in DOMAIN req |-> req[i].body]

LEMMA RequestKeepsBodies ==
    ASSUME TypeOK, NEW i \in DOMAIN req, NEW r \in RequestType, req' = [req EXCEPT ![i] = r],
           r.body = req[i].body
    PROVE  Bodies' = Bodies
<1>1. DOMAIN req' = DOMAIN req /\ \A j \in DOMAIN req : req'[j].body = req[j].body
  BY ReplaceRequest DEF TypeOK
<1>2. QED
  BY <1>1 DEF Bodies

(* A flush is a Post of the channel, or nothing.                            *)
LEMMA FlushImplements ==
    ASSUME TypeOK, NEW t \in Threads, NEW next, Flush(t, next)
    PROVE  Channel!Post \/ UNCHANGED <<batch, req>>
<1>1. CASE batch # <<>>
  <2>1. req' = Post(t) /\ batch' = <<>>
    BY <1>1 DEF Flush
  <2>2. /\ DOMAIN req' = DOMAIN req \cup {Len(req) + 1}
        /\ \A j \in DOMAIN req : req'[j] = req[j]
        /\ req'[Len(req) + 1].body = batch
    <3> DEFINE r == [by |-> t, body |-> batch, pos |-> 0, echoes |-> <<>>, pc |-> "check"]
    <3>1. r.body = batch
      OBVIOUS
    <3>2. /\ DOMAIN req' = DOMAIN req \cup {Len(req) + 1}
          /\ \A j \in DOMAIN req : req'[j] = req[j]
          /\ req'[Len(req) + 1] = r
      BY <2>1, AppendRequest DEF TypeOK
    <3> HIDE DEF r
    <3>3. QED
      BY <3>1, <3>2
  <2>3. DOMAIN req = 1..Len(req) /\ Len(req) \in Nat /\ DOMAIN req' = 1..(Len(req) + 1)
    BY <2>2 DEF TypeOK
  <2>4. Bodies \in Seq(Seq(Packets)) /\ Len(Bodies) = Len(req)
    <3>1. \A i \in DOMAIN req : req[i] \in RequestType
      BY DEF TypeOK
    <3>2. \A i \in DOMAIN req : req[i].body \in Seq(Packets)
      BY <3>1 DEF RequestType
    <3>3. QED
      BY <2>3, <3>2 DEF Bodies
  <2>5. Bodies' = Append(Bodies, batch)
    BY <2>2, <2>3, <2>4 DEF Bodies
  <2>6. QED
    BY <1>1, <2>1, <2>5 DEF Channel!Post, Bodies
<1>2. QED
  BY <1>1 DEF Flush

(* The connection implements BatchChannel: a copy that Write has taken goes *)
(* into exactly one POST, whichever goroutines flush at once.               *)
LEMMA StepImplements ==
    ASSUME TypeOK, HasJob, Positions, [Next]_vars
    PROVE  [Channel!Next]_<<batch, Bodies>>
<1> USE DEF conn, threads, server, history
<1>1. ASSUME UNCHANGED <<batch, req>> PROVE [Channel!Next]_<<batch, Bodies>>
  BY <1>1 DEF Bodies
<1>2. ASSUME UNCHANGED batch, NEW i \in DOMAIN req, NEW r \in RequestType,
             req' = [req EXCEPT ![i] = r], r.body = req[i].body
      PROVE  [Channel!Next]_<<batch, Bodies>>
  BY <1>2, RequestKeepsBodies
<1>3. ASSUME NEW t \in Threads, NEW next, Flush(t, next)
      PROVE  [Channel!Next]_<<batch, Bodies>>
  BY <1>1, <1>3, FlushImplements DEF Channel!Next
<1>4. CASE UNCHANGED vars
  BY <1>1, <1>4 DEF vars
<1>5. ASSUME NEW w \in Writers, NEW p \in Packets, Encrypt(w, p)
      PROVE  [Channel!Next]_<<batch, Bodies>>
  BY <1>1, <1>5 DEF Encrypt
<1>6. ASSUME NEW w \in Writers, WriterStep(w) PROVE [Channel!Next]_<<batch, Bodies>>
  <2>1. CASE WriteCopy(w)
    BY <1>1, <2>1 DEF WriteCopy
  <2>2. CASE WriteAppend(w)
    <3>1. job[w] \in Packets /\ batch' = Append(batch, job[w]) /\ UNCHANGED req
      BY <2>2 DEF WriteAppend, HasJob
    <3>2. QED
      BY <3>1 DEF Channel!Next, Channel!Write
  <2>3. CASE WriterFlush(w)
    BY <1>3, <2>3 DEF WriterFlush, Threads
  <2>4. QED
    BY <1>6, <2>1, <2>2, <2>3 DEF WriterStep
<1>7. ASSUME NEW t \in Threads, PostEnds(t) PROVE [Channel!Next]_<<batch, Bodies>>
  <2>1. PICK i \in Requests : PostFails(t, i) \/ PostReturns(t, i)
    BY <1>7 DEF PostEnds
  <2>2. i \in DOMAIN req /\ req[i] \in RequestType
    BY <2>1 DEF PostFails, PostReturns, Mine, TypeOK
  <2>3. req' = [req EXCEPT ![i] = Ended(req[i])] /\ UNCHANGED batch
    BY <2>1, <2>2 DEF PostFails, PostReturns, Ended, TypeOK
  <2>4. Ended(req[i]) \in RequestType /\ Ended(req[i]).body = req[i].body
    BY <2>2, EndedFields
  <2>5. QED
    BY <1>2, <2>2, <2>3, <2>4
<1>8. CASE FlusherTick \/ FlusherLast
  BY <1>3, <1>8 DEF FlusherTick, FlusherLast, Threads
<1>9. CASE Close
  BY <1>1, <1>9 DEF Close
<1>10. CASE ReadStart
  BY <1>1, <1>3, <1>10 DEF ReadStart, Threads
<1>11. CASE ReadEnd
  BY <1>1, <1>11 DEF ReadEnd
<1>12. ASSUME NEW i \in Requests, ServerStep(i) PROVE [Channel!Next]_<<batch, Bodies>>
  <2>1. PICK r \in RequestType : /\ i \in DOMAIN req /\ req' = [req EXCEPT ![i] = r]
                                 /\ r.body = req[i].body
    BY <1>12, ServerMoves
  <2>2. UNCHANGED batch
    BY <1>12 DEF ServerStep, ServerCheck, ServerAccept
  <2>3. QED
    BY <1>2, <2>1, <2>2
<1>13. CASE ResetFilter
  BY <1>1, <1>13 DEF ResetFilter
<1>14. QED
  BY <1>4, <1>5, <1>6, <1>7, <1>8, <1>9, <1>10, <1>11, <1>12, <1>13 DEF Next

-----------------------------------------------------------------------------
LEMMA FiniteRequests ==
    ASSUME TypeOK
    PROVE  /\ IsFiniteSet(DOMAIN req)
           /\ \A S \in SUBSET DOMAIN req : IsFiniteSet(S) /\ Cardinality(S) \in Nat
<1>1. DOMAIN req = 1..Len(req) /\ Len(req) \in Nat
  BY DEF TypeOK
<1>2. IsFiniteSet(DOMAIN req)
  BY <1>1, FS_Interval
<1>3. QED
  BY <1>2, FS_Subset, FS_CardinalityType

(* Steps that leave the server's progress alone.                            *)
LEMMA SameCounting ==
    ASSUME Counting, UNCHANGED <<filter, taken>>, DOMAIN req \subseteq DOMAIN req',
           \A i \in DOMAIN req : /\ req'[i].body = req[i].body /\ req'[i].pos = req[i].pos
                                 /\ req'[i].pc = req[i].pc
    PROVE  Counting'
<1>1. \A t \in taken : At(t)' = At(t)
  BY DEF At, Counting
<1>2. OncePerPost'
  BY <1>1 DEF OncePerPost, Counting, At
<1>3. QED
  BY <1>1, <1>2 DEF Counting

(* A new request has nothing taken yet.                                     *)
LEMMA FlushCounting ==
    ASSUME TypeOK, Counting, UNCHANGED <<filter, taken>>, NEW t \in Threads, NEW next,
           Flush(t, next)
    PROVE  Counting'
<1>1. CASE UNCHANGED req
  BY <1>1, SameCounting
<1>2. CASE req' = Post(t)
  <2>1. DOMAIN req \subseteq DOMAIN req' /\ \A j \in DOMAIN req : req'[j] = req[j]
    BY <1>2, AppendRequest DEF TypeOK
  <2>2. QED
    BY <2>1, SameCounting
<1>3. QED
  BY <1>1, <1>2 DEF Flush

(* The server accepts no packet twice out of a request.                     *)
LEMMA ServerCounting ==
    ASSUME TypeOK, Positions, Counting, NEW i \in Requests, ServerStep(i)
    PROVE  Counting'
<1>1. PICK r \in RequestType, p \in Packets :
          i \in DOMAIN req /\ r = req[i] /\ r.pos < Len(r.body) /\ p = r.body[r.pos + 1]
  <2>1. i \in DOMAIN req /\ req[i] \in RequestType /\ req[i].pos < Len(req[i].body)
    BY DEF ServerStep, ServerCheck, ServerAccept, TypeOK, Positions
  <2>2. req[i].body[req[i].pos + 1] \in Packets
    BY <2>1 DEF RequestType
  <2>3. QED
    BY <2>1, <2>2
<1>2. r.pos \in Nat /\ Len(r.body) \in Nat
  BY <1>1 DEF RequestType
<1>3. \A t \in taken : t[1] \in DOMAIN req /\ t[2] \in 1..req[t[1]].pos /\ At(t) \in filter
  BY DEF Counting
<1>4. ASSUME NEW s \in RequestType, s.body = r.body, req' = [req EXCEPT ![i] = s]
      PROVE  /\ DOMAIN req' = DOMAIN req /\ req'[i] = s
             /\ \A j \in DOMAIN req : j # i => req'[j] = req[j]
             /\ \A t \in taken : At(t)' = At(t)
  <2>1. /\ DOMAIN req' = DOMAIN req /\ req'[i] = s
        /\ \A j \in DOMAIN req : j # i => req'[j] = req[j]
    BY <1>1, <1>4, ReplaceRequest DEF TypeOK
  <2>2. \A t \in taken : taken' = taken => At(t)' = At(t)
    BY <1>1, <1>3, <1>4, <2>1 DEF At
  <2>3. \A t \in taken : req'[t[1]].body = req[t[1]].body
    BY <1>1, <1>3, <1>4, <2>1
  <2>4. QED
    BY <2>1, <2>3 DEF At
<1>5. CASE ServerCheck(i) /\ p \in filter
  <2> DEFINE s == NextPacket(r)
  <2>1. req' = [req EXCEPT ![i] = s] /\ UNCHANGED <<filter, taken>>
    BY <1>1, <1>5 DEF ServerCheck
  <2>2. s \in RequestType /\ s.body = r.body /\ s.pos = r.pos + 1 /\ s.pc # "set"
    BY <1>1, NextPacketFields
  <2> HIDE DEF s
  <2>3. /\ DOMAIN req' = DOMAIN req /\ req'[i] = s
        /\ \A j \in DOMAIN req : j # i => req'[j] = req[j]
        /\ \A t \in taken : At(t)' = At(t)
    BY <1>4, <2>1, <2>2
  <2>4. OncePerPost'
    BY <2>1, <2>3 DEF OncePerPost, Counting, At
  <2>5. \A t \in taken : t[2] \in 1..req'[t[1]].pos
    BY <1>1, <1>2, <1>3, <2>2, <2>3
  <2>6. QED
    BY <1>3, <2>1, <2>2, <2>3, <2>4, <2>5 DEF Counting
<1>6. CASE ServerCheck(i) /\ p \notin filter
  <2> DEFINE s == [r EXCEPT !.pc = "set"]
  <2>1. req' = [req EXCEPT ![i] = s] /\ UNCHANGED <<filter, taken>>
    BY <1>1, <1>6 DEF ServerCheck
  <2>2. s \in RequestType /\ s.body = r.body /\ s.pos = r.pos
    BY <1>1, SetPc
  <2> HIDE DEF s
  <2>3. /\ DOMAIN req' = DOMAIN req /\ req'[i] = s
        /\ \A j \in DOMAIN req : j # i => req'[j] = req[j]
        /\ \A t \in taken : At(t)' = At(t)
    BY <1>4, <2>1, <2>2
  <2>4. OncePerPost'
    BY <2>1, <2>3 DEF OncePerPost, Counting, At
  <2>5. \A t \in taken : t[2] \in 1..req'[t[1]].pos
    BY <1>1, <1>3, <2>2, <2>3
  <2>6. \A t \in taken : req'[t[1]].pc = "set"
                            => At(t)' # req'[t[1]].body[req'[t[1]].pos + 1]
    BY <1>1, <1>3, <1>6, <2>2, <2>3 DEF Counting
  <2>7. QED
    BY <1>3, <2>1, <2>3, <2>4, <2>5, <2>6 DEF Counting
<1>7. CASE ServerAccept(i)
  <2> DEFINE e == IF IsPing(p) /\ r.by # "nobody" THEN Append(r.echoes, p) ELSE r.echoes
             s == [NextPacket(r) EXCEPT !.echoes = e]
             n == <<i, r.pos + 1>>
  <2>1. req' = [req EXCEPT ![i] = s]
    BY <1>1, <1>7, NextPacketFields DEF ServerAccept
  <2>2. filter' = filter \cup {p} /\ taken' = taken \cup {n} /\ r.pc = "set"
    BY <1>1, <1>7 DEF ServerAccept
  <2>3. e \in Seq(Packets)
    BY <1>1 DEF RequestType
  <2> HIDE DEF e
  <2>4. s \in RequestType /\ s.body = r.body /\ s.pos = r.pos + 1 /\ s.pc # "set"
    BY <1>1, <2>3, AcceptFields
  <2> HIDE DEF s
  <2>5. /\ DOMAIN req' = DOMAIN req /\ req'[i] = s
        /\ \A j \in DOMAIN req : j # i => req'[j] = req[j]
        /\ \A t \in taken : At(t)' = At(t)
    BY <1>4, <2>1, <2>4
  <2>6. n[1] = i /\ n[2] = r.pos + 1 /\ At(n)' = p
    BY <1>1, <2>4, <2>5 DEF At
  <2>7. \A t \in taken : t[1] = i => At(t) # p
    BY <1>1, <2>2 DEF Counting
  <2> HIDE DEF n
  <2>8. OncePerPost'
    <3>1. ASSUME NEW t \in taken', NEW u \in taken', t[1] = u[1], At(t)' = At(u)' PROVE t = u
      <4>1. CASE t \in taken /\ u \in taken
        BY <2>5, <3>1, <4>1 DEF Counting, OncePerPost, At
      <4>2. CASE t = n /\ u = n
        BY <4>2
      <4>3. CASE t \in taken /\ u = n
        BY <2>5, <2>6, <2>7, <3>1, <4>3
      <4>4. CASE t = n /\ u \in taken
        BY <2>5, <2>6, <2>7, <3>1, <4>4
      <4>5. QED
        BY <2>2, <4>1, <4>2, <4>3, <4>4
    <3>2. QED
      BY <3>1 DEF OncePerPost, At
  <2>9. ASSUME NEW t \in taken'
        PROVE  /\ t[1] \in DOMAIN req' /\ t[2] \in 1..req'[t[1]].pos /\ At(t)' \in filter'
               /\ req'[t[1]].pc = "set" => At(t)' # req'[t[1]].body[req'[t[1]].pos + 1]
    <3>1. CASE t = n
      BY <1>1, <1>2, <2>2, <2>4, <2>5, <2>6, <3>1
    <3>2. CASE t \in taken /\ t[1] = i
      BY <1>1, <1>2, <1>3, <2>2, <2>4, <2>5, <3>2
    <3>3. CASE t \in taken /\ t[1] # i
      BY <1>3, <2>2, <2>5, <3>3 DEF Counting
    <3>4. QED
      BY <2>2, <3>1, <3>2, <3>3
  <2>10. QED
    BY <2>8, <2>9 DEF Counting
<1>8. QED
  BY <1>1, <1>5, <1>6, <1>7 DEF ServerStep

(* What a step does that is no flush and no step of the server: the POST    *)
(* that ends keeps its packets.                                             *)
LEMMA PostEndsDetail ==
    ASSUME TypeOK, NEW t \in Threads, PostEnds(t)
    PROVE  \E i \in DOMAIN req :
               /\ req[i] \in RequestType /\ req' = [req EXCEPT ![i] = Ended(req[i])]
               /\ DOMAIN req' = DOMAIN req /\ req'[i] = Ended(req[i])
               /\ \A j \in DOMAIN req : j # i => req'[j] = req[j]
               /\ \A p \in Packets : Has(readBuf', p) => Has(readBuf, p) \/ Has(req[i].echoes, p)
               /\ UNCHANGED <<batch, closed, job, left, last, filter, taken, took, history>>
<1>1. PICK i \in Requests : PostFails(t, i) \/ PostReturns(t, i)
  BY DEF PostEnds
<1>2. i \in DOMAIN req /\ req[i] \in RequestType
  BY <1>1 DEF PostFails, PostReturns, Mine, TypeOK
<1>3. req' = [req EXCEPT ![i] = Ended(req[i])]
  BY <1>1, <1>2 DEF PostFails, PostReturns, Ended, TypeOK
<1>4. Ended(req[i]) \in RequestType
  BY <1>2, EndedFields
<1>5. /\ DOMAIN req' = DOMAIN req /\ req'[i] = Ended(req[i])
      /\ \A j \in DOMAIN req : j # i => req'[j] = req[j]
  BY <1>2, <1>3, <1>4, ReplaceRequest DEF TypeOK
<1>6. \A p \in Packets : Has(readBuf', p) => Has(readBuf, p) \/ Has(req[i].echoes, p)
  BY <1>1, <1>2, ResponseFields DEF PostFails, PostReturns, conn, Has
<1>7. UNCHANGED <<batch, closed, job, left, last, filter, taken, took, history>>
  BY <1>1 DEF PostFails, PostReturns, conn
<1>8. QED
  BY <1>2, <1>3, <1>5, <1>6, <1>7

(* The server's progress, its filter and what it took agree.                *)
LEMMA CountingKept ==
    ASSUME TypeOK, Positions, Counting, [Next]_vars
    PROVE  Counting'
<1> USE DEF conn, threads, server, history
<1>1. ASSUME UNCHANGED server PROVE Counting'
  BY <1>1, SameCounting
<1>2. CASE UNCHANGED vars
  BY <1>1, <1>2 DEF vars
<1>3. ASSUME NEW w \in Writers, NEW p \in Packets, Encrypt(w, p) PROVE Counting'
  BY <1>1, <1>3 DEF Encrypt
<1>4. ASSUME NEW w \in Writers, WriterStep(w) PROVE Counting'
  <2>1. CASE WriteCopy(w)
    BY <1>1, <2>1 DEF WriteCopy
  <2>2. CASE WriteAppend(w)
    BY <1>1, <2>2 DEF WriteAppend
  <2>3. CASE WriterFlush(w)
    BY <2>3, FlushCounting DEF WriterFlush, Threads
  <2>4. QED
    BY <1>4, <2>1, <2>2, <2>3 DEF WriterStep
<1>5. ASSUME NEW t \in Threads, PostEnds(t) PROVE Counting'
  <2>1. PICK i \in DOMAIN req :
            /\ req[i] \in RequestType
            /\ DOMAIN req' = DOMAIN req /\ req'[i] = Ended(req[i])
            /\ \A j \in DOMAIN req : j # i => req'[j] = req[j]
            /\ UNCHANGED <<filter, taken>>
    BY <1>5, PostEndsDetail
  <2>2. \A j \in DOMAIN req : /\ req'[j].body = req[j].body /\ req'[j].pos = req[j].pos
                             /\ req'[j].pc = req[j].pc
    BY <2>1, EndedFields
  <2>3. QED
    BY <2>1, <2>2, SameCounting
<1>6. CASE FlusherTick \/ FlusherLast
  BY <1>6, FlushCounting DEF FlusherTick, FlusherLast, Threads
<1>7. CASE Close
  BY <1>1, <1>7 DEF Close
<1>8. CASE ReadStart
  BY <1>1, <1>8, FlushCounting DEF ReadStart, Threads
<1>9. CASE ReadEnd
  BY <1>1, <1>9 DEF ReadEnd
<1>10. ASSUME NEW i \in Requests, ServerStep(i) PROVE Counting'
  BY <1>10, ServerCounting
<1>11. CASE ResetFilter
  BY <1>11 DEF ResetFilter, Counting, OncePerPost
<1>12. QED
  BY <1>2, <1>3, <1>4, <1>5, <1>6, <1>7, <1>8, <1>9, <1>10, <1>11 DEF Next

-----------------------------------------------------------------------------
LEMMA CarrierCounts ==
    ASSUME TypeOK
    PROVE  \A p \in Packets :
               /\ IsFiniteSet(Carriers(p)) /\ Cardinality(Carriers(p)) \in Nat
               /\ \A i \in Carriers(p) : Cardinality(Carriers(p) \ {i}) = Cardinality(Carriers(p)) - 1
               /\ \A i : Cardinality(Carriers(p) \cup {i}) <= Cardinality(Carriers(p)) + 1
<1> TAKE p \in Packets
<1>1. Carriers(p) \subseteq DOMAIN req
  BY DEF Carriers
<1>2. IsFiniteSet(Carriers(p)) /\ Cardinality(Carriers(p)) \in Nat
  BY <1>1, FiniteRequests
<1>3. \A i \in Carriers(p) : Cardinality(Carriers(p) \ {i}) = Cardinality(Carriers(p)) - 1
  BY <1>2, FS_RemoveElement
<1>4. ASSUME NEW i PROVE Cardinality(Carriers(p) \cup {i}) <= Cardinality(Carriers(p)) + 1
  <2> DEFINE C == Carriers(p)
  <2>1. IsFiniteSet(C) /\ Cardinality(C) \in Nat
    BY <1>2
  <2> HIDE DEF C
  <2>2. Cardinality(C \cup {i}) = IF i \in C THEN Cardinality(C) ELSE Cardinality(C) + 1
    BY <2>1, FS_AddElement
  <2>3. Cardinality(C \cup {i}) <= Cardinality(C) + 1
    BY <2>1, <2>2
  <2>4. QED
    BY <2>3 DEF C
<1>5. QED
  BY <1>2, <1>3, <1>4

LEMMA SameAnswers ==
    ASSUME Answers, UNCHANGED <<readBuf, acked, took>>, DOMAIN req' = DOMAIN req,
           \A i \in DOMAIN req : req'[i].echoes = req[i].echoes
    PROVE  Answers'
<1>1. \A p \in Packets : Carriers(p)' = Carriers(p) /\ Waiting(p)' = Waiting(p)
  BY DEF Carriers, Waiting
<1>2. QED
  BY <1>1 DEF Answers

LEMMA FlushAnswers ==
    ASSUME TypeOK, Answers, UNCHANGED <<readBuf, acked, took>>, NEW t \in Threads, NEW next,
           Flush(t, next)
    PROVE  Answers'
<1>1. CASE UNCHANGED req
  BY <1>1, SameAnswers
<1>2. CASE req' = Post(t)
  <2> DEFINE r == [by |-> t, body |-> batch, pos |-> 0, echoes |-> <<>>, pc |-> "check"]
  <2>1. \A p : ~Has(r.echoes, p)
    BY DEF Has
  <2>2. /\ DOMAIN req' = DOMAIN req \cup {Len(req) + 1}
        /\ \A j \in DOMAIN req : req'[j] = req[j]
        /\ req'[Len(req) + 1] = r
    BY <1>2, AppendRequest DEF TypeOK
  <2> HIDE DEF r
  <2>3. \A p \in Packets : Carriers(p)' = Carriers(p) /\ Waiting(p)' = Waiting(p)
    BY <2>1, <2>2 DEF Carriers, Waiting
  <2>4. QED
    BY <2>3 DEF Answers
<1>3. QED
  BY <1>1, <1>2 DEF Flush

(* A response that replaces readBuf is one carrier less; what was not read  *)
(* is lost, never counted.                                                  *)
LEMMA PostEndsAnswers ==
    ASSUME TypeOK, Answers, NEW t \in Threads, PostEnds(t)
    PROVE  Answers'
<1>1. PICK i \in DOMAIN req :
          /\ req[i] \in RequestType
          /\ DOMAIN req' = DOMAIN req /\ req'[i] = Ended(req[i])
          /\ \A j \in DOMAIN req : j # i => req'[j] = req[j]
          /\ \A p \in Packets : Has(readBuf', p) => Has(readBuf, p) \/ Has(req[i].echoes, p)
          /\ UNCHANGED <<took, acked>>
  BY PostEndsDetail DEF history
<1>2. ~ \E p : Has(req'[i].echoes, p)
  BY <1>1, EndedFields DEF Has
<1>3. \A p \in Packets : Carriers(p)' = Carriers(p) \ {i}
  BY <1>1, <1>2 DEF Carriers
<1>4. SUFFICES ASSUME NEW p \in Packets
               PROVE  (acked[p] + Waiting(p) + Cardinality(Carriers(p))
                           <= IF IsPing(p) THEN took[p] ELSE 0)'
  BY DEF Answers
<1>5. acked[p] + Waiting(p) + Cardinality(Carriers(p)) <= IF IsPing(p) THEN took[p] ELSE 0
  BY DEF Answers
<1>6. acked[p] \in Nat /\ took[p] \in Nat /\ Waiting(p) \in {0, 1} /\ Waiting(p)' \in {0, 1}
      /\ Cardinality(Carriers(p)) \in Nat
  BY CarrierCounts DEF TypeOK, Waiting
<1>7. CASE i \in Carriers(p)
  <2>1. Cardinality(Carriers(p)') = Cardinality(Carriers(p)) - 1
    BY <1>3, <1>7, CarrierCounts
  <2>2. QED
    BY <1>1, <1>5, <1>6, <2>1 DEF IsPing
<1>8. CASE i \notin Carriers(p)
  <2>1. Carriers(p)' = Carriers(p)
    BY <1>3, <1>8
  <2>2. Waiting(p)' <= Waiting(p)
    BY <1>1, <1>8, <1>6 DEF Waiting, Carriers
  <2>3. QED
    BY <1>1, <1>5, <1>6, <2>1, <2>2 DEF IsPing
<1>9. QED
  BY <1>7, <1>8

(* Read counts one answer if it is alone, and none otherwise.               *)
LEMMA ConsumeAnswers ==
    ASSUME TypeOK, Answers, Consume, UNCHANGED <<req, took>>
    PROVE  Answers'
<1>1. SUFFICES ASSUME NEW p \in Packets
               PROVE  (acked[p] + Waiting(p) + Cardinality(Carriers(p))
                           <= IF IsPing(p) THEN took[p] ELSE 0)'
  BY DEF Answers
<1>2. acked[p] + Waiting(p) + Cardinality(Carriers(p)) <= IF IsPing(p) THEN took[p] ELSE 0
  BY DEF Answers
<1>3. acked[p] \in Nat /\ took[p] \in Nat /\ Waiting(p) \in {0, 1}
      /\ Cardinality(Carriers(p)) \in Nat
  BY CarrierCounts DEF TypeOK, Waiting
<1>4. Carriers(p)' = Carriers(p) /\ Waiting(p)' = 0
  BY DEF Consume, Carriers, Waiting, Has
<1>5. acked'[p] = acked[p] \/ (acked'[p] = acked[p] + 1 /\ Waiting(p) = 1)
  <2>1. CASE Len(readBuf) = 1 /\ readBuf[1] = p
    <3>1. readBuf \in Seq(Packets \cup {Garbage}) /\ 1 \in DOMAIN readBuf
      BY <2>1 DEF TypeOK
    <3>2. QED
      BY <2>1, <3>1 DEF Consume, Answered, Waiting, Has, TypeOK
  <2>2. CASE ~(Len(readBuf) = 1 /\ readBuf[1] = p)
    BY <2>2 DEF Consume, Answered, TypeOK
  <2>3. QED
    BY <2>1, <2>2
<1>6. QED
  BY <1>2, <1>3, <1>4, <1>5 DEF IsPing

(* The server answers a keep-alive it takes, once.                          *)
LEMMA ServerAnswers ==
    ASSUME TypeOK, Positions, Answers, NEW i \in Requests, ServerStep(i)
    PROVE  Answers'
<1>1. PICK r \in RequestType, p \in Packets :
          i \in DOMAIN req /\ r = req[i] /\ r.pos < Len(r.body) /\ p = r.body[r.pos + 1]
  <2>1. i \in DOMAIN req /\ req[i] \in RequestType /\ req[i].pos < Len(req[i].body)
    BY DEF ServerStep, ServerCheck, ServerAccept, TypeOK, Positions
  <2>2. req[i].body[req[i].pos + 1] \in Packets
    BY <2>1 DEF RequestType
  <2>3. QED
    BY <2>1, <2>2
<1>2. UNCHANGED <<readBuf, acked>>
  BY DEF ServerStep, ServerCheck, ServerAccept, conn, history
<1>3. ASSUME NEW s \in RequestType, req' = [req EXCEPT ![i] = s]
      PROVE  /\ DOMAIN req' = DOMAIN req /\ req'[i] = s
             /\ \A j \in DOMAIN req : j # i => req'[j] = req[j]
  BY <1>1, <1>3, ReplaceRequest DEF TypeOK
<1>4. CASE ServerCheck(i)
  <2>1. PICK s \in RequestType : req' = [req EXCEPT ![i] = s] /\ s.echoes = r.echoes
    <3>1. CASE p \in filter
      <4>1. req' = [req EXCEPT ![i] = NextPacket(r)]
        BY <1>1, <1>4, <3>1 DEF ServerCheck
      <4>2. QED
        BY <1>1, <4>1, NextPacketFields
    <3>2. CASE p \notin filter
      <4> DEFINE n == [r EXCEPT !.pc = "set"]
      <4>1. req' = [req EXCEPT ![i] = n]
        BY <1>1, <1>4, <3>2 DEF ServerCheck
      <4>2. n \in RequestType /\ n.echoes = r.echoes
        BY <1>1, SetPc
      <4> HIDE DEF n
      <4>3. QED
        BY <4>1, <4>2
    <3>3. QED
      BY <3>1, <3>2
  <2>2. took' = took
    BY <1>4 DEF ServerCheck
  <2>3. QED
    BY <1>1, <1>2, <1>3, <2>1, <2>2, SameAnswers
<1>5. CASE ServerAccept(i)
  <2> DEFINE e == IF IsPing(p) /\ r.by # "nobody" THEN Append(r.echoes, p) ELSE r.echoes
             s == [NextPacket(r) EXCEPT !.echoes = e]
  <2>1. req' = [req EXCEPT ![i] = s] /\ took' = [took EXCEPT ![p] = @ + 1]
    BY <1>1, <1>5, NextPacketFields DEF ServerAccept
  <2>2. e \in Seq(Packets) /\ \A q \in Packets : Has(e, q) => Has(r.echoes, q) \/ (q = p /\ IsPing(p))
    <3>1. r.echoes \in Seq(Packets)
      BY <1>1 DEF RequestType
    <3>2. CASE IsPing(p) /\ r.by # "nobody"
      <4>1. e = Append(r.echoes, p)
        BY <3>2
      <4> HIDE DEF e
      <4>2. QED
        BY <1>1, <3>1, <3>2, <4>1 DEF Has
    <3>3. CASE ~(IsPing(p) /\ r.by # "nobody")
      BY <3>1, <3>3
    <3>4. QED
      BY <3>2, <3>3
  <2> HIDE DEF e
  <2>3. s \in RequestType /\ s.echoes = e
    BY <1>1, <2>2, AcceptFields
  <2> HIDE DEF s
  <2>4. /\ DOMAIN req' = DOMAIN req /\ req'[i] = s
        /\ \A j \in DOMAIN req : j # i => req'[j] = req[j]
    BY <1>3, <2>1, <2>3
  <2>5. \A q \in Packets : Waiting(q)' = Waiting(q)
    BY <1>2 DEF Waiting
  <2>6. \A q \in Packets : q # p \/ ~IsPing(p) => Carriers(q)' \subseteq Carriers(q)
    BY <1>1, <2>2, <2>3, <2>4 DEF Carriers
  <2>7. IsPing(p) => Carriers(p)' \subseteq Carriers(p) \cup {i}
    BY <2>4 DEF Carriers
  <2>8. SUFFICES ASSUME NEW q \in Packets
                 PROVE  (acked[q] + Waiting(q) + Cardinality(Carriers(q))
                             <= IF IsPing(q) THEN took[q] ELSE 0)'
    BY DEF Answers
  <2>9. acked[q] + Waiting(q) + Cardinality(Carriers(q)) <= IF IsPing(q) THEN took[q] ELSE 0
    BY DEF Answers
  <2>10. /\ acked[q] \in Nat /\ took[q] \in Nat /\ Waiting(q) \in {0, 1}
         /\ IsFiniteSet(Carriers(q)) /\ Cardinality(Carriers(q)) \in Nat
    BY CarrierCounts DEF TypeOK, Waiting
  <2>11. CASE q # p \/ ~IsPing(p)
    <3>1. Cardinality(Carriers(q)') <= Cardinality(Carriers(q)) /\ Cardinality(Carriers(q)') \in Nat
      BY <2>6, <2>10, <2>11, FS_Subset, FS_CardinalityType
    <3>2. took'[q] \in Nat /\ took'[q] >= took[q]
      BY <2>1, <2>10 DEF TypeOK
    <3>3. QED
      BY <1>2, <2>5, <2>9, <2>10, <3>1, <3>2 DEF IsPing
  <2>12. CASE q = p /\ IsPing(p)
    <3>1. IsFiniteSet(Carriers(q) \cup {i})
          /\ Cardinality(Carriers(q) \cup {i}) <= Cardinality(Carriers(q)) + 1
      <4>1. IsFiniteSet(Carriers(q) \cup {i})
        BY <2>10, FS_AddElement
      <4>2. Cardinality(Carriers(q) \cup {i}) <= Cardinality(Carriers(q)) + 1
        BY CarrierCounts
      <4>3. QED
        BY <4>1, <4>2
    <3>2. Cardinality(Carriers(q)') <= Cardinality(Carriers(q)) + 1 /\ Cardinality(Carriers(q)') \in Nat
      <4>1. Carriers(q)' \in SUBSET (Carriers(q) \cup {i})
        BY <2>7, <2>12
      <4>2. /\ Cardinality(Carriers(q)') <= Cardinality(Carriers(q) \cup {i})
            /\ Cardinality(Carriers(q)') \in Nat /\ Cardinality(Carriers(q) \cup {i}) \in Nat
        BY <3>1, <4>1, FS_Subset, FS_CardinalityType
      <4>3. QED
        BY <2>10, <3>1, <4>2
    <3>3. took'[q] = took[q] + 1
      BY <2>1, <2>12 DEF TypeOK
    <3>4. QED
      BY <1>2, <2>5, <2>9, <2>10, <2>12, <3>2, <3>3 DEF IsPing
  <2>13. QED
    BY <2>11, <2>12
<1>6. QED
  BY <1>4, <1>5 DEF ServerStep

LEMMA AnswersKept ==
    ASSUME TypeOK, Positions, Answers, [Next]_vars
    PROVE  Answers'
<1> USE DEF conn, threads, server, history
<1>1. ASSUME UNCHANGED <<readBuf, acked, took, req>> PROVE Answers'
  BY <1>1, SameAnswers
<1>2. CASE UNCHANGED vars
  BY <1>1, <1>2 DEF vars
<1>3. ASSUME NEW w \in Writers, NEW p \in Packets, Encrypt(w, p) PROVE Answers'
  BY <1>1, <1>3 DEF Encrypt
<1>4. ASSUME NEW w \in Writers, WriterStep(w) PROVE Answers'
  <2>1. CASE WriteCopy(w)
    BY <1>1, <2>1 DEF WriteCopy
  <2>2. CASE WriteAppend(w)
    BY <1>1, <2>2 DEF WriteAppend
  <2>3. CASE WriterFlush(w)
    BY <2>3, FlushAnswers DEF WriterFlush, Threads
  <2>4. QED
    BY <1>4, <2>1, <2>2, <2>3 DEF WriterStep
<1>5. ASSUME NEW t \in Threads, PostEnds(t) PROVE Answers'
  BY <1>5, PostEndsAnswers
<1>6. CASE FlusherTick \/ FlusherLast
  BY <1>6, FlushAnswers DEF FlusherTick, FlusherLast, Threads
<1>7. CASE Close
  BY <1>1, <1>7 DEF Close
<1>8. CASE ReadStart
  <2>1. CASE readBuf # <<>>
    BY <1>8, <2>1, ConsumeAnswers DEF ReadStart
  <2>2. CASE readBuf = <<>>
    BY <1>8, <2>2, FlushAnswers DEF ReadStart, Threads
  <2>3. QED
    BY <2>1, <2>2
<1>9. CASE ReadEnd
  BY <1>9, ConsumeAnswers DEF ReadEnd
<1>10. ASSUME NEW i \in Requests, ServerStep(i) PROVE Answers'
  BY <1>10, ServerAnswers
<1>11. CASE ResetFilter
  BY <1>1, <1>11 DEF ResetFilter
<1>12. QED
  BY <1>2, <1>3, <1>4, <1>5, <1>6, <1>7, <1>8, <1>9, <1>10, <1>11 DEF Next

-----------------------------------------------------------------------------
(***************************************************************************)
(* The theorems.                                                           *)
(***************************************************************************)
IInv == TypeOK /\ HasJob /\ Positions /\ FullFlushed /\ LastFlush /\ Counting /\ Answers

LEMMA Initially == Init => IInv
<1> SUFFICES ASSUME Init PROVE IInv
  OBVIOUS
<1>1. TypeOK
  <2>1. batch \in Seq(Packets) /\ readBuf \in Seq(Packets \cup {Garbage})
    BY DEF Init
  <2>2. req \in Seq(RequestType) /\ Len(req) = 0
    BY DEF Init
  <2>3. pc \in [Threads -> Labels] /\ left \in [Writers -> 0..FEC]
    BY DEF Init, Labels
  <2>4. took \in [Packets -> Nat] /\ acked \in [Packets -> Nat]
    BY DEF Init
  <2>5. job \in [Writers -> Packets \cup {<<>>}] /\ closed \in BOOLEAN /\ last \in BOOLEAN
    BY DEF Init
  <2>6. filter \subseteq Packets /\ made \subseteq Packets /\ late \subseteq Packets
        /\ taken \subseteq Requests \X Nat
    BY DEF Init
  <2>7. Len(req) <= MaxPosts
    BY <2>2
  <2>8. QED
    BY <2>1, <2>2, <2>3, <2>4, <2>5, <2>6, <2>7 DEF TypeOK
<1>2. HasJob /\ Positions
  BY DEF Init, HasJob, Positions, Threads, Writers
<1>3. FullFlushed /\ LastFlush
  BY DEF Init, FullFlushed, AboutToFlush, LastFlush, InBatch, Threads, Writers
<1>4. Cardinality({}) = 0
  BY FS_EmptySet
<1>5. req = <<>> /\ DOMAIN req = {} /\ readBuf = <<>> /\ DOMAIN readBuf = {}
  BY DEF Init
<1>6. \A p \in Packets : Carriers(p) = {} /\ Waiting(p) = 0
  BY <1>5 DEF Carriers, Waiting, Has
<1>7. \A p \in Packets : took[p] = 0 /\ acked[p] = 0
  BY DEF Init
<1>8. Counting
  BY DEF Init, Counting, OncePerPost
<1>9. ASSUME NEW p \in Packets
      PROVE  acked[p] + Waiting(p) + Cardinality(Carriers(p)) <= IF IsPing(p) THEN took[p] ELSE 0
  <2>1. acked[p] + Waiting(p) + Cardinality(Carriers(p)) = 0
    BY <1>4, <1>6, <1>7
  <2>2. (IF IsPing(p) THEN took[p] ELSE 0) = 0
    BY <1>7
  <2>3. QED
    BY <2>1, <2>2
<1>10. QED
  BY <1>1, <1>2, <1>3, <1>8, <1>9 DEF IInv, Answers

(* The inductive invariant holds.                                           *)
THEOREM Invariance == Spec => []IInv
<1>1. IInv /\ [Next]_vars => IInv'
  BY Typing, Bounded, NothingBehind, CountingKept, AnswersKept DEF IInv
<1>2. QED
  BY Initially, <1>1, PTL DEF Spec

(* Every variable keeps its type, for any packets, copies and batch sizes.  *)
THEOREM TypeCorrect == Spec => []TypeOK
<1>1. IInv => TypeOK
  BY DEF IInv
<1>2. QED
  BY Invariance, <1>1, PTL

(* Write's test of batchN keeps the batch short while POSTs are under way:  *)
(* it never exceeds the limit by more than one packet per writer.           *)
THEOREM BatchStaysShort == Spec => []BatchBounded
<1>1. Cardinality(Writers) = 2
  <2>1. IsFiniteSet({WriterLoop}) /\ Cardinality({WriterLoop}) = 1
    BY FS_Singleton
  <2>2. Writers = {WriterLoop} \cup {PingLoop} /\ PingLoop \notin {WriterLoop}
    BY DEF Writers, WriterLoop, PingLoop
  <2>3. Cardinality({WriterLoop} \cup {PingLoop})
            = IF PingLoop \in {WriterLoop} THEN Cardinality({WriterLoop})
                                           ELSE Cardinality({WriterLoop}) + 1
    BY ONLY <2>1, FS_AddElement
  <2>4. QED
    BY <2>1, <2>2, <2>3
<1>2. IInv => BatchBounded
  BY <1>1 DEF IInv, TypeOK, FullFlushed, AboutToFlush, BatchBounded
<1>3. QED
  BY Invariance, <1>2, PTL

(* The flusher's last flush leaves in the batch only what was appended      *)
(* after Close by a Write that had found the connection open.               *)
THEOREM LastFlushLeavesNothing == Spec => []FlushedOnClose
<1>1. IInv => FlushedOnClose
  BY DEF IInv, LastFlush, FlushedOnClose
<1>2. QED
  BY Invariance, <1>1, PTL

(* Between two resets of its filter the server accepts no two copies of a   *)
(* packet out of one POST, whatever other POSTs do at the same time and     *)
(* whenever the resets come.                                                *)
THEOREM TakenOncePerPost == Spec => []OncePerPost
<1>1. IInv => OncePerPost
  BY DEF IInv, Counting
<1>2. QED
  BY Invariance, <1>1, PTL

(* The client counts every answer of the server at most once, though        *)
(* responses under way together replace each other in readBuf.              *)
THEOREM AnswersCountOnce == Spec => []AnswerOnce
<1>1. ASSUME IInv, NEW p \in Packets
      PROVE  acked[p] <= IF IsPing(p) THEN took[p] ELSE 0
  <2>1. acked[p] + Waiting(p) + Cardinality(Carriers(p)) <= IF IsPing(p) THEN took[p] ELSE 0
    BY <1>1 DEF IInv, Answers
  <2>2. /\ acked[p] \in Nat /\ took[p] \in Nat /\ Waiting(p) \in {0, 1}
        /\ Cardinality(Carriers(p)) \in Nat
    BY <1>1, CarrierCounts DEF IInv, TypeOK, Waiting
  <2>3. QED
    BY <2>1, <2>2
<1>2. IInv => AnswerOnce
  BY <1>1 DEF AnswerOnce
<1>3. QED
  BY Invariance, <1>2, PTL

(* The connection implements BatchChannel: each copy a Write appended goes  *)
(* into exactly one POST, in the order of the writes, whichever goroutines  *)
(* flush at the same time.                                                  *)
THEOREM ImplementsChannel == Spec => ChannelSpec
<1>1. Init => Channel!Init
  BY DEF Init, Channel!Init
<1>2. IInv /\ [Next]_vars => [Channel!Next]_Channel!vars
  BY StepImplements DEF IInv, Channel!vars, Bodies
<1>3. QED
  BY Invariance, <1>1, <1>2, PTL DEF Spec, ChannelSpec, Channel!Spec

=============================================================================
