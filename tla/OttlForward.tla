---------------------------- MODULE OttlForward ----------------------------
(***************************************************************************)
(* The OTTL forwarder (src/server/ottl-forward.ts): one object, the calls  *)
(* of diagnose in flight on it, and the ottl-lsp process it talks to.      *)
(*                                                                         *)
(* The object runs on one thread.  A step is a callback, one turn of the   *)
(* loop in onData (`looping' keeps every other callback out until the loop *)
(* returns) or the continuation of one call whose promise was resolved     *)
(* (`woken', run before the next callback).  The process runs beside it;   *)
(* it is external, and may answer early, late, twice or never.             *)
(*                                                                         *)
(* `ready' is set and cleared together with `proc' and is not kept apart.  *)
(* A frame is three characters: "len", the Content-Length header; "sep",   *)
(* the empty line; and the "body".  A body takes one byte when the message *)
(* is ASCII and more when it is not, as many more as its text needs: fewer *)
(* than a frame has characters, or more than several frames have.  A chunk *)
(* may end within such a body, at most once; what is left of it is then    *)
(* the "rest" that the next chunk begins with.                             *)
(***************************************************************************)
EXTENDS Integers, Sequences

CONSTANTS
    Calls,        \* calls of diagnose
    Texts,        \* texts of OTTL blocks
    Blocks,       \* [Calls -> Seq(Texts)]: the blocks each call is given
    Sizes,        \* the lengths in bytes of a body: 1, or more when not ASCII
    MaxAnswers,   \* how often the process may publish for one open document
    MaxInFlight   \* characters of output the process may have unread

ASSUME BlocksAssumption == Blocks \in [Calls -> Seq(Texts)]
ASSUME SizesAssumption == Sizes \subseteq Nat \ {0} /\ 1 \in Sizes
ASSUME BoundsAssumption == MaxAnswers \in Nat /\ MaxInFlight \in Nat

VARIABLES
    proc,      \* the process is known and can be written to
    nextId,
    pending,   \* [uris -> Calls], the promises not yet resolved
    timers,    \* uris whose 300 ms timer is set, oldest first
    buf,       \* characters decoded and not yet cut into messages
    looping    \* the loop of onData is running
VARIABLES
    at,        \* per call, the block it is at: 0 before, Len + 1 after
    awaits,    \* per call, the uri it awaits, NoUri once that is resolved
    value,     \* per call, the diagnostics its await returns
    out,       \* per call, what it collected
    woken      \* the calls whose await is about to return, in order
callVars == <<at, awaits, value, out, woken>>
objectVars == <<proc, nextId, pending, timers, buf, looping, callVars>>

VARIABLES
    alive,     \* the process runs
    inbox,     \* what was written to it and not yet read
    docs,      \* the documents it has open: [text, answers so far]
    outbox     \* what it wrote and the object has not read
childVars == <<alive, inbox, docs, outbox>>

VARIABLES
    arrived,   \* history: uris of messages read to their last byte
    ascii      \* history: no other body has been read
histVars == <<arrived, ascii>>
vars == <<objectVars, childVars, histVars>>

NoUri == 0
Uris == Nat \ {0, 1}     \* 1 is the id of the initialize request
Messages == [ uri : Uris \cup {NoUri}, diags : SUBSET Texts, size : Nat \ {0} ]
Output == [ kind : {"len", "sep", "body", "rest"}, of : Messages ]
Chars == [ kind : {"len", "sep", "body"}, of : Messages ]
Open(u, t) == [ method |-> "didOpen", uri |-> u, text |-> t ]
Close(u) == [ method |-> "didClose", uri |-> u ]
Initialize == [ method |-> "initialize" ]

Char(k, m) == [ kind |-> k, of |-> m ]
Frame(m) == <<Char("len", m), Char("sep", m), Char("body", m)>>

Idle == ~looping /\ woken = <<>>
Done(c) == at[c] > Len(Blocks[c])
Waiting(c) == at[c] > 0 /\ ~Done(c)

TypeOK ==
    /\ proc \in BOOLEAN /\ alive \in BOOLEAN /\ looping \in BOOLEAN
    /\ nextId \in Nat \ {0}
    /\ DOMAIN pending \subseteq Uris /\ \A u \in DOMAIN pending : pending[u] \in Calls
    /\ timers \in Seq(Uris)
    /\ at \in [Calls -> Nat]
    /\ awaits \in [Calls -> Uris \cup {NoUri}]
    /\ value \in [Calls -> SUBSET Texts]
    /\ out \in [Calls -> SUBSET [ block : Nat \ {0}, diag : Texts ]]
    /\ woken \in Seq(Calls)
    /\ buf \in Seq(Chars) /\ outbox \in Seq(Output)
    /\ inbox \in Seq([ method : {"didOpen"}, uri : Uris, text : Texts ]
                     \cup [ method : {"didClose"}, uri : Uris ] \cup {Initialize})
    /\ DOMAIN docs \subseteq Uris
    /\ \A u \in DOMAIN docs : docs[u] \in [ text : Texts, answers : Nat ]
    /\ arrived \subseteq Uris \cup {NoUri} /\ ascii \in BOOLEAN

Init ==
    /\ proc = FALSE /\ nextId = 1 /\ pending = <<>> /\ timers = <<>>
    /\ buf = <<>> /\ looping = FALSE
    /\ at = [ c \in Calls |-> 0 ] /\ awaits = [ c \in Calls |-> NoUri ]
    /\ value = [ c \in Calls |-> {} ] /\ out = [ c \in Calls |-> {} ] /\ woken = <<>>
    /\ alive = FALSE /\ inbox = <<>> /\ docs = <<>> /\ outbox = <<>>
    /\ arrived = {} /\ ascii = TRUE

-----------------------------------------------------------------------------
(* The object.                                                             *)

(* send: nothing is written once `proc' is null; what is written to a      *)
(* process that has ended is lost.                                         *)
send(ms) == inbox' = IF proc /\ alive THEN inbox \o ms ELSE inbox

(* start, on a new object, when the program exists and spawn does not      *)
(* throw; otherwise it returns false and the server drops the object.      *)
start ==
    /\ nextId = 1
    /\ proc' = TRUE /\ alive' = TRUE
    /\ nextId' = 2
    /\ inbox' = <<Initialize>>
    /\ UNCHANGED <<pending, timers, buf, looping, callVars, docs, outbox, histVars>>

(* Mutant of stop: the timers are cleared as well.                         *)
stopTimers ==
    /\ proc /\ Idle
    /\ proc' = FALSE /\ timers' = <<>>
    /\ UNCHANGED <<nextId, pending, buf, looping, callVars, childVars, histVars>>

(* stop: the signal is sent; the process ends in a step of its own.        *)
stop ==
    /\ proc /\ Idle
    /\ proc' = FALSE
    /\ UNCHANGED <<nextId, pending, timers, buf, looping, callVars, childVars, histVars>>

(* Mutant of onExit: what the process will not answer is forgotten.        *)
onExitForgets ==
    /\ proc /\ ~alive /\ Idle
    /\ proc' = FALSE /\ pending' = <<>>
    /\ UNCHANGED <<nextId, timers, buf, looping, callVars, childVars, histVars>>

(* The "exit" callback.  Blocks in flight are left to their timers.        *)
onExit ==
    /\ proc /\ ~alive /\ Idle
    /\ proc' = FALSE
    /\ UNCHANGED <<nextId, pending, timers, buf, looping, callVars, childVars, histVars>>

(* Mutant of diagnoseBlock: one uri for all blocks.                        *)
diagnoseUnderOneUri(c, i) ==
    /\ pending' = [ u \in DOMAIN pending \cup {nextId} |->
                      IF u = nextId THEN c ELSE pending[u] ]
    /\ timers' = Append(timers, nextId)
    /\ at' = [ at EXCEPT ![c] = i ]
    /\ awaits' = [ awaits EXCEPT ![c] = nextId ]
    /\ nextId' = nextId
    /\ send(<<Open(nextId, Blocks[c][i])>>)

(* diagnoseBlock for block i of call c: the promise is registered, the     *)
(* document opened, the timer set.                                         *)
diagnoseBlock(c, i) ==
    /\ pending' = [ u \in DOMAIN pending \cup {nextId} |->
                      IF u = nextId THEN c ELSE pending[u] ]
    /\ timers' = Append(timers, nextId)
    /\ at' = [ at EXCEPT ![c] = i ]
    /\ awaits' = [ awaits EXCEPT ![c] = nextId ]
    /\ nextId' = nextId + 1
    /\ send(<<Open(nextId, Blocks[c][i])>>)

(* The loop of diagnose at block i: the next block, or the return.         *)
nextBlock(c, i) ==
    \/ i <= Len(Blocks[c]) /\ diagnoseBlock(c, i)
    \/ /\ i > Len(Blocks[c])
       /\ at' = [ at EXCEPT ![c] = i ]
       /\ UNCHANGED <<nextId, pending, timers, awaits, inbox>>

(* diagnose: nothing is found when there is no process to ask.             *)
diagnose(c) ==
    /\ nextId > 1 /\ ~looping /\ at[c] = 0
    /\ nextBlock(c, IF proc THEN 1 ELSE Len(Blocks[c]) + 1)
    /\ UNCHANGED <<proc, buf, looping, value, out, woken, alive, docs, outbox, histVars>>

(* A call's await returns: its diagnostics are collected under the block   *)
(* they belong to, and the next block is sent.                             *)
resume ==
    /\ ~looping /\ woken # <<>>
    /\ LET c == Head(woken)
           found == { [ block |-> at[c], diag |-> d ] : d \in value[c] }
       IN  /\ out' = [ out EXCEPT ![c] = @ \cup found ]
           /\ value' = [ value EXCEPT ![c] = {} ]
           /\ nextBlock(c, at[c] + 1)
    /\ woken' = Tail(woken)
    /\ UNCHANGED <<proc, buf, looping, alive, docs, outbox, histVars>>

(* pending.get, delete and resolve.  A promise that was resolved stays as  *)
(* it was.                                                                 *)
without(f, u) == [ v \in DOMAIN f \ {u} |-> f[v] ]
settle(u, diags) ==
    IF u \in DOMAIN pending
    THEN LET c == pending[u]
         IN  /\ pending' = without(pending, u)
             /\ IF awaits[c] = u
                THEN /\ awaits' = [ awaits EXCEPT ![c] = NoUri ]
                     /\ value' = [ value EXCEPT ![c] = diags ]
                     /\ woken' = Append(woken, c)
                ELSE UNCHANGED <<awaits, value, woken>>
    ELSE UNCHANGED <<pending, awaits, value, woken>>

(* Mutant of onTimer: an answered block has nothing left to do.            *)
onTimerIfPending ==
    /\ Idle /\ timers # <<>>
    /\ settle(Head(timers), {})
    /\ IF Head(timers) \in DOMAIN pending THEN send(<<Close(Head(timers))>>)
                                         ELSE UNCHANGED inbox
    /\ timers' = Tail(timers)
    /\ UNCHANGED <<proc, nextId, buf, looping, at, out, alive, docs, outbox, histVars>>

(* The timer of the oldest block: all are 300 ms, so they run in the order *)
(* they were set.  The document is closed whether it was answered or not.  *)
onTimer ==
    /\ Idle /\ timers # <<>>
    /\ settle(Head(timers), {})
    /\ send(<<Close(Head(timers))>>)
    /\ timers' = Tail(timers)
    /\ UNCHANGED <<proc, nextId, buf, looping, at, out, alive, docs, outbox, histVars>>

(* Mutant of decoded: the rest of a cut character is not decoded.          *)
decodedBytes(chunk) == chunk

(* chunk.toString("utf8"): a character that is cut is one replacement      *)
(* character in each of its chunks.                                        *)
decoded(chunk) ==
    [ i \in DOMAIN chunk |-> Char(IF chunk[i].kind = "rest" THEN "body" ELSE chunk[i].kind, chunk[i].of) ]

(* Mutant of received: the rest of the last chunk is dropped.              *)
receivedAlone(n) == decoded(SubSeq(outbox, 1, n))

received(n) == buf \o decoded(SubSeq(outbox, 1, n))

(* A chunk arrives: any part of what the process wrote, up to the middle   *)
(* of a body at its end if that is not ASCII.                              *)
onData(n, split) ==
    /\ Idle /\ n <= Len(outbox)
    /\ split => outbox[n].kind = "body" /\ outbox[n].of.size > 1
    /\ buf' = received(n)
    /\ LET left == SubSeq(outbox, n + 1, Len(outbox))
       IN  outbox' = IF split THEN <<Char("rest", outbox[n].of)>> \o left ELSE left
    /\ looping' = TRUE
    /\ LET ended == { i \in 1..n : outbox[i].kind \in {"body", "rest"} /\ ~(split /\ i = n) }
       IN  arrived' = arrived \cup { outbox[i].of.uri : i \in ended }
    /\ ascii' = (ascii /\ \A i \in 1..n : outbox[i].kind = "body" => outbox[i].of.size = 1)
    /\ UNCHANGED <<proc, nextId, pending, timers, callVars, alive, inbox, docs>>

(* onMessage: only published diagnostics of a pending uri have an effect.  *)
(* JSON.parse throws, and the body is dropped, unless it is one message.   *)
onMessage(body) ==
    IF \E m \in { body[i].of : i \in DOMAIN body } :
          \A i \in DOMAIN body : body[i] = Char("body", m)
    THEN settle(body[1].of.uri, body[1].of.diags)
    ELSE UNCHANGED <<pending, awaits, value, woken>>

(* Where the first header of the buffer ends, if it does; its first        *)
(* Content-Length; and where the message ends by it.  The length counts    *)
(* bytes, and characters are cut by it: a body that is not ASCII takes as  *)
(* many of the following characters with it as it has bytes too many.      *)
headerEnds(b) ==
    { i \in DOMAIN b : b[i].kind = "sep" /\ \A j \in 1..(i - 1) : b[j].kind # "sep" }
lengths(b, headerEnd) ==
    { i \in 1..(headerEnd - 1) : b[i].kind = "len" /\ \A j \in 1..(i - 1) : b[j].kind # "len" }
totals(b, headerEnd) == { headerEnd + b[i].of.size : i \in lengths(b, headerEnd) }

(* Mutant of skips: a header without a length stays in the buffer.         *)
skipsNone(b) == {}

(* What one turn of the loop can do: skip a header without a length, or    *)
(* cut a message; if neither, it returns.                                  *)
skips(b) == { h \in headerEnds(b) : lengths(b, h) = {} }
cuts(b) == UNION { { <<h, total>> : total \in { n \in totals(b, h) : n <= Len(b) } } :
                   h \in headerEnds(b) }

cut ==
    /\ looping
    /\ \/ /\ skips(buf) = {} /\ cuts(buf) = {}
          /\ looping' = FALSE
          /\ UNCHANGED <<buf, pending, awaits, value, woken>>
       \/ \E h \in skips(buf) :
             /\ buf' = SubSeq(buf, h + 1, Len(buf))
             /\ UNCHANGED <<looping, pending, awaits, value, woken>>
       \/ \E c \in cuts(buf) :
             /\ buf' = SubSeq(buf, c[2] + 1, Len(buf))
             /\ onMessage(SubSeq(buf, c[1] + 1, c[2]))
             /\ UNCHANGED looping
    /\ UNCHANGED <<proc, nextId, timers, at, out, childVars, histVars>>

-----------------------------------------------------------------------------
(* The process.                                                            *)

writes(m) == /\ Len(outbox) + Len(Frame(m)) <= MaxInFlight
             /\ outbox' = outbox \o Frame(m)
Publish(u, diags, size) == [ uri |-> u, diags |-> diags, size |-> size ]

(* It reads one message: it replies to initialize, opens a document, or    *)
(* closes one, after which it may publish an empty list for it.            *)
childReads ==
    /\ alive /\ inbox # <<>>
    /\ inbox' = Tail(inbox)
    /\ LET m == Head(inbox)
       IN  \/ /\ m.method = "initialize"
              /\ writes(Publish(NoUri, {}, 1))
              /\ UNCHANGED docs
           \/ /\ m.method = "didOpen"
              /\ docs' = [ u \in DOMAIN docs \cup {m.uri} |->
                             IF u = m.uri THEN [ text |-> m.text, answers |-> 0 ] ELSE docs[u] ]
              /\ UNCHANGED outbox
           \/ /\ m.method = "didClose"
              /\ docs' = without(docs, m.uri)
              /\ UNCHANGED outbox \/ writes(Publish(m.uri, {}, 1))
    /\ UNCHANGED <<objectVars, alive, histVars>>

(* It publishes what it found in a document.  The text of a finding may    *)
(* quote the block, and so need more bytes than characters.                *)
childPublishes(u) ==
    /\ alive /\ docs[u].answers < MaxAnswers
    /\ docs' = [ docs EXCEPT ![u].answers = @ + 1 ]
    /\ \/ writes(Publish(u, {}, 1))
       \/ \E size \in Sizes : writes(Publish(u, {docs[u].text}, size))
    /\ UNCHANGED <<objectVars, alive, inbox, histVars>>

(* It ends, killed or by itself; what it wrote can still be read.          *)
childEnds ==
    /\ alive
    /\ alive' = FALSE /\ inbox' = <<>> /\ docs' = <<>>
    /\ UNCHANGED <<objectVars, outbox, histVars>>

-----------------------------------------------------------------------------
Object == \/ start \/ stop \/ onExit \/ resume \/ onTimer \/ cut
          \/ \E c \in Calls : diagnose(c)
          \/ \E n \in 1..MaxInFlight, split \in BOOLEAN : onData(n, split)
Child == \/ childReads \/ childEnds
         \/ \E u \in DOMAIN docs : childPublishes(u)
Next == Object \/ Child
Spec == Init /\ [][Next]_vars

(* Node runs its timers, the loop it is in and its microtasks; nothing is  *)
(* asked of the process.                                                   *)
FairSpec == Spec /\ WF_vars(onTimer) /\ WF_vars(cut) /\ WF_vars(resume)

-----------------------------------------------------------------------------
(* A call that awaits a block can be woken: its promise is pending under   *)
(* the block's own uri with the timer still set, or it has been resolved   *)
(* and its continuation is queued.  Not even the end of the process may    *)
(* break this: the validation run that awaits the call, and the diagnostics*)
(* it would publish, would hang.                                           *)
CanBeWoken(c) ==
    LET u == awaits[c]
    IN  \/ /\ u \in DOMAIN pending /\ pending[u] = c
           /\ \E i \in DOMAIN timers : timers[i] = u
        \/ /\ u = NoUri
           /\ \E i \in DOMAIN woken : woken[i] = c
WaitersCanBeWoken == \A c \in Calls : Waiting(c) => CanBeWoken(c)

(* Every finding of a call is about the text of the block it is reported   *)
(* under, whatever answers were late, doubled or lost and whichever other  *)
(* call had a block out at the time.                                       *)
AnswersAreOwn ==
    \A c \in Calls : \A f \in out[c] : f.diag = Blocks[c][f.block]

(* Once nothing is in flight the process has no document open: every       *)
(* didOpen has had its didClose, in that order.                            *)
QuietProcessHoldsNothing ==
    (Idle /\ timers = <<>> /\ inbox = <<>> /\ proc) => docs = <<>>

(* An answer that was read to its last byte has settled its block when     *)
(* onData returns: every block whose answer came is forwarded back.        *)
EveryAnswerSettles ==
    ~looping => arrived \cap DOMAIN pending = {}

(* The same as long as every body read so far was ASCII, where a byte is a *)
(* character, however the bytes were split into chunks.                    *)
AsciiAnswersSettle == ascii => EveryAnswerSettles

(* A message that is left in the buffer behind another when onData returns *)
(* is there because the length of the first one claims it: that message is *)
(* not ASCII, and its bytes outnumber all the characters there are from    *)
(* its body on.  In particular nothing piles up behind a header that was   *)
(* cut into, and an ASCII message never holds back another.                *)
FirstHeader(l) == buf[l].kind = "len" /\ \A j \in 1..(l - 1) : buf[j].kind # "len"
ClaimsAll(l) == Len(buf) - (l + 1) < buf[l].of.size
BufferFindsFrames ==
    ~looping => \A i, j \in DOMAIN buf :
                  (buf[i].kind = "len" /\ buf[j].kind = "len" /\ i < j)
                    => \E l \in 1..i : FirstHeader(l) /\ ClaimsAll(l)

(* The forwarder as its callers see it: what a call has settled, read off  *)
(* the block it is at and what it has collected.                           *)
phaseOf(c) == IF at[c] = 0 THEN "idle" ELSE IF Done(c) THEN "returned" ELSE "asking"
foundBy(c) ==
    [ i \in 1..(IF at[c] = 0 THEN 0 ELSE at[c] - 1) |->
        { f.diag : f \in { x \in out[c] : x.block = i } } ]
F == INSTANCE Forwarding WITH
       phase <- [ c \in Calls |-> phaseOf(c) ],
       found <- [ c \in Calls |-> foundBy(c) ]

(* The forwarder implements Forwarding, whatever the process does: a block *)
(* is settled once, in order, with findings about its own text.            *)
ImplementsForwarding == F!Spec

(* Every call returns, so that again and again none is waiting: a process  *)
(* that is silent, slow, wrong or gone costs time, and never the return.   *)
CallsReturn == []<>(\A c \in Calls : ~Waiting(c))
=============================================================================
