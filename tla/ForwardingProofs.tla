------------------------- MODULE ForwardingProofs -------------------------
(***************************************************************************)
(* OttlForward implements Forwarding, is well typed, and leaves no call    *)
(* waiting for ever: proved for any calls, blocks, answers and chunks.     *)
(*                                                                         *)
(* The argument follows one text from the call to the process and back.    *)
(* Each block has a uri of its own, so whatever is under way under a uri   *)
(* (a request, an open document, an answer, characters of it) speaks of    *)
(* the text of the one block that is awaited under it, if any still is.    *)
(***************************************************************************)
EXTENDS OttlForward, SequenceTheorems, TLAPS

(* What is under way under uri u speaks of these texts.                    *)
Speaks(u, texts) ==
    /\ u < nextId
    /\ \A c \in Calls : Waiting(c) /\ awaits[c] = u /\ u # NoUri => texts \subseteq {Blocks[c][at[c]]}

OwnMessages == { m \in Messages : Speaks(m.uri, m.diags) }
OwnOutput == [ kind : {"len", "sep", "body", "rest"}, of : OwnMessages ]
OwnChars == [ kind : {"len", "sep", "body"}, of : OwnMessages ]
OwnOpens == { m \in [ method : {"didOpen"}, uri : Uris, text : Texts ] : Speaks(m.uri, {m.text}) }
OwnCloses == { m \in [ method : {"didClose"}, uri : Uris ] : Speaks(m.uri, {}) }
OwnRequests == OwnOpens \cup OwnCloses \cup {Initialize}

(* A queued call is at a block that it no longer awaits, and queued once.   *)
QueueInv ==
    /\ \A i \in DOMAIN woken : LET c == woken[i] IN
         at[c] > 0 /\ at[c] <= Len(Blocks[c]) /\ awaits[c] = NoUri
    /\ \A i, j \in DOMAIN woken : woken[i] = woken[j] => i = j

(* The calls and their promises: who is queued waits for nothing else.     *)
CallsInv ==
    /\ nextId \in Nat \ {0}
    /\ DOMAIN pending \subseteq Uris
    /\ \A u \in DOMAIN pending : pending[u] \in Calls /\ u < nextId
    /\ timers \in Seq({ u \in Uris : u < nextId })
    /\ at \in [Calls -> Nat]
    /\ awaits \in [Calls -> Uris \cup {NoUri}]
    /\ woken \in Seq(Calls)
    /\ \A c \in Calls :
         /\ at[c] <= Len(Blocks[c]) + 1
         /\ nextId = 1 => at[c] = 0
         /\ awaits[c] < nextId
         /\ awaits[c] # NoUri => Waiting(c)
    /\ QueueInv

(* What the calls have found, and are about to find.                       *)
FoundInv ==
    /\ value \in [Calls -> SUBSET Texts]
    /\ out \in [Calls -> SUBSET [ block : Nat \ {0}, diag : Texts ]]
    /\ \A c \in Calls :
         /\ value[c] # {} => Waiting(c) /\ value[c] \subseteq {Blocks[c][at[c]]}
         /\ \A f \in out[c] : /\ f.block < at[c] /\ f.block <= Len(Blocks[c])
                              /\ f.diag = Blocks[c][f.block]

(* What is under way.                                                      *)
DataInv ==
    /\ buf \in Seq(OwnChars)
    /\ outbox \in Seq(OwnOutput)
    /\ inbox \in Seq(OwnRequests)
    /\ DOMAIN docs \subseteq Uris
    /\ \A u \in DOMAIN docs :
         docs[u] \in [ text : Texts, answers : Nat ] /\ Speaks(u, {docs[u].text})

FlagsInv ==
    /\ proc \in BOOLEAN /\ alive \in BOOLEAN /\ looping \in BOOLEAN
    /\ arrived \subseteq Uris \cup {NoUri} /\ ascii \in BOOLEAN

ForwardInv == CallsInv /\ FoundInv /\ DataInv /\ FlagsInv

-----------------------------------------------------------------------------
(* Sequences.                                                              *)

LEMMA SeqGrows ==
    ASSUME NEW S, NEW T, S \subseteq T, NEW s \in Seq(S)
    PROVE  s \in Seq(T)
OBVIOUS

(* A piece of a sequence is made of its elements.                          *)
LEMMA Piece ==
    ASSUME NEW S, NEW s \in Seq(S), NEW m \in Nat, NEW n \in Nat, n <= Len(s)
    PROVE  /\ SubSeq(s, m + 1, n) \in Seq(S)
           /\ \A i \in DOMAIN SubSeq(s, m + 1, n) : SubSeq(s, m + 1, n)[i] \in S
<1>1. \A i \in (m + 1)..n : s[i] \in S
  BY ElementOfSeq, LenProperties
<1>2. SubSeq(s, m + 1, n) \in Seq(S)
  BY <1>1, SubSeqProperties
<1> QED BY <1>2, ElementOfSeq, LenProperties

LEMMA OneMore ==
    ASSUME NEW S, NEW s \in Seq(S), NEW e \in S
    PROVE  /\ s \o <<e>> \in Seq(S)
           /\ <<e>> \in Seq(S)
OBVIOUS

-----------------------------------------------------------------------------
(* What speaks of its texts goes on doing so: uris are not used twice.     *)
LEMMA SpeaksOn ==
    ASSUME CallsInv, NEW u, NEW texts, Speaks(u, texts),
           nextId' \in Nat, u \in Nat, nextId <= nextId',
           \A c \in Calls : \/ awaits'[c] = NoUri
                            \/ awaits'[c] = nextId
                            \/ awaits'[c] = awaits[c] /\ at'[c] = at[c]
    PROVE  Speaks(u, texts)'
<1>1. u < nextId'
  BY DEF Speaks, CallsInv
<1>2. ASSUME NEW c \in Calls, Waiting(c)', awaits'[c] = u, u # NoUri
      PROVE  texts \subseteq {Blocks[c][at'[c]]}
  <2>1. awaits'[c] = awaits[c] /\ at'[c] = at[c]
    BY <1>2 DEF Speaks, CallsInv
  <2> QED BY <1>2, <2>1 DEF Speaks, Waiting, Done
<1> QED BY <1>1, <1>2 DEF Speaks

LEMMA DataGrows ==
    ASSUME CallsInv, nextId' \in Nat, nextId <= nextId',
           \A c \in Calls : \/ awaits'[c] = NoUri
                            \/ awaits'[c] = nextId
                            \/ awaits'[c] = awaits[c] /\ at'[c] = at[c]
    PROVE  /\ OwnMessages \subseteq OwnMessages'
           /\ OwnOutput \subseteq OwnOutput' /\ OwnChars \subseteq OwnChars'
           /\ OwnRequests \subseteq OwnRequests'
           /\ \A u \in Uris : \A texts : Speaks(u, texts) => Speaks(u, texts)'
<1>1. \A u \in Nat : \A texts : Speaks(u, texts) => Speaks(u, texts)'
  BY SpeaksOn
<1>2. OwnMessages \subseteq OwnMessages'
  BY <1>1 DEF OwnMessages, Messages, Uris, NoUri
<1>3. OwnOutput \subseteq OwnOutput' /\ OwnChars \subseteq OwnChars'
  BY <1>2 DEF OwnOutput, OwnChars
<1>4. OwnRequests \subseteq OwnRequests'
  BY <1>1 DEF OwnRequests, OwnOpens, OwnCloses, Uris
<1> QED BY <1>1, <1>2, <1>3, <1>4 DEF Uris

LEMMA DataStays ==
    ASSUME CallsInv, DataInv, nextId' \in Nat, nextId <= nextId',
           \A c \in Calls : \/ awaits'[c] = NoUri
                            \/ awaits'[c] = nextId
                            \/ awaits'[c] = awaits[c] /\ at'[c] = at[c]
    PROVE  /\ buf \in Seq(OwnChars') /\ outbox \in Seq(OwnOutput') /\ inbox \in Seq(OwnRequests')
           /\ docs' = docs => \A u \in DOMAIN docs' : Speaks(u, {docs[u].text})'
<1>1. /\ OwnOutput \subseteq OwnOutput' /\ OwnChars \subseteq OwnChars'
      /\ OwnRequests \subseteq OwnRequests'
      /\ \A u \in Uris : \A texts : Speaks(u, texts) => Speaks(u, texts)'
  BY DataGrows
<1>2. buf \in Seq(OwnChars') /\ outbox \in Seq(OwnOutput') /\ inbox \in Seq(OwnRequests')
  BY <1>1, SeqGrows DEF DataInv
<1>3. ASSUME docs' = docs, NEW u \in DOMAIN docs' PROVE Speaks(u, {docs[u].text})'
  <2>1. u \in Uris /\ Speaks(u, {docs[u].text})
    BY <1>3 DEF DataInv
  <2>2. PICK texts : texts = {docs[u].text}
    OBVIOUS
  <2>3. Speaks(u, texts)'
    BY <1>1, <2>1, <2>2
  <2>4. texts = {docs'[u].text}
    BY <1>3, <2>2
  <2> QED BY <2>3, <2>4 DEF Speaks
<1> QED BY <1>2, <1>3

-----------------------------------------------------------------------------
(* Settling a uri hands its texts to the one call that awaits it, if any.  *)
LEMMA SettleHands ==
    ASSUME CallsInv, FoundInv, NEW u \in Nat, NEW diags \in SUBSET Texts, Speaks(u, diags),
           settle(u, diags), UNCHANGED <<nextId, at, out>>,
           timers' \in Seq({ v \in Uris : v < nextId })
    PROVE  /\ CallsInv' /\ FoundInv'
           /\ \A c \in Calls : awaits'[c] = NoUri \/ (awaits'[c] = awaits[c] /\ at'[c] = at[c])
<1>1. CASE u \in DOMAIN pending /\ awaits[pending[u]] = u
  <2> DEFINE c == pending[u]
  <2>1. /\ c \in Calls /\ u # NoUri
        /\ pending' = without(pending, u)
        /\ awaits' = [awaits EXCEPT ![c] = NoUri]
        /\ value' = [value EXCEPT ![c] = diags]
        /\ woken' = Append(woken, c)
    BY <1>1 DEF settle, CallsInv, Uris, NoUri
  <2>2. Waiting(c) /\ diags \subseteq {Blocks[c][at[c]]}
    BY <1>1, <2>1 DEF CallsInv, Speaks
  <2>3. /\ woken' \in Seq(Calls) /\ DOMAIN woken' = 1..(Len(woken) + 1)
        /\ DOMAIN woken = 1..Len(woken) /\ Len(woken) \in Nat
        /\ woken'[Len(woken) + 1] = c /\ \A i \in 1..Len(woken) : woken'[i] = woken[i]
    BY <2>1, AppendProperties, LenProperties DEF CallsInv
  <2>4. \A i \in DOMAIN woken : woken[i] # c
    BY <1>1, <2>1 DEF CallsInv, QueueInv
  <2>5. QueueInv'
    <3>1. \A i \in DOMAIN woken : woken[i] \in Calls
      BY <2>3, ElementOfSeq DEF CallsInv
    <3>2. at[c] > 0 /\ at[c] <= Len(Blocks[c]) /\ awaits'[c] = NoUri
      <4>1. Len(Blocks[c]) \in Nat /\ at[c] \in Nat
        BY <2>1, BlocksAssumption, LenProperties DEF CallsInv
      <4> QED BY <2>1, <2>2, <4>1 DEF Waiting, Done, CallsInv
    <3>3. ASSUME NEW i \in DOMAIN woken'
          PROVE  /\ at'[woken'[i]] > 0 /\ at'[woken'[i]] <= Len(Blocks[woken'[i]])
                 /\ awaits'[woken'[i]] = NoUri
      <4>1. CASE i = Len(woken) + 1
        BY <2>3, <3>2, <4>1
      <4>2. CASE i \in DOMAIN woken
        BY <2>1, <2>3, <2>4, <3>1, <4>2 DEF CallsInv, QueueInv
      <4> QED BY <2>3, <4>1, <4>2
    <3>4. ASSUME NEW i \in DOMAIN woken', NEW j \in DOMAIN woken', woken'[i] = woken'[j] PROVE i = j
      <4>1. CASE i \in DOMAIN woken /\ j \in DOMAIN woken
        BY <2>3, <3>4, <4>1 DEF CallsInv, QueueInv
      <4>2. CASE i = Len(woken) + 1 \/ j = Len(woken) + 1
        BY <2>3, <2>4, <3>4, <4>2
      <4> QED BY <2>3, <4>1, <4>2
    <3> QED BY <3>3, <3>4 DEF QueueInv
  <2>6. CallsInv'
    <3>1. /\ DOMAIN pending' \subseteq Uris
          /\ \A v \in DOMAIN pending' : pending'[v] \in Calls /\ v < nextId'
      BY <2>1 DEF CallsInv, without
    <3>2. awaits' \in [Calls -> Uris \cup {NoUri}]
      BY <2>1 DEF CallsInv
    <3>3. \A d \in Calls : /\ at'[d] <= Len(Blocks[d]) + 1
                           /\ nextId' = 1 => at'[d] = 0
                           /\ awaits'[d] < nextId'
                           /\ awaits'[d] # NoUri => Waiting(d)'
      BY <2>1 DEF CallsInv, NoUri, Waiting, Done
    <3> QED BY <2>3, <2>5, <3>1, <3>2, <3>3 DEF CallsInv
  <2>7. FoundInv'
    <3>1. value' \in [Calls -> SUBSET Texts]
      BY <2>1 DEF FoundInv
    <3>2. \A d \in Calls : value'[d] # {} => Waiting(d)' /\ value'[d] \subseteq {Blocks[d][at'[d]]}
      BY <2>1, <2>2 DEF FoundInv, Waiting, Done
    <3> QED BY <3>1, <3>2 DEF FoundInv
  <2> QED BY <2>1, <2>6, <2>7 DEF CallsInv
<1>2. CASE ~(u \in DOMAIN pending /\ awaits[pending[u]] = u)
  <2>1. /\ UNCHANGED <<awaits, value, woken>>
        /\ pending' = pending \/ pending' = without(pending, u)
    BY <1>2 DEF settle
  <2>2. /\ DOMAIN pending' \subseteq Uris
        /\ \A v \in DOMAIN pending' : pending'[v] \in Calls /\ v < nextId'
    BY <2>1 DEF CallsInv, without
  <2>3. CallsInv'
    BY <2>1, <2>2 DEF CallsInv, QueueInv, Waiting, Done
  <2>4. FoundInv'
    BY <2>1 DEF FoundInv, Waiting, Done
  <2> QED BY <2>1, <2>3, <2>4
<1> QED BY <1>1, <1>2

(* A call goes on to its next block, or returns: it is in no queue, and    *)
(* the others keep what they have.                                         *)
LEMMA NextBlockCalls ==
    ASSUME CallsInv, NEW c \in Calls, NEW i \in Nat, nextBlock(c, i),
           i > 0, i <= Len(Blocks[c]) + 1, nextId > 1, awaits[c] = NoUri,
           woken' \in Seq(Calls),
           \A k \in DOMAIN woken' : /\ woken'[k] # c
                                    /\ at[woken'[k]] > 0 /\ at[woken'[k]] <= Len(Blocks[woken'[k]])
                                    /\ awaits[woken'[k]] = NoUri,
           \A k, l \in DOMAIN woken' : woken'[k] = woken'[l] => k = l
    PROVE  /\ CallsInv' /\ nextId <= nextId'
           /\ at' = [at EXCEPT ![c] = i]
           /\ \A d \in Calls : \/ awaits'[d] = NoUri
                               \/ awaits'[d] = nextId
                               \/ awaits'[d] = awaits[d] /\ at'[d] = at[d]
<1>0. Len(Blocks[c]) \in Nat
  BY BlocksAssumption, LenProperties
<1>1. at' = [at EXCEPT ![c] = i]
  BY DEF nextBlock, diagnoseBlock
<1>2. \A k \in DOMAIN woken' : woken'[k] \in Calls
  BY ElementOfSeq, LenProperties
<1>3. \A d \in Calls : d # c => (Waiting(d)' <=> Waiting(d)) /\ at'[d] = at[d]
  BY <1>1 DEF Waiting, Done, CallsInv
<1>4. CASE i <= Len(Blocks[c]) /\ diagnoseBlock(c, i)
  <2>1. /\ awaits' = [awaits EXCEPT ![c] = nextId]
        /\ nextId' = nextId + 1 /\ timers' = Append(timers, nextId)
        /\ DOMAIN pending' = DOMAIN pending \cup {nextId}
        /\ pending'[nextId] = c
        /\ \A u \in DOMAIN pending : u # nextId => pending'[u] = pending[u]
    BY <1>4 DEF diagnoseBlock
  <2>2. nextId \in Uris /\ nextId' \in Nat \ {0}
    BY <2>1 DEF CallsInv, Uris
  <2>3. timers' \in Seq({ v \in Uris : v < nextId' })
    <3>1. { v \in Uris : v < nextId } \subseteq { v \in Uris : v < nextId' }
      BY <2>1 DEF CallsInv, Uris
    <3>2. timers \in Seq({ v \in Uris : v < nextId' })
      BY <3>1, SeqGrows DEF CallsInv
    <3>3. nextId \in { v \in Uris : v < nextId' }
      BY <2>1, <2>2 DEF CallsInv
    <3> QED BY <2>1, <3>2, <3>3, AppendProperties
  <2>4. /\ DOMAIN pending' \subseteq Uris
        /\ \A u \in DOMAIN pending' : pending'[u] \in Calls /\ u < nextId'
    BY <2>1, <2>2 DEF CallsInv, Uris
  <2>5. at' \in [Calls -> Nat] /\ awaits' \in [Calls -> Uris \cup {NoUri}]
    BY <1>1, <2>1, <2>2 DEF CallsInv
  <2>6. Waiting(c)'
    BY <1>0, <1>1, <1>4 DEF Waiting, Done, CallsInv
  <2>7. \A d \in Calls : /\ at'[d] <= Len(Blocks[d]) + 1
                         /\ nextId' = 1 => at'[d] = 0
                         /\ awaits'[d] < nextId'
                         /\ awaits'[d] # NoUri => Waiting(d)'
    BY <1>0, <1>1, <1>3, <2>1, <2>6 DEF CallsInv, Uris, NoUri
  <2>8. QueueInv'
    BY <1>2, <1>3, <2>1 DEF CallsInv, QueueInv
  <2>9. CallsInv'
    BY <2>2, <2>3, <2>4, <2>5, <2>7, <2>8 DEF CallsInv
  <2> QED BY <1>1, <1>3, <2>1, <2>9 DEF CallsInv
<1>5. CASE i > Len(Blocks[c]) /\ UNCHANGED <<nextId, pending, timers, awaits>>
  <2>1. at' \in [Calls -> Nat]
    BY <1>1 DEF CallsInv
  <2>2. \A d \in Calls : /\ at'[d] <= Len(Blocks[d]) + 1
                         /\ nextId' = 1 => at'[d] = 0
                         /\ awaits'[d] < nextId'
                         /\ awaits'[d] # NoUri => Waiting(d)'
    BY <1>1, <1>3, <1>5 DEF CallsInv
  <2>3. QueueInv'
    BY <1>2, <1>3, <1>5 DEF QueueInv
  <2>4. CallsInv'
    BY <1>5, <2>1, <2>2, <2>3 DEF CallsInv
  <2> QED BY <1>1, <1>3, <1>5, <2>4 DEF CallsInv
<1> QED BY <1>4, <1>5 DEF nextBlock

(* What it then writes to the process is the text of that block.           *)
LEMMA NextBlockAsks ==
    ASSUME CallsInv, DataInv, NEW c \in Calls, NEW i \in Nat, nextBlock(c, i),
           i > 0, nextId > 1, CallsInv',
           at' = [at EXCEPT ![c] = i],
           inbox \in Seq(OwnRequests')
    PROVE  inbox' \in Seq(OwnRequests')
<1>1. CASE i <= Len(Blocks[c]) /\ diagnoseBlock(c, i)
  <2> DEFINE m == Open(nextId, Blocks[c][i])
  <2>1. /\ awaits' = [awaits EXCEPT ![c] = nextId] /\ nextId' = nextId + 1
        /\ inbox' = inbox \/ inbox' = inbox \o <<m>>
    BY <1>1 DEF diagnoseBlock, send
  <2>2. Blocks[c][i] \in Texts /\ nextId \in Uris
    <3>1. Blocks[c] \in Seq(Texts)
      BY BlocksAssumption
    <3>2. i \in 1..Len(Blocks[c])
      BY <1>1, <3>1, LenProperties
    <3> QED BY <3>1, <3>2, ElementOfSeq DEF CallsInv, Uris
  <2>3. /\ nextId < nextId'
        /\ \A d \in Calls : awaits'[d] = nextId => d = c /\ at'[d] = i
    BY <2>1 DEF CallsInv
  <2>4. m \in OwnOpens'
    <3>1. PICK n : n = m
      OBVIOUS
    <3>2. Speaks(n.uri, {n.text})'
      BY <2>3, <3>1 DEF Speaks, Open
    <3>3. n \in [ method : {"didOpen"}, uri : Uris, text : Texts ]
      BY <2>2, <3>1 DEF Open
    <3> QED BY <3>1, <3>2, <3>3 DEF OwnOpens
  <2> QED BY <2>1, <2>4, OneMore DEF OwnRequests
<1>2. CASE UNCHANGED inbox
  BY <1>2
<1> QED BY <1>1, <1>2 DEF nextBlock

-----------------------------------------------------------------------------
(* The actions, one by one.                                                *)

LEMMA StartKeeps == ForwardInv /\ start => ForwardInv'
<1> SUFFICES ASSUME ForwardInv, start PROVE ForwardInv'
  OBVIOUS
<1> USE DEF ForwardInv
<1>1. /\ nextId = 1 /\ nextId' = 2 /\ proc' = TRUE /\ alive' = TRUE /\ inbox' = <<Initialize>>
      /\ UNCHANGED <<pending, timers, buf, looping, at, awaits, value, out, woken,
                     docs, outbox, arrived, ascii>>
  BY DEF start, callVars, histVars
<1>2. CallsInv'
  <2>1. { u \in Uris : u < nextId } \subseteq { u \in Uris : u < nextId' }
    BY <1>1 DEF Uris
  <2>2. timers' \in Seq({ u \in Uris : u < nextId' })
    BY <1>1, <2>1, SeqGrows DEF CallsInv
  <2>3. DOMAIN pending' \subseteq Uris /\ \A u \in DOMAIN pending' : pending'[u] \in Calls /\ u < nextId'
    BY <1>1 DEF CallsInv, Uris
  <2>4. \A c \in Calls : /\ at'[c] <= Len(Blocks[c]) + 1 /\ awaits'[c] < nextId'
                         /\ awaits'[c] # NoUri => Waiting(c)'
    BY <1>1 DEF CallsInv, Waiting, Done, Uris, NoUri
  <2> QED BY <1>1, <2>2, <2>3, <2>4 DEF CallsInv, QueueInv
<1>3. FoundInv'
  BY <1>1 DEF FoundInv, Waiting, Done
<1>4. DataInv'
  <2>1. /\ buf \in Seq(OwnChars') /\ outbox \in Seq(OwnOutput')
        /\ \A u \in DOMAIN docs' : Speaks(u, {docs[u].text})'
    BY <1>1, DataStays
  <2>2. inbox' \in Seq(OwnRequests')
    BY <1>1 DEF OwnRequests
  <2> QED BY <1>1, <2>1, <2>2 DEF DataInv
<1>5. FlagsInv'
  BY <1>1 DEF FlagsInv
<1> QED BY <1>2, <1>3, <1>4, <1>5

(* Steps that leave the calls alone leave what speaks of their texts.      *)
LEMMA CallsAlone ==
    ASSUME CallsInv, FoundInv, UNCHANGED <<nextId, pending, timers, callVars>>
    PROVE  /\ CallsInv' /\ FoundInv'
           /\ OwnMessages' = OwnMessages /\ OwnOutput' = OwnOutput
           /\ OwnChars' = OwnChars /\ OwnRequests' = OwnRequests
           /\ \A u, texts : Speaks(u, texts)' <=> Speaks(u, texts)
<1>1. UNCHANGED <<nextId, pending, timers, at, awaits, value, out, woken>>
  BY DEF callVars
<1>2. CallsInv' /\ FoundInv'
  BY <1>1 DEF CallsInv, QueueInv, FoundInv, Waiting, Done
<1>3. \A u, texts : Speaks(u, texts)' <=> Speaks(u, texts)
  BY <1>1 DEF Speaks, Waiting, Done
<1>4. OwnMessages' = OwnMessages
  BY <1>3 DEF OwnMessages
<1>5. OwnRequests' = OwnRequests
  BY <1>3 DEF OwnRequests, OwnOpens, OwnCloses
<1> QED BY <1>2, <1>3, <1>4, <1>5 DEF OwnOutput, OwnChars

LEMMA StopKeeps == ForwardInv /\ (stop \/ onExit) => ForwardInv'
<1> SUFFICES ASSUME ForwardInv, stop \/ onExit PROVE ForwardInv'
  OBVIOUS
<1> USE DEF ForwardInv
<1>1. proc' = FALSE /\ UNCHANGED <<nextId, pending, timers, buf, looping, callVars, childVars, histVars>>
  BY DEF stop, onExit
<1>2. CallsInv' /\ FoundInv'
  BY <1>1, CallsAlone
<1>3. DataInv'
  BY <1>1, CallsAlone DEF DataInv, childVars
<1>4. FlagsInv'
  BY <1>1 DEF FlagsInv, childVars, histVars
<1> QED BY <1>2, <1>3, <1>4

LEMMA DiagnoseKeeps ==
    ASSUME ForwardInv, NEW c \in Calls, diagnose(c)
    PROVE  ForwardInv'
<1> USE DEF ForwardInv
<1> DEFINE i == IF proc THEN 1 ELSE Len(Blocks[c]) + 1
<1>1. /\ nextId > 1 /\ at[c] = 0 /\ nextBlock(c, i)
      /\ UNCHANGED <<proc, buf, looping, value, out, woken, alive, docs, outbox, arrived, ascii>>
  BY DEF diagnose, histVars
<1>2. Len(Blocks[c]) \in Nat
  BY BlocksAssumption, LenProperties
<1>3. i \in Nat /\ i > 0 /\ i <= Len(Blocks[c]) + 1
  BY <1>2
<1>4. awaits[c] = NoUri /\ \A k \in DOMAIN woken : woken[k] # c
  BY <1>1 DEF CallsInv, QueueInv, Waiting
<1>5. /\ CallsInv' /\ nextId <= nextId' /\ at' = [at EXCEPT ![c] = i]
      /\ \A d \in Calls : \/ awaits'[d] = NoUri
                          \/ awaits'[d] = nextId
                          \/ awaits'[d] = awaits[d] /\ at'[d] = at[d]
  <2>1. /\ woken' \in Seq(Calls)
        /\ \A k \in DOMAIN woken' : /\ woken'[k] # c
                                    /\ at[woken'[k]] > 0 /\ at[woken'[k]] <= Len(Blocks[woken'[k]])
                                    /\ awaits[woken'[k]] = NoUri
        /\ \A k, l \in DOMAIN woken' : woken'[k] = woken'[l] => k = l
    BY <1>1, <1>4 DEF CallsInv, QueueInv
  <2> HIDE DEF i
  <2> QED BY <1>1, <1>3, <1>4, <2>1, NextBlockCalls
<1>6. FoundInv'
  <2>1. \A d \in Calls : d # c => at'[d] = at[d]
    BY <1>5 DEF CallsInv
  <2>2. value[c] = {} /\ out[c] = {}
    BY <1>1 DEF FoundInv, Waiting
  <2>3. \A d \in Calls : value'[d] # {} => Waiting(d)' /\ value'[d] \subseteq {Blocks[d][at'[d]]}
    BY <1>1, <2>1, <2>2 DEF FoundInv, Waiting, Done
  <2>4. \A d \in Calls : \A f \in out'[d] : /\ f.block < at'[d] /\ f.block <= Len(Blocks[d])
                                            /\ f.diag = Blocks[d][f.block]
    BY <1>1, <2>1, <2>2 DEF FoundInv
  <2> QED BY <1>1, <2>3, <2>4 DEF FoundInv
<1>7. DataInv'
  <2>1. /\ buf \in Seq(OwnChars') /\ outbox \in Seq(OwnOutput') /\ inbox \in Seq(OwnRequests')
        /\ \A u \in DOMAIN docs' : Speaks(u, {docs[u].text})'
    BY <1>1, <1>5, DataStays DEF CallsInv
  <2>2. inbox' \in Seq(OwnRequests')
    BY <1>1, <1>3, <1>5, <2>1, NextBlockAsks
  <2> QED BY <1>1, <2>1, <2>2 DEF DataInv
<1>8. FlagsInv'
  BY <1>1 DEF FlagsInv
<1> QED BY <1>5, <1>6, <1>7, <1>8

(* What a call that goes on has found, in its own text.                    *)
LEMMA ResumeFinds ==
    ASSUME ForwardInv, resume
    PROVE  LET c == Head(woken) IN
           /\ c \in Calls /\ at[c] > 0 /\ at[c] <= Len(Blocks[c]) /\ awaits[c] = NoUri
           /\ nextBlock(c, at[c] + 1) /\ at' = [at EXCEPT ![c] = at[c] + 1]
           /\ out' = [out EXCEPT ![c] = @ \cup { [block |-> at[c], diag |-> d] : d \in value[c] }]
           /\ value' = [value EXCEPT ![c] = {}]
           /\ value[c] \subseteq {Blocks[c][at[c]]} /\ value[c] \subseteq Texts
<1> USE DEF ForwardInv
<1> DEFINE c == Head(woken)
<1>1. /\ woken # <<>> /\ nextBlock(c, at[c] + 1)
      /\ out' = [out EXCEPT ![c] = @ \cup { [block |-> at[c], diag |-> d] : d \in value[c] }]
      /\ value' = [value EXCEPT ![c] = {}]
  BY DEF resume
<1>2. c \in Calls /\ 1 \in DOMAIN woken /\ c = woken[1]
  BY <1>1, HeadTailProperties, LenProperties, EmptySeq DEF CallsInv
<1>3. at[c] > 0 /\ at[c] <= Len(Blocks[c]) /\ awaits[c] = NoUri
  BY <1>2 DEF CallsInv, QueueInv
<1>4. at' = [at EXCEPT ![c] = at[c] + 1]
  BY <1>1 DEF nextBlock, diagnoseBlock
<1>5. value[c] \subseteq {Blocks[c][at[c]]} /\ value[c] \subseteq Texts
  BY <1>2 DEF FoundInv
<1> QED BY <1>1, <1>2, <1>3, <1>4, <1>5

LEMMA ResumeKeeps == ForwardInv /\ resume => ForwardInv'
<1> SUFFICES ASSUME ForwardInv, resume PROVE ForwardInv'
  OBVIOUS
<1> USE DEF ForwardInv
<1> DEFINE c == Head(woken)
           i == at[c] + 1
<1>1. /\ woken # <<>> /\ woken' = Tail(woken)
      /\ UNCHANGED <<proc, buf, looping, alive, docs, outbox, arrived, ascii>>
  BY DEF resume, histVars
<1>2. /\ c \in Calls /\ at[c] > 0 /\ at[c] <= Len(Blocks[c]) /\ awaits[c] = NoUri
      /\ nextBlock(c, i) /\ at' = [at EXCEPT ![c] = i]
      /\ out' = [out EXCEPT ![c] = @ \cup { [block |-> at[c], diag |-> d] : d \in value[c] }]
      /\ value' = [value EXCEPT ![c] = {}]
      /\ value[c] \subseteq {Blocks[c][at[c]]} /\ value[c] \subseteq Texts
  BY ResumeFinds
<1>3. /\ at[c] \in Nat /\ nextId > 1 /\ Len(Blocks[c]) \in Nat
  BY <1>2, BlocksAssumption, LenProperties DEF CallsInv
<1>4. i \in Nat /\ i > 0 /\ i <= Len(Blocks[c]) + 1
  BY <1>2, <1>3
<1>5. /\ woken' \in Seq(Calls)
      /\ \A k \in DOMAIN woken' : k + 1 \in DOMAIN woken /\ woken'[k] = woken[k + 1]
      /\ 1 \in DOMAIN woken /\ c = woken[1] /\ DOMAIN woken' \subseteq Nat \ {0}
  BY <1>1, HeadTailProperties, LenProperties, EmptySeq DEF CallsInv
<1>6. /\ \A k \in DOMAIN woken' : /\ woken'[k] # c
                                  /\ at[woken'[k]] > 0 /\ at[woken'[k]] <= Len(Blocks[woken'[k]])
                                  /\ awaits[woken'[k]] = NoUri
      /\ \A k, l \in DOMAIN woken' : woken'[k] = woken'[l] => k = l
  <2>1. ASSUME NEW k \in DOMAIN woken'
        PROVE  /\ woken'[k] # c
               /\ at[woken'[k]] > 0 /\ at[woken'[k]] <= Len(Blocks[woken'[k]])
               /\ awaits[woken'[k]] = NoUri
    <3>1. k \in Nat /\ k + 1 # 1 /\ k + 1 \in DOMAIN woken /\ woken'[k] = woken[k + 1]
      BY <1>5
    <3>2. woken[k + 1] # woken[1]
      BY <1>5, <3>1 DEF CallsInv, QueueInv
    <3> QED BY <1>5, <3>1, <3>2 DEF CallsInv, QueueInv
  <2>2. ASSUME NEW k \in DOMAIN woken', NEW l \in DOMAIN woken', woken'[k] = woken'[l]
        PROVE  k = l
    <3>1. /\ k \in Nat /\ l \in Nat /\ k + 1 \in DOMAIN woken /\ l + 1 \in DOMAIN woken
          /\ woken[k + 1] = woken[l + 1]
      BY <1>5, <2>2
    <3>2. k + 1 = l + 1
      BY <3>1 DEF CallsInv, QueueInv
    <3> QED BY <3>1, <3>2
  <2> QED BY <2>1, <2>2
<1>7. /\ CallsInv' /\ nextId <= nextId'
      /\ \A d \in Calls : \/ awaits'[d] = NoUri
                          \/ awaits'[d] = nextId
                          \/ awaits'[d] = awaits[d] /\ at'[d] = at[d]
  <2> HIDE DEF i, c
  <2> QED BY <1>2, <1>3, <1>4, <1>5, <1>6, NextBlockCalls
<1>8. FoundInv'
  <2>1. value' \in [Calls -> SUBSET Texts]
    BY <1>2 DEF FoundInv
  <2>2. out' \in [Calls -> SUBSET [ block : Nat \ {0}, diag : Texts ]]
    <3>1. { [block |-> at[c], diag |-> d] : d \in value[c] } \subseteq [ block : Nat \ {0}, diag : Texts ]
      BY <1>2, <1>3
    <3> QED BY <1>2, <3>1 DEF FoundInv
  <2>3. \A d \in Calls : value'[d] # {} => Waiting(d)' /\ value'[d] \subseteq {Blocks[d][at'[d]]}
    BY <1>2 DEF FoundInv, Waiting, Done, CallsInv
  <2>4. ASSUME NEW d \in Calls, NEW f \in out'[d]
        PROVE  f.block < at'[d] /\ f.block <= Len(Blocks[d]) /\ f.diag = Blocks[d][f.block]
    <3>1. CASE d # c
      BY <1>2, <2>4, <3>1 DEF FoundInv, CallsInv
    <3>2. CASE d = c /\ f \in out[c]
      <4>1. f.block \in Nat /\ f.block < at[c] /\ f.block <= Len(Blocks[c]) /\ f.diag = Blocks[c][f.block]
        BY <1>2, <3>2 DEF FoundInv
      <4>2. at'[c] = at[c] + 1
        BY <1>2 DEF CallsInv
      <4> QED BY <1>3, <3>2, <4>1, <4>2
    <3>3. CASE d = c /\ f \in { [block |-> at[c], diag |-> x] : x \in value[c] }
      <4>1. f.block = at[c] /\ f.diag = Blocks[c][at[c]]
        BY <1>2, <3>3
      <4>2. at'[c] = at[c] + 1
        BY <1>2 DEF CallsInv
      <4> QED BY <1>2, <1>3, <3>3, <4>1, <4>2
    <3> QED BY <1>2, <2>4, <3>1, <3>2, <3>3 DEF FoundInv
  <2> QED BY <2>1, <2>2, <2>3, <2>4 DEF FoundInv
<1>9. DataInv'
  <2>1. /\ buf \in Seq(OwnChars') /\ outbox \in Seq(OwnOutput') /\ inbox \in Seq(OwnRequests')
        /\ \A u \in DOMAIN docs' : Speaks(u, {docs[u].text})'
    BY <1>1, <1>7, DataStays DEF CallsInv
  <2>2. inbox' \in Seq(OwnRequests')
    <3> HIDE DEF i, c
    <3> QED BY <1>2, <1>3, <1>4, <1>7, <2>1, NextBlockAsks
  <2> QED BY <1>1, <2>1, <2>2 DEF DataInv
<1>10. FlagsInv'
  BY <1>1 DEF FlagsInv
<1> QED BY <1>7, <1>8, <1>9, <1>10

LEMMA TimerKeeps == ForwardInv /\ onTimer => ForwardInv'
<1> SUFFICES ASSUME ForwardInv, onTimer PROVE ForwardInv'
  OBVIOUS
<1> USE DEF ForwardInv
<1> DEFINE u == Head(timers)
<1>1. /\ timers # <<>> /\ settle(u, {}) /\ timers' = Tail(timers)
      /\ inbox' = inbox \/ inbox' = inbox \o <<Close(u)>>
      /\ UNCHANGED <<proc, nextId, buf, looping, at, out, alive, docs, outbox, arrived, ascii>>
  BY DEF onTimer, send, histVars
<1>2. u \in Uris /\ u < nextId /\ timers' \in Seq({ v \in Uris : v < nextId })
  <2>1. timers \in Seq({ v \in Uris : v < nextId })
    BY DEF CallsInv
  <2> QED BY <1>1, <2>1, HeadTailProperties
<1>3. Speaks(u, {})
  BY <1>2 DEF Speaks
<1>4. /\ CallsInv' /\ FoundInv'
      /\ \A c \in Calls : awaits'[c] = NoUri \/ (awaits'[c] = awaits[c] /\ at'[c] = at[c])
  <2> HIDE DEF u
  <2>1. u \in Nat /\ {} \in SUBSET Texts
    BY <1>2 DEF Uris
  <2> QED BY <1>1, <1>2, <1>3, <2>1, SettleHands
<1>5. /\ buf \in Seq(OwnChars') /\ outbox \in Seq(OwnOutput') /\ inbox \in Seq(OwnRequests')
      /\ \A v \in DOMAIN docs' : Speaks(v, {docs[v].text})'
  BY <1>1, <1>4, DataStays DEF CallsInv
<1>6. Close(u) \in OwnRequests'
  <2>1. PICK m : m = Close(u)
    OBVIOUS
  <2>2. m \in [ method : {"didClose"}, uri : Uris ] /\ m.uri < nextId'
    BY <1>1, <1>2, <2>1 DEF Close
  <2>3. Speaks(m.uri, {})'
    BY <2>2 DEF Speaks
  <2> QED BY <2>1, <2>2, <2>3 DEF OwnRequests, OwnCloses
<1>7. inbox' \in Seq(OwnRequests')
  BY <1>1, <1>5, <1>6, OneMore
<1>8. DataInv'
  BY <1>1, <1>5, <1>7 DEF DataInv
<1> QED BY <1>1, <1>4, <1>8 DEF FlagsInv

(* What is read is what was written, character by character.               *)
LEMMA DataKeeps ==
    ASSUME ForwardInv, NEW n \in Nat, n > 0, NEW split \in BOOLEAN, onData(n, split)
    PROVE  ForwardInv'
<1> USE DEF ForwardInv
<1> DEFINE left == SubSeq(outbox, n + 1, Len(outbox))
           chunk == SubSeq(outbox, 1, n)
<1>1. /\ n <= Len(outbox) /\ buf' = buf \o decoded(chunk)
      /\ outbox' = left \/ outbox' = <<Char("rest", outbox[n].of)>> \o left
      /\ looping' = TRUE
      /\ arrived' = arrived \cup { outbox[i].of.uri : i \in { j \in 1..n :
                        outbox[j].kind \in {"body", "rest"} /\ ~(split /\ j = n) } }
      /\ ascii' \in BOOLEAN
      /\ UNCHANGED <<proc, nextId, pending, timers, callVars, alive, inbox, docs>>
  BY DEF onData, received, FlagsInv
<1>2. /\ CallsInv' /\ FoundInv'
      /\ OwnOutput' = OwnOutput /\ OwnChars' = OwnChars /\ OwnRequests' = OwnRequests
      /\ \A u, texts : Speaks(u, texts)' <=> Speaks(u, texts)
  BY <1>1, CallsAlone
<1>3. outbox \in Seq(OwnOutput) /\ Len(outbox) \in Nat /\ \A i \in 1..n : outbox[i] \in OwnOutput
  BY <1>1, ElementOfSeq, LenProperties DEF DataInv
<1>4. chunk \in Seq(OwnOutput) /\ left \in Seq(OwnOutput)
  <2>1. SubSeq(outbox, 0 + 1, n) \in Seq(OwnOutput)
    BY <1>1, <1>3, Piece
  <2> QED BY <1>3, <2>1, Piece
<1>5. decoded(chunk) \in Seq(OwnChars)
  <2> HIDE DEF chunk
  <2>1. DOMAIN chunk = 1..Len(chunk) /\ Len(chunk) \in Nat
    BY <1>4, LenProperties
  <2>2. \A i \in 1..Len(chunk) : chunk[i] \in OwnOutput
    BY <1>4, <2>1, ElementOfSeq
  <2>3. \A i \in 1..Len(chunk) : decoded(chunk)[i] \in OwnChars
    BY <2>1, <2>2 DEF decoded, Char, OwnOutput, OwnChars
  <2>4. DOMAIN decoded(chunk) = 1..Len(chunk)
    BY <2>1 DEF decoded
  <2>5. decoded(chunk) \in [1..Len(chunk) -> OwnChars]
    BY <2>1, <2>3, <2>4 DEF decoded
  <2> QED BY <2>1, <2>5, SeqDef
<1>6. buf' \in Seq(OwnChars)
  BY <1>1, <1>5, ConcatProperties DEF DataInv
<1>7. outbox' \in Seq(OwnOutput)
  <2> HIDE DEF left
  <2>1. outbox[n] \in OwnOutput
    BY <1>3
  <2>2. Char("rest", outbox[n].of) \in OwnOutput
    BY <2>1 DEF OwnOutput, Char
  <2>3. <<Char("rest", outbox[n].of)>> \in Seq(OwnOutput)
    BY <1>3, <2>2, OneMore
  <2> QED BY <1>1, <1>4, <2>3, ConcatProperties
<1>8. DataInv'
  BY <1>1, <1>2, <1>6, <1>7 DEF DataInv
<1>9. FlagsInv'
  <2>1. \A i \in 1..n : outbox[i].of.uri \in Uris \cup {NoUri}
    BY <1>3 DEF OwnOutput, OwnMessages, Messages
  <2> QED BY <1>1, <2>1 DEF FlagsInv
<1> QED BY <1>2, <1>8, <1>9

(* A message cut from the buffer speaks of its own block, however it was   *)
(* cut: each of its characters does.                                       *)
LEMMA CutKeeps == ForwardInv /\ cut => ForwardInv'
<1> SUFFICES ASSUME ForwardInv, cut PROVE ForwardInv'
  OBVIOUS
<1> USE DEF ForwardInv
<1>1. UNCHANGED <<proc, nextId, timers, at, out, alive, inbox, docs, outbox, arrived, ascii>>
  BY DEF cut, childVars, histVars
<1>2. buf \in Seq(OwnChars) /\ Len(buf) \in Nat /\ DOMAIN buf = 1..Len(buf)
  BY LenProperties DEF DataInv
<1>3. ASSUME NEW n \in Nat PROVE SubSeq(buf, n + 1, Len(buf)) \in Seq(OwnChars)
  BY <1>2, Piece
<1>4. ASSUME UNCHANGED <<pending, awaits, value, woken>>, looping' \in BOOLEAN, buf' \in Seq(OwnChars)
      PROVE  ForwardInv'
  <2>1. UNCHANGED <<nextId, pending, timers, callVars>>
    BY <1>1, <1>4 DEF callVars
  <2>2. /\ CallsInv' /\ FoundInv'
        /\ OwnOutput' = OwnOutput /\ OwnChars' = OwnChars /\ OwnRequests' = OwnRequests
        /\ \A u, texts : Speaks(u, texts)' <=> Speaks(u, texts)
    BY <2>1, CallsAlone
  <2>3. DataInv'
    BY <1>1, <1>4, <2>2 DEF DataInv
  <2> QED BY <1>1, <1>4, <2>2, <2>3 DEF FlagsInv
<1>5. CASE looping' = FALSE /\ UNCHANGED <<buf, pending, awaits, value, woken>>
  BY <1>2, <1>4, <1>5
<1>6. ASSUME NEW h \in skips(buf), buf' = SubSeq(buf, h + 1, Len(buf)),
             UNCHANGED <<looping, pending, awaits, value, woken>>
      PROVE  ForwardInv'
  <2>1. h \in Nat
    BY <1>2, <1>6 DEF skips, headerEnds
  <2> QED BY <1>3, <1>4, <1>6, <2>1 DEF FlagsInv
<1>7. ASSUME NEW c \in cuts(buf), buf' = SubSeq(buf, c[2] + 1, Len(buf)),
             onMessage(SubSeq(buf, c[1] + 1, c[2])), UNCHANGED looping
      PROVE  ForwardInv'
  <2> DEFINE body == SubSeq(buf, c[1] + 1, c[2])
  <2>1. c[1] \in Nat /\ c[2] \in Nat /\ c[2] <= Len(buf)
    <3>1. PICK h \in headerEnds(buf) : c \in { <<h, total>> : total \in { n \in totals(buf, h) : n <= Len(buf) } }
      BY <1>7 DEF cuts
    <3>2. h \in Nat /\ h \in 1..Len(buf)
      BY <1>2, <3>1 DEF headerEnds
    <3>3. PICK total \in totals(buf, h) : c = <<h, total>> /\ total <= Len(buf)
      BY <3>1
    <3>4. PICK i \in lengths(buf, h) : total = h + buf[i].of.size
      BY <3>3 DEF totals
    <3>5. buf[i] \in OwnChars
      <4>1. i \in 1..Len(buf)
        BY <1>2, <3>2, <3>4 DEF lengths
      <4> QED BY <1>2, <4>1, ElementOfSeq
    <3>6. buf[i].of.size \in Nat
      BY <3>5 DEF OwnChars, OwnMessages, Messages
    <3> QED BY <3>2, <3>3, <3>4, <3>6
  <2>2. \A i \in DOMAIN body : body[i] \in OwnChars
    BY <1>2, <2>1, Piece
  <2>3. buf' \in Seq(OwnChars)
    BY <1>3, <1>7, <2>1
  <2>4. CASE UNCHANGED <<pending, awaits, value, woken>>
    BY <1>4, <1>7, <2>3, <2>4 DEF FlagsInv
  <2>5. ASSUME NEW j \in DOMAIN body, \A i \in DOMAIN body : body[i] = Char("body", body[j].of),
               settle(body[1].of.uri, body[1].of.diags)
        PROVE  ForwardInv'
    <3> DEFINE m == body[j].of
    <3>1. 1 \in DOMAIN body
      <4> body \in Seq(OwnChars)
        BY <1>2, <2>1, Piece
      <4> HIDE DEF body
      <4> QED BY <2>5, LenProperties
    <3>2. m \in OwnMessages /\ body[1].of = m
      BY <2>2, <2>5, <3>1 DEF OwnChars, Char
    <3> HIDE DEF body, m
    <3>3. m.uri \in Nat /\ m.diags \in SUBSET Texts /\ Speaks(m.uri, m.diags)
      BY <3>2 DEF OwnMessages, Messages, Uris, NoUri
    <3>4. settle(m.uri, m.diags)
      BY <2>5, <3>2
    <3>5. timers' \in Seq({ v \in Uris : v < nextId })
      BY <1>1 DEF CallsInv
    <3>6. /\ CallsInv' /\ FoundInv'
          /\ \A d \in Calls : awaits'[d] = NoUri \/ (awaits'[d] = awaits[d] /\ at'[d] = at[d])
      BY <1>1, <3>3, <3>4, <3>5, SettleHands
    <3>7. /\ nextId' \in Nat /\ nextId <= nextId'
          /\ \A d \in Calls : \/ awaits'[d] = NoUri
                              \/ awaits'[d] = nextId
                              \/ awaits'[d] = awaits[d] /\ at'[d] = at[d]
      BY <1>1, <3>6 DEF CallsInv
    <3>8. /\ OwnChars \subseteq OwnChars'
          /\ outbox \in Seq(OwnOutput') /\ inbox \in Seq(OwnRequests')
          /\ \A u \in DOMAIN docs' : Speaks(u, {docs[u].text})'
      BY <1>1, <3>7, DataGrows, DataStays
    <3>9. buf' \in Seq(OwnChars')
      BY <2>3, <3>8, SeqGrows
    <3>10. DataInv'
      BY <1>1, <3>8, <3>9 DEF DataInv
    <3> QED BY <1>1, <1>7, <3>6, <3>10 DEF FlagsInv
  <2> QED BY <1>7, <2>4, <2>5 DEF onMessage
<1> QED BY <1>5, <1>6, <1>7 DEF cut
(* The process reads requests and writes what they speak of.               *)
LEMMA WritesOwn ==
    ASSUME DataInv, NEW m \in OwnMessages, writes(m)
    PROVE  outbox' \in Seq(OwnOutput)
<1>1. Frame(m) \in Seq(OwnOutput)
  <2>1. /\ Char("len", m) \in OwnOutput /\ Char("sep", m) \in OwnOutput
        /\ Char("body", m) \in OwnOutput
    BY DEF Char, OwnOutput
  <2> QED BY <2>1 DEF Frame
<1> QED BY <1>1, ConcatProperties DEF writes, DataInv

LEMMA ChildKeeps == ForwardInv /\ Child => ForwardInv'
<1> SUFFICES ASSUME ForwardInv, Child PROVE ForwardInv'
  OBVIOUS
<1> USE DEF ForwardInv
<1>1. UNCHANGED <<proc, nextId, pending, timers, buf, looping, callVars, arrived, ascii>>
  BY DEF Child, childReads, childEnds, childPublishes, objectVars, histVars
<1>2. /\ CallsInv' /\ FoundInv'
      /\ OwnOutput' = OwnOutput /\ OwnChars' = OwnChars /\ OwnRequests' = OwnRequests
      /\ \A u, texts : Speaks(u, texts)' <=> Speaks(u, texts)
  BY <1>1, CallsAlone
<1>3. ASSUME alive' \in BOOLEAN, inbox' \in Seq(OwnRequests), outbox' \in Seq(OwnOutput),
             DOMAIN docs' \subseteq Uris,
             \A u \in DOMAIN docs' : /\ docs'[u] \in [ text : Texts, answers : Nat ]
                                     /\ Speaks(u, {docs'[u].text})
      PROVE  ForwardInv'
  <2>1. ASSUME NEW u \in DOMAIN docs' PROVE Speaks(u, {docs[u].text})'
    <3>1. PICK texts : texts = {docs'[u].text}
      OBVIOUS
    <3>2. Speaks(u, texts)'
      BY <1>2, <1>3, <3>1
    <3> QED BY <3>1, <3>2 DEF Speaks
  <2>2. DataInv'
    BY <1>1, <1>2, <1>3, <2>1 DEF DataInv
  <2> QED BY <1>1, <1>2, <1>3, <2>2 DEF FlagsInv
<1>4. CASE childReads
  <2> DEFINE m == Head(inbox)
  <2>1. /\ alive' = alive /\ inbox # <<>> /\ inbox' = Tail(inbox)
    BY <1>4 DEF childReads
  <2>2. m \in OwnRequests /\ inbox' \in Seq(OwnRequests)
    BY <2>1, HeadTailProperties DEF DataInv
  <2>3. CASE m.method = "initialize" /\ writes(Publish(NoUri, {}, 1)) /\ UNCHANGED docs
    <3>1. PICK p : p = Publish(NoUri, {}, 1)
      OBVIOUS
    <3>2. p \in Messages /\ p.uri = NoUri
      BY <3>1 DEF Publish, Messages
    <3>3. Speaks(p.uri, p.diags)
      BY <3>2 DEF Speaks, CallsInv, NoUri
    <3>4. p \in OwnMessages
      BY <3>2, <3>3 DEF OwnMessages
    <3>5. outbox' \in Seq(OwnOutput)
      BY <2>3, <3>1, <3>4, WritesOwn
    <3> QED BY <1>3, <2>1, <2>2, <2>3, <3>5 DEF DataInv, FlagsInv
  <2>4. CASE /\ m.method = "didOpen"
             /\ docs' = [ u \in DOMAIN docs \cup {m.uri} |->
                            IF u = m.uri THEN [ text |-> m.text, answers |-> 0 ] ELSE docs[u] ]
             /\ UNCHANGED outbox
    <3> HIDE DEF m
    <3>1. m \in [ method : {"didOpen"}, uri : Uris, text : Texts ] /\ Speaks(m.uri, {m.text})
      <4>1. m \notin OwnCloses /\ m # Initialize
        BY <2>4 DEF OwnCloses, Initialize
      <4>2. m \in OwnOpens
        BY <2>2, <4>1 DEF OwnRequests
      <4> QED BY <4>2 DEF OwnOpens
    <3>2. \A u \in DOMAIN docs' : \/ u = m.uri /\ docs'[u] = [ text |-> m.text, answers |-> 0 ]
                                  \/ u \in DOMAIN docs /\ docs'[u] = docs[u]
      BY <2>4
    <3>3. DOMAIN docs' \subseteq Uris
      BY <2>4, <3>1 DEF DataInv
    <3>4. ASSUME NEW u \in DOMAIN docs'
          PROVE  docs'[u] \in [ text : Texts, answers : Nat ] /\ Speaks(u, {docs'[u].text})
      <4>1. CASE u = m.uri /\ docs'[u] = [ text |-> m.text, answers |-> 0 ]
        <5>1. docs'[u].text = m.text
          BY <4>1
        <5> QED BY <3>1, <4>1, <5>1
      <4>2. CASE u \in DOMAIN docs /\ docs'[u] = docs[u]
        BY <4>2 DEF DataInv
      <4> QED BY <3>2, <4>1, <4>2
    <3> QED BY <1>3, <2>1, <2>2, <2>4, <3>3, <3>4 DEF DataInv, FlagsInv
  <2>5. CASE /\ m.method = "didClose" /\ docs' = without(docs, m.uri)
             /\ UNCHANGED outbox \/ writes(Publish(m.uri, {}, 1))
    <3>1. m.uri \in Uris /\ Speaks(m.uri, {})
      BY <2>2, <2>5 DEF OwnRequests, OwnOpens, OwnCloses, Initialize
    <3> HIDE DEF m
    <3>2. PICK p : p = Publish(m.uri, {}, 1)
      OBVIOUS
    <3>3. p \in Messages /\ p.uri = m.uri /\ p.diags = {}
      BY <3>1, <3>2 DEF Publish, Messages
    <3>4. p \in OwnMessages
      BY <3>1, <3>3 DEF OwnMessages
    <3>5. outbox' \in Seq(OwnOutput)
      BY <2>5, <3>2, <3>4, WritesOwn DEF DataInv
    <3>6. /\ DOMAIN docs' \subseteq DOMAIN docs
          /\ \A u \in DOMAIN docs' : docs'[u] = docs[u]
      BY <2>5 DEF without
    <3> QED BY <1>3, <2>1, <2>2, <3>5, <3>6 DEF DataInv, FlagsInv
  <2> QED BY <1>4, <2>3, <2>4, <2>5 DEF childReads
<1>5. ASSUME NEW u \in DOMAIN docs, childPublishes(u) PROVE ForwardInv'
  <2>1. u \in Uris /\ docs[u] \in [ text : Texts, answers : Nat ] /\ Speaks(u, {docs[u].text})
    BY DEF DataInv
  <2>2. /\ alive' = alive /\ inbox' = inbox
        /\ docs' = [ docs EXCEPT ![u].answers = @ + 1 ]
    BY <1>5 DEF childPublishes
  <2>3. ASSUME NEW diags \in {{}, {docs[u].text}}, NEW size \in Nat \ {0},
               writes(Publish(u, diags, size))
        PROVE  outbox' \in Seq(OwnOutput)
    <3>1. PICK p : p = Publish(u, diags, size)
      OBVIOUS
    <3>2. p \in Messages /\ p.uri = u /\ p.diags \subseteq {docs[u].text}
      BY <2>1, <2>3, <3>1 DEF Publish, Messages
    <3>3. p \in OwnMessages
      BY <2>1, <3>2 DEF OwnMessages, Speaks
    <3> QED BY <2>3, <3>1, <3>3, WritesOwn
  <2>4. outbox' \in Seq(OwnOutput)
    BY <1>5, <2>3, SizesAssumption DEF childPublishes
  <2>5. /\ DOMAIN docs' = DOMAIN docs
        /\ \A v \in DOMAIN docs' : /\ docs'[v] \in [ text : Texts, answers : Nat ]
                                   /\ docs'[v].text = docs[v].text
    <3>1. /\ DOMAIN docs' = DOMAIN docs
          /\ docs'[u] = [ docs[u] EXCEPT !.answers = docs[u].answers + 1 ]
          /\ \A v \in DOMAIN docs : v # u => docs'[v] = docs[v]
      BY <2>2
    <3>2. docs'[u] \in [ text : Texts, answers : Nat ] /\ docs'[u].text = docs[u].text
      BY <2>1, <3>1
    <3> QED BY <3>1, <3>2 DEF DataInv
  <2>6. \A v \in DOMAIN docs' : Speaks(v, {docs'[v].text})
    BY <2>5 DEF DataInv
  <2> QED BY <1>3, <2>2, <2>4, <2>5, <2>6 DEF DataInv, FlagsInv
<1>6. CASE childEnds
  <2>1. alive' = FALSE /\ inbox' = <<>> /\ docs' = <<>> /\ outbox' = outbox
    BY <1>6 DEF childEnds
  <2>2. DOMAIN docs' = {}
    BY <2>1
  <2>3. alive' \in BOOLEAN /\ inbox' \in Seq(OwnRequests) /\ outbox' \in Seq(OwnOutput)
    BY <2>1, EmptySeq DEF DataInv
  <2> QED BY <1>3, <2>2, <2>3
<1> QED BY <1>4, <1>5, <1>6 DEF Child
-----------------------------------------------------------------------------
(* The invariant, and what follows from it.                                *)

LEMMA NoStep == ForwardInv /\ UNCHANGED vars => ForwardInv'
<1> SUFFICES ASSUME ForwardInv, UNCHANGED vars PROVE ForwardInv'
  OBVIOUS
<1>1. /\ UNCHANGED <<proc, nextId, pending, timers, buf, looping, callVars>>
      /\ UNCHANGED <<alive, inbox, docs, outbox, arrived, ascii>>
  BY DEF vars, objectVars, childVars, histVars
<1>2. /\ CallsInv' /\ FoundInv'
      /\ OwnOutput' = OwnOutput /\ OwnChars' = OwnChars /\ OwnRequests' = OwnRequests
      /\ \A u, texts : Speaks(u, texts)' <=> Speaks(u, texts)
  BY <1>1, CallsAlone DEF ForwardInv
<1>3. DataInv'
  BY <1>1, <1>2 DEF DataInv, ForwardInv
<1> QED BY <1>1, <1>2, <1>3 DEF ForwardInv, FlagsInv

LEMMA StepKeeps == ForwardInv /\ [Next]_vars => ForwardInv'
<1>1. ForwardInv /\ Object => ForwardInv'
  <2>1. 1..MaxInFlight \subseteq Nat \ {0}
    BY BoundsAssumption
  <2> QED BY <2>1, StartKeeps, StopKeeps, DiagnoseKeeps, ResumeKeeps, TimerKeeps, DataKeeps, CutKeeps
          DEF Object
<1> QED BY <1>1, ChildKeeps, NoStep DEF Next

LEMMA InitHolds == Init => ForwardInv
<1> SUFFICES ASSUME Init PROVE ForwardInv
  OBVIOUS
<1>1. \A S : <<>> \in Seq(S)
  BY EmptySeq
<1>2. \A c \in Calls : Len(Blocks[c]) \in Nat
  BY BlocksAssumption, LenProperties
<1>3. CallsInv
  BY <1>1, <1>2 DEF Init, CallsInv, QueueInv, Waiting, NoUri
<1>4. FoundInv
  BY DEF Init, FoundInv
<1>5. DataInv
  BY <1>1 DEF Init, DataInv
<1> QED BY <1>3, <1>4, <1>5 DEF Init, ForwardInv, FlagsInv

LEMMA InvariantHolds == Spec => []ForwardInv
BY InitHolds, StepKeeps, PTL DEF Spec

(* Whatever the process answers and however its bytes are cut, the         *)
(* variables of the forwarder keep their types (ottl-forward.ts:28-125).   *)
THEOREM TypeCorrect == Spec => []TypeOK
<1>1. ForwardInv => TypeOK
  <2> SUFFICES ASSUME ForwardInv PROVE TypeOK
    OBVIOUS
  <2>1. /\ OwnChars \subseteq Chars /\ OwnOutput \subseteq Output
        /\ { u \in Uris : u < nextId } \subseteq Uris
        /\ OwnRequests \subseteq [ method : {"didOpen"}, uri : Uris, text : Texts ]
                                 \cup [ method : {"didClose"}, uri : Uris ] \cup {Initialize}
    BY DEF OwnChars, OwnOutput, OwnMessages, Chars, Output, OwnRequests, OwnOpens, OwnCloses
  <2>2. /\ buf \in Seq(Chars) /\ outbox \in Seq(Output) /\ timers \in Seq(Uris)
        /\ inbox \in Seq([ method : {"didOpen"}, uri : Uris, text : Texts ]
                         \cup [ method : {"didClose"}, uri : Uris ] \cup {Initialize})
    BY <2>1, SeqGrows DEF ForwardInv, DataInv, CallsInv
  <2> QED BY <2>2 DEF ForwardInv, CallsInv, FoundInv, DataInv, FlagsInv, TypeOK
<1> QED BY <1>1, InvariantHolds, PTL

(* A finding is reported under the block whose text it is about, whatever  *)
(* answers were late, doubled or lost (ottl-forward.ts:61-100).            *)
THEOREM AnswersAlwaysOwn == Spec => []AnswersAreOwn
<1>1. ForwardInv => AnswersAreOwn
  BY DEF ForwardInv, FoundInv, AnswersAreOwn
<1> QED BY <1>1, InvariantHolds, PTL
-----------------------------------------------------------------------------
(* The refinement.                                                         *)

Hits(o, i) == { f.diag : f \in { x \in o : x.block = i } }
Settled(c) == IF at[c] = 0 THEN 0 ELSE at[c] - 1
phases == [ c \in Calls |-> phaseOf(c) ]
founds == [ c \in Calls |-> foundBy(c) ]

LEMMA FoundSeq ==
    ASSUME ForwardInv, NEW c \in Calls
    PROVE  /\ Settled(c) \in Nat /\ DOMAIN foundBy(c) = 1..Settled(c)
           /\ foundBy(c) \in Seq(SUBSET Texts) /\ Len(foundBy(c)) = Settled(c)
           /\ at[c] = 0 => foundBy(c) = <<>>
<1>1. Settled(c) \in Nat /\ DOMAIN foundBy(c) = 1..Settled(c)
  BY DEF ForwardInv, CallsInv, Settled, foundBy
<1>2. \A i \in 1..Settled(c) : foundBy(c)[i] \in SUBSET Texts
  BY DEF ForwardInv, FoundInv, Settled, foundBy
<1>3. foundBy(c) \in [1..Settled(c) -> SUBSET Texts]
  BY <1>1, <1>2 DEF foundBy, Settled
<1>4. foundBy(c) \in Seq(SUBSET Texts)
  BY <1>1, <1>3, SeqDef
<1>5. Len(foundBy(c)) = Settled(c)
  BY <1>1, <1>4, LenProperties
<1> QED BY <1>1, <1>4, <1>5, EmptySeq DEF Settled

(* What a call has found, and whether it has returned, changes only with   *)
(* the block it is at and what it collected.                               *)
LEMMA SameView ==
    ASSUME NEW c \in Calls, at'[c] = at[c], out'[c] = out[c]
    PROVE  phaseOf(c)' = phaseOf(c) /\ foundBy(c)' = foundBy(c)
BY DEF phaseOf, foundBy, Done

LEMMA SameViews ==
    ASSUME UNCHANGED <<at, out>>
    PROVE  UNCHANGED F!fvars
<1>1. phases' = phases /\ founds' = founds
  BY SameView DEF phases, founds
<1> QED BY <1>1 DEF F!fvars, phases, founds

LEMMA InitRefines == Init => F!Init
<1> SUFFICES ASSUME Init PROVE F!Init
  OBVIOUS
<1>1. \A c \in Calls : phaseOf(c) = "idle" /\ foundBy(c) = <<>>
  BY InitHolds, FoundSeq DEF Init, phaseOf
<1> QED BY <1>1 DEF F!Init

LEMMA DiagnoseRefines ==
    ASSUME ForwardInv, ForwardInv', NEW c \in Calls, diagnose(c)
    PROVE  F!Ask(c) \/ F!Decline(c)
<1>1. /\ at[c] = 0 /\ out' = out
      /\ at' = [at EXCEPT ![c] = IF proc THEN 1 ELSE Len(Blocks[c]) + 1]
  BY DEF diagnose, nextBlock, diagnoseBlock
<1>2. Len(Blocks[c]) \in Nat
  BY BlocksAssumption, LenProperties
<1>3. \A d \in Calls : d # c => phaseOf(d)' = phaseOf(d) /\ foundBy(d)' = foundBy(d)
  BY <1>1, SameView DEF ForwardInv, CallsInv
<1>4. phases[c] = "idle" /\ foundBy(c) = <<>>
  BY <1>1, FoundSeq DEF phases, phaseOf
<1>5. at'[c] = IF proc THEN 1 ELSE Len(Blocks[c]) + 1
  BY <1>1 DEF ForwardInv, CallsInv
<1>6. CASE proc
  <2>1. phaseOf(c)' = F!After(c, 0)
    BY <1>2, <1>5, <1>6 DEF phaseOf, Done, F!After
  <2>2. foundBy(c)' = <<>>
    <3>1. /\ foundBy(c) = [ i \in 1..0 |-> Hits(out[c], i) ]
          /\ foundBy(c)' = [ i \in 1..0 |-> Hits(out'[c], i) ]
      BY <1>1, <1>5, <1>6 DEF foundBy, Hits
    <3> QED BY <1>1, <1>4, <3>1
  <2>3. phases' = [phases EXCEPT ![c] = F!After(c, 0)] /\ founds' = founds
    BY <1>3, <1>4, <2>1, <2>2 DEF phases, founds
  <2> QED BY <1>4, <2>3 DEF phases, founds, F!Ask
<1>7. CASE ~proc
  <2>1. phaseOf(c)' = "returned"
    BY <1>2, <1>5, <1>7 DEF phaseOf, Done
  <2>2. foundBy(c)' = [ i \in 1..Len(Blocks[c]) |-> {} ]
    <3>1. out'[c] = {}
      BY <1>1 DEF ForwardInv, FoundInv, CallsInv
    <3>2. foundBy(c)' = [ i \in 1..Len(Blocks[c]) |-> { f.diag : f \in { x \in out'[c] : x.block = i } } ]
      BY <1>2, <1>5, <1>7 DEF foundBy
    <3>3. \A i : { f.diag : f \in { x \in out'[c] : x.block = i } } = {}
      BY <3>1
    <3> QED BY <3>2, <3>3
  <2>3. /\ phases' = [phases EXCEPT ![c] = "returned"]
        /\ founds' = [founds EXCEPT ![c] = [ i \in 1..Len(Blocks[c]) |-> {} ]]
    BY <1>3, <2>1, <2>2 DEF phases, founds
  <2> QED BY <1>4, <2>3 DEF phases, founds, F!Decline
<1> QED BY <1>6, <1>7

LEMMA ResumeRefines ==
    ASSUME ForwardInv, resume
    PROVE  Head(woken) \in Calls /\ F!Settle(Head(woken))
<1>0. PICK c, k : c = Head(woken) /\ k = at[c]
  OBVIOUS
<1>1. /\ c \in Calls /\ k > 0 /\ k <= Len(Blocks[c])
      /\ at' = [at EXCEPT ![c] = k + 1]
      /\ out' = [out EXCEPT ![c] = @ \cup { [block |-> k, diag |-> d] : d \in value[c] }]
      /\ value[c] \subseteq {Blocks[c][k]}
  BY <1>0, ResumeFinds
<1>2. k \in Nat /\ Len(Blocks[c]) \in Nat
  BY <1>0, <1>1, BlocksAssumption, LenProperties DEF ForwardInv, CallsInv
<1>3. /\ at'[c] = k + 1
      /\ out'[c] = out[c] \cup { [block |-> k, diag |-> d] : d \in value[c] }
      /\ \A d \in Calls : d # c => at'[d] = at[d] /\ out'[d] = out[d]
  BY <1>1 DEF ForwardInv, CallsInv, FoundInv
<1>4. \A d \in Calls : d # c => phaseOf(d)' = phaseOf(d) /\ foundBy(d)' = foundBy(d)
  BY <1>3, SameView
<1>5. Len(foundBy(c)) = k - 1 /\ foundBy(c) \in Seq(SUBSET Texts)
  BY <1>0, <1>1, <1>2, FoundSeq DEF Settled
<1>6. phases[c] = "asking" /\ phaseOf(c)' = F!After(c, Len(foundBy(c)) + 1)
  BY <1>0, <1>1, <1>2, <1>3, <1>5 DEF phases, phaseOf, Done, F!After
<1>7. \A f \in out[c] : f.block # k
  BY <1>0, <1>1, <1>2 DEF ForwardInv, FoundInv
<1>8. Hits(out'[c], k) = value[c]
  <2>1. \A x \in out'[c] : x.block = k =>
           x \in { [block |-> k, diag |-> d] : d \in value[c] }
    BY <1>3, <1>7
  <2>2. \A x \in out'[c] : x.block = k => x.diag \in value[c]
    BY <2>1
  <2>3. \A d \in value[c] : \E x \in out'[c] : x.block = k /\ x.diag = d
    <3>1. TAKE d \in value[c]
    <3>2. PICK x : x = [block |-> k, diag |-> d]
      OBVIOUS
    <3> QED BY <1>3, <3>2
  <2> QED BY <2>2, <2>3 DEF Hits
<1>9. \A i : i # k => Hits(out'[c], i) = Hits(out[c], i)
  <2>1. \A i : i # k => { x \in out'[c] : x.block = i } = { x \in out[c] : x.block = i }
    BY <1>3
  <2> QED BY <2>1 DEF Hits
<1>10. /\ foundBy(c) = [ i \in 1..(k - 1) |-> Hits(out[c], i) ]
       /\ foundBy(c)' = [ i \in 1..k |-> Hits(out'[c], i) ]
  BY <1>0, <1>1, <1>2, <1>3 DEF foundBy, Hits
<1>11. foundBy(c)' = Append(foundBy(c), value[c])
  <2> DEFINE s == Append(foundBy(c), value[c])
             t == [ i \in 1..k |-> Hits(out'[c], i) ]
  <2>1. value[c] \in SUBSET Texts
    BY <1>1 DEF ForwardInv, FoundInv
  <2>2. /\ s \in Seq(SUBSET Texts) /\ Len(s) = k /\ s[k] = value[c]
        /\ \A i \in 1..(k - 1) : s[i] = foundBy(c)[i]
    BY <1>2, <1>5, <2>1, AppendProperties
  <2>3. DOMAIN s = 1..k /\ DOMAIN t = 1..k
    BY <2>2, LenProperties
  <2>4. \A i \in 1..k : s[i] = t[i]
    <3>1. ASSUME NEW i \in 1..k, i # k PROVE s[i] = t[i]
      <4>1. i \in 1..(k - 1)
        BY <1>2, <3>1
      <4>2. s[i] = Hits(out[c], i)
        BY <1>10, <2>2, <4>1
      <4> QED BY <1>9, <3>1, <4>2
    <3>2. s[k] = t[k]
      BY <1>1, <1>2, <1>8, <2>2
    <3> QED BY <3>1, <3>2
  <2> QED BY <1>10, <2>2, <2>3, <2>4, LenProperties
<1>12. value[c] \in { {}, {Blocks[c][Len(foundBy(c)) + 1]} }
  BY <1>1, <1>2, <1>5
<1>13. founds[c] = foundBy(c)
  BY <1>1 DEF founds
<1>14. /\ phases' = [phases EXCEPT ![c] = F!After(c, Len(founds[c]) + 1)]
       /\ founds' = [founds EXCEPT ![c] = Append(@, value[c])]
  BY <1>1, <1>4, <1>6, <1>11, <1>13 DEF phases, founds
<1>15. F!Settle(c)
  BY <1>6, <1>12, <1>13, <1>14 DEF phases, founds, F!Settle
<1> QED BY <1>0, <1>1, <1>15

LEMMA StepRefines == ForwardInv /\ ForwardInv' /\ [Next]_vars => [F!Next]_(F!fvars)
<1> SUFFICES ASSUME ForwardInv, ForwardInv', [Next]_vars PROVE [F!Next]_(F!fvars)
  OBVIOUS
<1>1. ASSUME NEW c \in Calls, diagnose(c) PROVE F!Next
  BY <1>1, DiagnoseRefines DEF F!Next
<1>2. CASE resume
  BY <1>2, ResumeRefines DEF F!Next
<1>3. ASSUME \/ start \/ stop \/ onExit \/ onTimer \/ cut \/ Child
             \/ \E n \in 1..MaxInFlight, split \in BOOLEAN : onData(n, split)
             \/ UNCHANGED vars
      PROVE  UNCHANGED <<at, out>>
  BY <1>3 DEF start, stop, onExit, onTimer, cut, onData, Child, childReads, childEnds, childPublishes,
              vars, objectVars, callVars
<1> QED BY <1>1, <1>2, <1>3, SameViews DEF Next, Object

(* Every call settles its blocks one by one with findings about their own  *)
(* text, whatever the process does: the forwarder implements Forwarding    *)
(* (ottl-forward.ts:61-76).                                                *)
THEOREM RefinesForwarding == Spec => ImplementsForwarding
BY InitHolds, InitRefines, StepKeeps, StepRefines, PTL DEF Spec, ImplementsForwarding, F!Spec

-----------------------------------------------------------------------------
(* No call is left waiting for something that will not come.               *)
IsSet(u, s) == \E i \in DOMAIN s : s[i] = u

WokenShapes ==
    /\ nextId \in Nat
    /\ \A u \in DOMAIN pending : pending[u] \in Calls
    /\ timers \in Seq(Nat)
    /\ at \in [Calls -> Nat]
    /\ awaits \in [Calls -> Nat]
    /\ woken \in Seq(Calls)

(* A uri about to be used is awaited by nobody: a new block takes no other *)
(* call's promise out of pending.                                          *)
NextIsFresh == nextId > 0 /\ \A c \in Calls : awaits[c] < nextId

WokenInv == WokenShapes /\ NextIsFresh /\ WaitersCanBeWoken

-----------------------------------------------------------------------------
(* What is in a sequence stays in it when something is appended, and, but  *)
(* for its head, when its head is taken.                                   *)
LEMMA AppendKeeps ==
    ASSUME NEW S, NEW s \in Seq(S), NEW e \in S
    PROVE  /\ Append(s, e) \in Seq(S)
           /\ IsSet(e, Append(s, e))
           /\ \A v : IsSet(v, s) => IsSet(v, Append(s, e))
<1> DEFINE t == Append(s, e)
<1>1. /\ t \in Seq(S) /\ Len(t) = Len(s) + 1 /\ t[Len(s) + 1] = e
      /\ \A i \in 1..Len(s) : t[i] = s[i]
  BY AppendProperties
<1>2. DOMAIN s = 1..Len(s) /\ DOMAIN t = 1..Len(t) /\ Len(s) \in Nat
  BY <1>1, LenProperties
<1>3. IsSet(e, t)
  BY <1>1, <1>2 DEF IsSet
<1>4. ASSUME NEW v, IsSet(v, s) PROVE IsSet(v, t)
  BY <1>1, <1>2, <1>4 DEF IsSet
<1> QED BY <1>1, <1>3, <1>4

LEMMA TailKeeps ==
    ASSUME NEW S, NEW s \in Seq(S), s # <<>>
    PROVE  /\ Head(s) \in S /\ Tail(s) \in Seq(S)
           /\ \A v : IsSet(v, s) /\ v # Head(s) => IsSet(v, Tail(s))
<1>1. /\ Head(s) \in S /\ Tail(s) \in Seq(S)
      /\ Len(Tail(s)) = Len(s) - 1 /\ \A i \in 1..Len(Tail(s)) : Tail(s)[i] = s[i + 1]
  BY HeadTailProperties
<1>2. /\ DOMAIN s = 1..Len(s) /\ DOMAIN Tail(s) = 1..Len(Tail(s))
      /\ Len(s) \in Nat /\ Head(s) = s[1]
  BY <1>1, LenProperties
<1>3. ASSUME NEW v, IsSet(v, s), v # Head(s) PROVE IsSet(v, Tail(s))
  <2>1. PICK i \in 1..Len(s) : s[i] = v
    BY <1>2, <1>3 DEF IsSet
  <2>2. i - 1 \in 1..Len(Tail(s)) /\ Tail(s)[i - 1] = v
    BY <1>1, <1>2, <1>3, <2>1
  <2> QED BY <1>2, <2>2 DEF IsSet
<1> QED BY <1>1, <1>3

(* What the invariant says of a call, in terms of IsSet.                   *)
LEMMA WokenMeans ==
    ASSUME NEW c
    PROVE  CanBeWoken(c) <=>
           \/ /\ awaits[c] \in DOMAIN pending /\ pending[awaits[c]] = c
              /\ IsSet(awaits[c], timers)
           \/ awaits[c] = NoUri /\ IsSet(c, woken)
BY DEF CanBeWoken, IsSet

-----------------------------------------------------------------------------
(* Settling a uri wakes the call that awaits it, if any, and no other      *)
(* call loses its promise; the timers may lose that uri only.              *)
LEMMA SettleWakes ==
    ASSUME WokenInv, NEW u, NEW diags, settle(u, diags), UNCHANGED <<nextId, at>>,
           timers' \in Seq(Nat),
           \A v : IsSet(v, timers) /\ v # u => IsSet(v, timers')
    PROVE  WokenInv'
<1> USE DEF WokenInv
<1>1. /\ DOMAIN pending' \subseteq DOMAIN pending
      /\ \A v \in DOMAIN pending : v # u => v \in DOMAIN pending' /\ pending'[v] = pending[v]
      /\ \A v \in DOMAIN pending' : pending'[v] = pending[v]
  BY DEF settle, without
<1>2. CASE u \in DOMAIN pending /\ awaits[pending[u]] = u
  <2> DEFINE c == pending[u]
  <2>1. /\ c \in Calls
        /\ awaits' = [awaits EXCEPT ![c] = NoUri]
        /\ woken' = Append(woken, c)
    BY <1>2 DEF settle, WokenShapes
  <2>2. /\ woken' \in Seq(Calls) /\ IsSet(c, woken')
        /\ \A d : IsSet(d, woken) => IsSet(d, woken')
    BY <2>1, AppendKeeps DEF WokenShapes
  <2>3. WokenShapes'
    BY <1>1, <2>1, <2>2 DEF WokenShapes, NoUri
  <2>4. NextIsFresh'
    BY <2>1 DEF NextIsFresh, NoUri, WokenShapes
  <2>5. ASSUME NEW d \in Calls, Waiting(d)' PROVE CanBeWoken(d)'
    <3>1. awaits[d] \in Nat /\ awaits' \in [Calls -> Nat]
      BY <2>3 DEF WokenShapes
    <3>2. Waiting(d)
      BY <2>5 DEF Waiting, Done
    <3>3. CanBeWoken(d)
      BY <3>2 DEF WaitersCanBeWoken
    <3>4. CASE d = c
      <4>1. awaits'[d] = NoUri /\ IsSet(d, woken')
        BY <2>1, <2>2, <3>4 DEF WokenShapes
      <4> QED BY <4>1 DEF CanBeWoken, IsSet
    <3>5. CASE d # c
      <4>1. awaits'[d] = awaits[d]
        BY <2>1, <3>5 DEF WokenShapes
      <4>2. CASE /\ awaits[d] \in DOMAIN pending /\ pending[awaits[d]] = d
                 /\ IsSet(awaits[d], timers)
        <5>1. awaits[d] # u
          BY <3>5, <4>2
        <5>2. /\ awaits[d] \in DOMAIN pending' /\ pending'[awaits[d]] = d
              /\ IsSet(awaits[d], timers')
          BY <1>1, <4>2, <5>1
        <5> QED BY <4>1, <5>2 DEF CanBeWoken, IsSet
      <4>3. CASE awaits[d] = NoUri /\ IsSet(d, woken)
        <5>1. awaits'[d] = NoUri /\ IsSet(d, woken')
          BY <2>2, <4>1, <4>3
        <5> QED BY <5>1 DEF CanBeWoken, IsSet
      <4> QED BY <3>3, <4>2, <4>3, WokenMeans
    <3> QED BY <3>4, <3>5
  <2> QED BY <2>3, <2>4, <2>5 DEF WaitersCanBeWoken
<1>3. CASE ~(u \in DOMAIN pending /\ awaits[pending[u]] = u)
  <2>1. UNCHANGED <<awaits, woken>>
    BY <1>3 DEF settle
  <2>2. WokenShapes' /\ NextIsFresh'
    BY <1>1, <2>1 DEF WokenShapes, NextIsFresh
  <2>3. ASSUME NEW d \in Calls, Waiting(d)' PROVE CanBeWoken(d)'
    <3>1. Waiting(d)
      BY <2>3 DEF Waiting, Done
    <3>2. CanBeWoken(d)
      BY <3>1 DEF WaitersCanBeWoken
    <3>3. CASE /\ awaits[d] \in DOMAIN pending /\ pending[awaits[d]] = d
               /\ IsSet(awaits[d], timers)
      <4>1. awaits[d] # u
        BY <1>3, <3>3
      <4>2. /\ awaits'[d] \in DOMAIN pending' /\ pending'[awaits'[d]] = d
            /\ IsSet(awaits'[d], timers')
        BY <1>1, <2>1, <3>3, <4>1
      <4> QED BY <4>2 DEF CanBeWoken, IsSet
    <3>4. CASE awaits[d] = NoUri /\ IsSet(d, woken)
      BY <2>1, <3>4 DEF CanBeWoken, IsSet
    <3> QED BY <3>2, <3>3, <3>4, WokenMeans
  <2> QED BY <2>2, <2>3 DEF WaitersCanBeWoken
<1> QED BY <1>2, <1>3

(* Going on to a block registers its promise and sets its timer; the call  *)
(* itself may have left the queue of continuations, no other has.          *)
LEMMA NextBlockWakes ==
    ASSUME WokenInv, NEW c \in Calls, NEW i \in Nat, nextBlock(c, i),
           woken' \in Seq(Calls),
           \A d : IsSet(d, woken) /\ d # c => IsSet(d, woken')
    PROVE  WokenInv'
<1> USE DEF WokenInv
<1>1. CASE i <= Len(Blocks[c]) /\ diagnoseBlock(c, i)
  <2>1. /\ at' = [at EXCEPT ![c] = i] /\ awaits' = [awaits EXCEPT ![c] = nextId]
        /\ nextId' = nextId + 1 /\ timers' = Append(timers, nextId)
        /\ DOMAIN pending' = DOMAIN pending \cup {nextId}
        /\ pending'[nextId] = c
        /\ \A u \in DOMAIN pending : u # nextId => pending'[u] = pending[u]
    BY <1>1 DEF diagnoseBlock
  <2>2. /\ timers' \in Seq(Nat) /\ IsSet(nextId, timers')
        /\ \A u : IsSet(u, timers) => IsSet(u, timers')
    BY <2>1, AppendKeeps DEF WokenShapes
  <2>3. WokenShapes'
    BY <2>1, <2>2 DEF WokenShapes
  <2>4. NextIsFresh'
    BY <2>1 DEF NextIsFresh, WokenShapes
  <2>5. ASSUME NEW d \in Calls, Waiting(d)' PROVE CanBeWoken(d)'
    <3>1. CASE d = c
      <4>1. awaits'[d] = nextId
        BY <2>1, <3>1 DEF WokenShapes
      <4> QED BY <2>1, <2>2, <3>1, <4>1 DEF CanBeWoken, IsSet
    <3>2. CASE d # c
      <4>1. at'[d] = at[d] /\ awaits'[d] = awaits[d] /\ awaits[d] # nextId
        BY <2>1, <3>2 DEF WokenShapes, NextIsFresh
      <4>2. CanBeWoken(d)
        BY <2>5, <4>1 DEF Waiting, Done, WaitersCanBeWoken
      <4>3. CASE /\ awaits[d] \in DOMAIN pending /\ pending[awaits[d]] = d
                 /\ IsSet(awaits[d], timers)
        <5>1. /\ awaits[d] \in DOMAIN pending' /\ pending'[awaits[d]] = d
              /\ IsSet(awaits[d], timers')
          BY <2>1, <2>2, <4>1, <4>3
        <5> QED BY <4>1, <5>1 DEF CanBeWoken, IsSet
      <4>4. CASE awaits[d] = NoUri /\ IsSet(d, woken)
        BY <3>2, <4>1, <4>4 DEF CanBeWoken, IsSet
      <4> QED BY <4>2, <4>3, <4>4, WokenMeans
    <3> QED BY <3>1, <3>2
  <2> QED BY <2>3, <2>4, <2>5 DEF WaitersCanBeWoken
<1>2. CASE /\ i > Len(Blocks[c]) /\ at' = [at EXCEPT ![c] = i]
           /\ UNCHANGED <<nextId, pending, timers, awaits>>
  <2>1. WokenShapes' /\ NextIsFresh'
    BY <1>2 DEF WokenShapes, NextIsFresh
  <2>2. ASSUME NEW d \in Calls, Waiting(d)' PROVE CanBeWoken(d)'
    <3>1. d # c
      BY <1>2, <2>2 DEF Waiting, Done, WokenShapes
    <3>2. at'[d] = at[d]
      BY <1>2, <3>1 DEF WokenShapes
    <3>3. CanBeWoken(d)
      BY <2>2, <3>2 DEF Waiting, Done, WaitersCanBeWoken
    <3> QED BY <1>2, <3>1, <3>3 DEF CanBeWoken, IsSet
  <2> QED BY <2>1, <2>2 DEF WaitersCanBeWoken
<1> QED BY <1>1, <1>2 DEF nextBlock

-----------------------------------------------------------------------------
LEMMA WokenKeeps ==
    ASSUME WokenInv, [Next]_vars
    PROVE  WokenInv'
<1> DEFINE same == <<nextId, pending, timers, at, awaits, woken>>
<1>1. ASSUME UNCHANGED same PROVE WokenInv'
  BY <1>1 DEF WokenInv, WokenShapes, NextIsFresh, WaitersCanBeWoken, Waiting, Done, CanBeWoken
<1>2. CASE start
  <2>1. nextId' = 2 /\ nextId = 1 /\ UNCHANGED <<pending, timers, at, awaits, woken>>
    BY <1>2 DEF start, callVars
  <2> QED BY <2>1 DEF WokenInv, WokenShapes, NextIsFresh, WaitersCanBeWoken, Waiting, Done, CanBeWoken
<1>3. CASE stop \/ onExit
  BY <1>1, <1>3 DEF stop, onExit, callVars
<1>4. ASSUME NEW n \in 1..MaxInFlight, NEW split \in BOOLEAN, onData(n, split) PROVE WokenInv'
  BY <1>1, <1>4 DEF onData, callVars
<1>5. CASE Child
  BY <1>1, <1>5 DEF Child, childReads, childEnds, childPublishes, objectVars, callVars
<1>6. ASSUME NEW c \in Calls, diagnose(c) PROVE WokenInv'
  <2>1. (IF proc THEN 1 ELSE Len(Blocks[c]) + 1) \in Nat
    BY BlocksAssumption
  <2>2. woken' = woken /\ nextBlock(c, IF proc THEN 1 ELSE Len(Blocks[c]) + 1)
    BY <1>6 DEF diagnose
  <2> QED BY <2>1, <2>2, NextBlockWakes DEF WokenInv, WokenShapes
<1>7. CASE resume
  <2> DEFINE c == Head(woken)
  <2>1. woken # <<>> /\ woken' = Tail(woken) /\ nextBlock(c, at[c] + 1)
    BY <1>7 DEF resume
  <2>2. /\ c \in Calls /\ woken' \in Seq(Calls)
        /\ \A d : IsSet(d, woken) /\ d # c => IsSet(d, woken')
    BY <2>1, TailKeeps DEF WokenInv, WokenShapes
  <2>3. at[c] + 1 \in Nat
    BY <2>2 DEF WokenInv, WokenShapes
  <2> QED BY <2>1, <2>2, <2>3, NextBlockWakes
<1>8. CASE onTimer
  <2>1. /\ settle(Head(timers), {}) /\ timers # <<>> /\ timers' = Tail(timers)
        /\ UNCHANGED <<nextId, at>>
    BY <1>8 DEF onTimer
  <2>2. /\ timers' \in Seq(Nat)
        /\ \A u : IsSet(u, timers) /\ u # Head(timers) => IsSet(u, timers')
    BY <2>1, TailKeeps DEF WokenInv, WokenShapes
  <2> QED BY <2>1, <2>2, SettleWakes
<1>9. CASE cut
  <2>1. UNCHANGED <<nextId, timers, at>>
    BY <1>9 DEF cut
  <2>2. CASE UNCHANGED <<pending, awaits, woken>>
    BY <1>1, <2>1, <2>2
  <2>3. ASSUME NEW u, NEW diags, settle(u, diags) PROVE WokenInv'
    BY <2>1, <2>3, SettleWakes DEF WokenInv, WokenShapes
  <2>4. UNCHANGED <<pending, awaits, woken>> \/ \E u, diags : settle(u, diags)
    BY <1>9 DEF cut, onMessage
  <2> QED BY <2>2, <2>3, <2>4
<1>10. CASE UNCHANGED vars
  BY <1>1, <1>10 DEF vars, objectVars, callVars
<1> QED BY <1>2, <1>3, <1>4, <1>5, <1>6, <1>7, <1>8, <1>9, <1>10 DEF Next, Object

(* A call that awaits a block can always be woken, whatever the process    *)
(* does: its timer is set until its promise is resolved, and its           *)
(* continuation is queued from then on.                                    *)
THEOREM WaitersAlwaysCanBeWoken == Spec => []WaitersCanBeWoken
<1>1. Init => WokenInv
  <2> SUFFICES ASSUME Init PROVE WokenInv
    OBVIOUS
  <2>1. WokenShapes /\ NextIsFresh
    BY DEF Init, WokenShapes, NextIsFresh, NoUri
  <2>2. WaitersCanBeWoken
    BY DEF Init, WaitersCanBeWoken, Waiting
  <2> QED BY <2>1, <2>2 DEF WokenInv
<1>2. WokenInv /\ [Next]_vars => WokenInv'
  BY WokenKeeps
<1>3. WokenInv => WaitersCanBeWoken
  BY DEF WokenInv
<1> QED BY <1>1, <1>2, <1>3, PTL DEF Spec
=============================================================================
