---------------------------- MODULE FramesProofs ----------------------------
(***************************************************************************)
(* What goes between the forwarder and the process: proved for any calls,  *)
(* blocks, answers, sizes of bodies and chunks.                            *)
(*                                                                         *)
(* Towards the process: whatever is opened is closed, because each open    *)
(* document has its timer set or its didClose on the way, behind it.       *)
(*                                                                         *)
(* From the process: what is in the buffer and what is still to be read    *)
(* are one stream.  The process only adds whole frames at its end, and the *)
(* loop of onData only takes characters off in front, so the stream always *)
(* ends in whole frames.  While every byte was a character it begins with  *)
(* one too, and no body that was read is left in the buffer.               *)
(***************************************************************************)
EXTENDS ForwardingProofs, WellFoundedInduction

-----------------------------------------------------------------------------
(* No document is left open.                                               *)

(* Uri u will be closed by what the timers or the inbox after its k-th     *)
(* request hold.                                                           *)
Closing(u, k) ==
    IsSet(u, timers) \/ \E j \in DOMAIN inbox : j > k /\ inbox[j] = Close(u)

Opening(i) == inbox[i].method = "didOpen" => Closing(inbox[i].uri, i)

QuietInv ==
    /\ alive => nextId > 1
    /\ ~ alive => inbox = <<>> /\ docs = <<>>
    /\ docs = [ u \in DOMAIN docs |-> docs[u] ]
    /\ proc => /\ \A u \in DOMAIN docs : Closing(u, 0)
               /\ \A i \in DOMAIN inbox : Opening(i)

(* One more request, which closes a uri whose timer is gone or opens one   *)
(* whose timer is set; or none.                                            *)
LEMMA SendKeepsQuiet ==
    ASSUME ForwardInv, QuietInv, NEW m, UNCHANGED <<alive, docs>>, nextId' >= nextId, nextId' \in Nat,
           proc' => proc,
           inbox' = IF proc /\ alive THEN inbox \o <<m>> ELSE inbox,
           \A v : IsSet(v, timers) => IsSet(v, timers') \/ m = Close(v),
           m.method = "didOpen" => IsSet(m.uri, timers')
    PROVE  QuietInv'
<1> DEFINE S == OwnRequests \cup {m}
<1>1. inbox \in Seq(S) /\ m \in S
  BY SeqGrows DEF ForwardInv, DataInv
<1>2. DOMAIN inbox = 1..Len(inbox) /\ Len(inbox) \in Nat
  BY <1>1, LenProperties
<1>3. CASE ~ (proc /\ alive)
  <2>1. UNCHANGED inbox
    BY <1>3
  <2>2. (alive => nextId > 1)' /\ (~ alive => inbox = <<>> /\ docs = <<>>)'
    BY <2>1 DEF QuietInv, ForwardInv, CallsInv
  <2>3. CASE ~ proc
    <3>1. ~ proc'
      BY <2>3
    <3>2. (docs = [ u \in DOMAIN docs |-> docs[u] ])'
      BY DEF QuietInv
    <3> QED BY <2>2, <3>1, <3>2 DEF QuietInv
  <2>4. CASE ~ alive
    <3>1. DOMAIN docs = {} /\ DOMAIN inbox = {}
      BY <1>2, <2>4 DEF QuietInv
    <3>2. (docs = [ u \in DOMAIN docs |-> docs[u] ])'
      BY DEF QuietInv
    <3> QED BY <2>1, <2>2, <3>1, <3>2 DEF QuietInv
  <2> QED BY <1>3, <2>3, <2>4
<1>4. CASE proc /\ alive
  <2>1. inbox' = inbox \o <<m>>
    BY <1>4
  <2>2. <<m>> \in Seq(S) /\ Len(<<m>>) = 1 /\ <<m>>[1] = m
    BY <1>1
  <2>3. /\ Len(inbox') = Len(inbox) + 1 /\ inbox' \in Seq(S)
        /\ \A i \in 1..(Len(inbox) + 1) :
             inbox'[i] = IF i <= Len(inbox) THEN inbox[i] ELSE <<m>>[i - Len(inbox)]
    <3> HIDE DEF S
    <3> QED BY <1>1, <2>1, <2>2, ConcatProperties
  <2>4. DOMAIN inbox' = 1..(Len(inbox) + 1)
    BY <2>3, LenProperties
  <2>5. /\ inbox'[Len(inbox) + 1] = m
        /\ \A i \in DOMAIN inbox : inbox'[i] = inbox[i]
    BY <1>2, <2>2, <2>3
  <2>6. ASSUME NEW u, NEW k \in 0..Len(inbox), Closing(u, k) PROVE Closing(u, k)'
    <3>1. CASE IsSet(u, timers)
      <4>1. CASE IsSet(u, timers')
        BY <4>1 DEF Closing
      <4>2. CASE m = Close(u)
        <5>1. Len(inbox) + 1 \in DOMAIN inbox' /\ Len(inbox) + 1 > k
          BY <1>2, <2>4
        <5> QED BY <2>5, <4>2, <5>1 DEF Closing
      <4> QED BY <3>1, <4>1, <4>2
    <3>2. ASSUME NEW j \in DOMAIN inbox, j > k, inbox[j] = Close(u) PROVE Closing(u, k)'
      BY <1>2, <2>4, <2>5, <3>2 DEF Closing
    <3> QED BY <2>6, <3>1, <3>2 DEF Closing
  <2>7. ASSUME NEW i \in DOMAIN inbox', (inbox[i].method = "didOpen")' PROVE Closing(inbox[i].uri, i)'
    <3>1. CASE i = Len(inbox) + 1
      BY <2>5, <2>7, <3>1 DEF Closing
    <3>2. CASE i \in DOMAIN inbox
      <4>1. PICK v : v = inbox[i].uri
        OBVIOUS
      <4>2. Closing(v, i)
        BY <1>4, <2>5, <2>7, <3>2, <4>1 DEF QuietInv, Opening
      <4>3. Closing(v, i)'
        BY <1>2, <2>6, <3>2, <4>2
      <4> QED BY <2>5, <3>2, <4>1, <4>3 DEF Closing
    <3> QED BY <1>2, <2>4, <3>1, <3>2
  <2>8. \A u \in DOMAIN docs' : Closing(u, 0)'
    BY <1>2, <1>4, <2>6 DEF QuietInv
  <2>9. (docs = [ u \in DOMAIN docs |-> docs[u] ])'
    BY DEF QuietInv
  <2>10. (alive => nextId > 1)' /\ (~ alive => inbox = <<>> /\ docs = <<>>)'
    BY <1>4 DEF QuietInv, ForwardInv, CallsInv
  <2> QED BY <2>7, <2>8, <2>9, <2>10 DEF QuietInv, Opening
<1> QED BY <1>3, <1>4

(* The process reads a request: what it opens is closed by a later one.    *)
LEMMA ReadKeepsQuiet ==
    ASSUME ForwardInv, QuietInv, childReads
    PROVE  QuietInv'
<1> DEFINE m == Head(inbox)
<1>1. /\ alive /\ inbox # <<>> /\ inbox' = Tail(inbox)
      /\ UNCHANGED <<alive, proc, nextId, timers>>
  BY DEF childReads, objectVars
<1>2. inbox \in Seq(OwnRequests)
  BY DEF ForwardInv, DataInv
<1>3. /\ Len(inbox) \in Nat \ {0} /\ DOMAIN inbox = 1..Len(inbox) /\ m = inbox[1]
      /\ inbox' \in Seq(OwnRequests) /\ Len(inbox') = Len(inbox) - 1
      /\ \A i \in 1..Len(inbox') : inbox'[i] = inbox[i + 1]
  BY <1>1, <1>2, LenProperties, HeadTailProperties, EmptySeq
<1>4. DOMAIN inbox' = 1..(Len(inbox) - 1)
  BY <1>3, LenProperties
<1> HIDE DEF m
<1>5. ASSUME NEW u, NEW k \in 1..Len(inbox), Closing(u, k) PROVE Closing(u, k - 1)'
  <2>1. CASE IsSet(u, timers)
    BY <1>1, <2>1 DEF Closing
  <2>2. ASSUME NEW j \in DOMAIN inbox, j > k, inbox[j] = Close(u) PROVE Closing(u, k - 1)'
    <3>1. j - 1 \in DOMAIN inbox' /\ j - 1 > k - 1 /\ inbox'[j - 1] = inbox[j]
      BY <1>3, <1>4, <2>2
    <3> QED BY <2>2, <3>1 DEF Closing
  <2> QED BY <1>5, <2>1, <2>2 DEF Closing
<1>6. ASSUME proc, NEW i \in DOMAIN inbox', (inbox[i].method = "didOpen")'
      PROVE  Closing(inbox[i].uri, i)'
  <2>1. i + 1 \in DOMAIN inbox /\ inbox'[i] = inbox[i + 1] /\ i \in Nat
    BY <1>3, <1>4
  <2>2. Closing(inbox[i + 1].uri, i + 1)
    BY <1>6, <2>1 DEF QuietInv, Opening
  <2>3. PICK v : v = inbox[i + 1].uri
    OBVIOUS
  <2>4. Closing(v, (i + 1) - 1)'
    BY <1>3, <1>5, <2>1, <2>2, <2>3
  <2>5. (i + 1) - 1 = i
    BY <2>1
  <2> QED BY <2>1, <2>3, <2>4, <2>5 DEF Closing
<1>7. ASSUME proc, NEW u \in DOMAIN docs, m # Close(u) PROVE Closing(u, 0)'
  <2>1. Closing(u, 0)
    BY <1>7 DEF QuietInv
  <2>2. CASE IsSet(u, timers)
    BY <1>1, <2>2 DEF Closing
  <2>3. ASSUME NEW j \in DOMAIN inbox, j > 0, inbox[j] = Close(u) PROVE Closing(u, 0)'
    <3>1. j # 1
      BY <1>3, <1>7, <2>3
    <3>2. j - 1 \in DOMAIN inbox' /\ j - 1 > 0 /\ inbox'[j - 1] = inbox[j]
      BY <1>3, <1>4, <2>3, <3>1
    <3> QED BY <2>3, <3>2 DEF Closing
  <2> QED BY <2>1, <2>2, <2>3 DEF Closing
<1>8. ASSUME proc, NEW u \in DOMAIN docs' PROVE Closing(u, 0)'
  <2>1. CASE m.method = "initialize" /\ UNCHANGED docs
    BY <1>7, <1>8, <2>1 DEF Close
  <2>2. CASE m.method = "didOpen" /\ DOMAIN docs' = DOMAIN docs \cup {m.uri}
    <3>1. CASE u = m.uri
      <4>1. Closing(m.uri, 1)
        BY <1>3, <1>8, <2>2 DEF QuietInv, Opening
      <4>2. Closing(u, 1 - 1)'
        BY <1>3, <1>5, <3>1, <4>1
      <4> QED BY <4>2
    <3>2. CASE u \in DOMAIN docs
      BY <1>7, <1>8, <2>2, <3>2 DEF Close
    <3> QED BY <1>8, <2>2, <3>1, <3>2
  <2>3. CASE m.method = "didClose" /\ docs' = without(docs, m.uri)
    <3>1. u \in DOMAIN docs /\ u # m.uri
      BY <1>8, <2>3 DEF without
    <3> QED BY <1>7, <1>8, <3>1 DEF Close
  <2> QED BY <2>1, <2>2, <2>3 DEF childReads, m
<1>9. docs' = [ u \in DOMAIN docs' |-> docs'[u] ]
  <2>1. CASE UNCHANGED docs
    BY <2>1 DEF QuietInv
  <2>2. CASE docs' = [ u \in DOMAIN docs \cup {m.uri} |->
                         IF u = m.uri THEN [ text |-> m.text, answers |-> 0 ] ELSE docs[u] ]
    BY <2>2
  <2>3. CASE docs' = without(docs, m.uri)
    BY <2>3 DEF without
  <2> QED BY <2>1, <2>2, <2>3 DEF childReads, m
<1> QED BY <1>1, <1>6, <1>8, <1>9 DEF QuietInv, Opening

(* A block is opened with its timer set.                                   *)
LEMMA BlockKeepsQuiet ==
    ASSUME ForwardInv, QuietInv, NEW c \in Calls, NEW i, nextBlock(c, i),
           UNCHANGED <<proc, alive, docs>>
    PROVE  QuietInv'
<1>1. nextId \in Nat /\ timers \in Seq(Nat)
  BY SeqGrows DEF ForwardInv, CallsInv, Uris
<1>2. CASE diagnoseBlock(c, i)
  <2>1. PICK m : m = Open(nextId, Blocks[c][i])
    OBVIOUS
  <2>2. /\ nextId' = nextId + 1 /\ timers' = Append(timers, nextId)
        /\ inbox' = IF proc /\ alive THEN inbox \o <<m>> ELSE inbox
    BY <1>2, <2>1 DEF diagnoseBlock, send
  <2>3. IsSet(nextId, timers') /\ \A v : IsSet(v, timers) => IsSet(v, timers')
    BY <1>1, <2>2, AppendKeeps
  <2>4. m.uri = nextId
    BY <2>1 DEF Open
  <2> QED BY <1>1, <2>2, <2>3, <2>4, SendKeepsQuiet
<1>3. CASE UNCHANGED <<nextId, timers, inbox>>
  BY <1>3 DEF QuietInv, Opening, Closing, IsSet
<1> QED BY <1>2, <1>3 DEF nextBlock

LEMMA QuietKeeps ==
    ASSUME ForwardInv, QuietInv, [Next]_vars
    PROVE  QuietInv'
<1>1. ASSUME UNCHANGED <<nextId, timers, alive, inbox, docs>>, proc' => proc PROVE QuietInv'
  BY <1>1 DEF QuietInv, Opening, Closing, IsSet
<1>2. CASE start
  <2>1. /\ nextId = 1 /\ nextId' = 2 /\ alive' = TRUE /\ inbox' = <<Initialize>>
        /\ docs' = docs
    BY <1>2 DEF start
  <2>2. docs = <<>> /\ docs' = [ u \in DOMAIN docs' |-> docs'[u] ]
    BY <2>1 DEF QuietInv
  <2>3. DOMAIN docs' = {}
    BY <2>1, <2>2
  <2>4. \A i \in DOMAIN inbox' : inbox'[i].method = "initialize"
    BY <2>1 DEF Initialize
  <2> QED BY <2>1, <2>2, <2>3, <2>4 DEF QuietInv, Opening
<1>3. CASE stop \/ onExit
  BY <1>1, <1>3 DEF stop, onExit, childVars
<1>4. CASE onTimer
  <2>1. PICK m : m = Close(Head(timers))
    OBVIOUS
  <2>2. /\ timers # <<>> /\ timers' = Tail(timers)
        /\ inbox' = IF proc /\ alive THEN inbox \o <<m>> ELSE inbox
        /\ UNCHANGED <<proc, nextId, alive, docs>>
    BY <1>4, <2>1 DEF onTimer, send
  <2>3. timers \in Seq(Nat) /\ nextId \in Nat
    BY SeqGrows DEF ForwardInv, CallsInv, Uris
  <2>4. \A v : IsSet(v, timers) => IsSet(v, timers') \/ m = Close(v)
    BY <2>1, <2>2, <2>3, TailKeeps
  <2>5. m.method = "didClose"
    BY <2>1 DEF Close
  <2> QED BY <2>2, <2>3, <2>4, <2>5, SendKeepsQuiet
<1>5. CASE cut
  BY <1>1, <1>5 DEF cut, childVars
<1>6. ASSUME NEW c \in Calls, diagnose(c) PROVE QuietInv'
  <2>1. UNCHANGED <<proc, alive, docs>> /\ \E i : nextBlock(c, i)
    BY <1>6 DEF diagnose
  <2> QED BY <2>1, BlockKeepsQuiet
<1>7. CASE resume
  <2>1. UNCHANGED <<proc, alive, docs>> /\ woken # <<>> /\ \E i : nextBlock(Head(woken), i)
    BY <1>7 DEF resume
  <2>2. Head(woken) \in Calls
    BY <2>1, HeadTailProperties DEF ForwardInv, CallsInv
  <2> QED BY <2>1, <2>2, BlockKeepsQuiet
<1>8. ASSUME NEW n \in 1..MaxInFlight, NEW split \in BOOLEAN, onData(n, split) PROVE QuietInv'
  BY <1>1, <1>8 DEF onData
<1>9. CASE childReads
  BY <1>9, ReadKeepsQuiet
<1>10. CASE childEnds
  <2>1. /\ alive' = FALSE /\ inbox' = <<>> /\ docs' = <<>> /\ UNCHANGED <<nextId, timers, proc>>
    BY <1>10 DEF childEnds, objectVars
  <2>2. DOMAIN docs' = {} /\ DOMAIN inbox' = {} /\ docs' = [ u \in DOMAIN docs' |-> docs'[u] ]
    BY <2>1
  <2> QED BY <2>1, <2>2 DEF QuietInv
<1>11. ASSUME NEW u \in DOMAIN docs, childPublishes(u) PROVE QuietInv'
  <2>1. /\ UNCHANGED <<nextId, timers, alive, inbox, proc>> /\ alive
        /\ docs' = [ docs EXCEPT ![u].answers = @ + 1 ]
    BY <1>11 DEF childPublishes, objectVars
  <2>2. DOMAIN docs' = DOMAIN docs /\ docs' = [ v \in DOMAIN docs' |-> docs'[v] ]
    BY <2>1
  <2> QED BY <2>1, <2>2 DEF QuietInv, Opening, Closing, IsSet
<1>12. CASE UNCHANGED vars
  BY <1>1, <1>12 DEF vars, objectVars, childVars
<1> QED BY <1>2, <1>3, <1>4, <1>5, <1>6, <1>7, <1>8, <1>9, <1>10, <1>11, <1>12
        DEF Next, Object, Child

LEMMA QuietHolds ==
    ASSUME ForwardInv, QuietInv
    PROVE  QuietProcessHoldsNothing
<1> SUFFICES ASSUME timers = <<>>, inbox = <<>>, proc PROVE docs = <<>>
  BY DEF QuietProcessHoldsNothing
<1>1. \A u : ~ Closing(u, 0)
  BY DEF Closing, IsSet
<1>2. DOMAIN docs = {}
  BY <1>1 DEF QuietInv
<1> QED BY <1>2 DEF QuietInv

(* The process is not left with open documents (ottl-forward.ts:81-101):   *)
(* whatever was answered, late, lost or stopped, once the timers and the   *)
(* inbox are empty it has been told to close every block it was given.     *)
THEOREM QuietAlwaysHoldsNothing == Spec => []QuietProcessHoldsNothing
<1>1. Init => QuietInv
  <2> SUFFICES ASSUME Init PROVE QuietInv
    OBVIOUS
  <2>1. alive = FALSE /\ inbox = <<>> /\ docs = <<>> /\ proc = FALSE
    BY DEF Init
  <2>2. docs = [ u \in DOMAIN docs |-> docs[u] ]
    BY <2>1
  <2> QED BY <2>1, <2>2 DEF QuietInv
<1>2. ForwardInv /\ QuietInv /\ [Next]_vars => QuietInv'
  BY QuietKeeps
<1> QED BY <1>1, <1>2, InvariantHolds, QuietHolds, PTL DEF Spec

-----------------------------------------------------------------------------
(* The stream: what was decoded and is not yet cut, and after it what the  *)
(* process wrote and is not yet read.                                      *)

Plain(o) == Char(IF o.kind = "rest" THEN "body" ELSE o.kind, o.of)
joined(b, o) == b \o decoded(o)
stream == joined(buf, outbox)

(* Each header is followed by its line and by its body, and the last       *)
(* character is of a body: what is cut off is only ever cut off in front.  *)
Framed(s) ==
    /\ \A i \in 1..(Len(s) - 1) :
         /\ s[i].kind = "len" => s[i + 1].kind = "sep" /\ s[i + 1].of = s[i].of
         /\ s[i].kind = "sep" => s[i + 1].kind = "body" /\ s[i + 1].of = s[i].of
    /\ s # <<>> => s[Len(s)].kind = "body"

(* Nothing but whole frames.                                               *)
FromFrame(s) ==
    /\ s # <<>> => s[1].kind = "len"
    /\ \A i \in 1..(Len(s) - 1) : s[i].kind = "body" => s[i + 1].kind = "len"

IsBody(b, i) == i \in DOMAIN b /\ b[i].kind = "body"

(* What was read of an open uri is still in the buffer.                    *)
AsciiInv ==
    ascii =>
      /\ FromFrame(stream)
      /\ \A i \in DOMAIN outbox : outbox[i].kind # "rest"
      /\ \A i : IsBody(buf, i) => buf[i].of.size = 1
      /\ \A u \in arrived \cap DOMAIN pending : \E i : IsBody(buf, i) /\ buf[i].of.uri = u

FramesInv ==
    /\ Framed(stream)
    /\ ~ looping => skips(buf) = {} /\ cuts(buf) = {}
    /\ \A u \in arrived : u < nextId
    /\ AsciiInv

LEMMA DecodedIs ==
    ASSUME NEW o \in Seq(Output)
    PROVE  /\ decoded(o) \in Seq(Chars) /\ Len(decoded(o)) = Len(o)
           /\ \A i \in 1..Len(o) : decoded(o)[i] = Plain(o[i])
<1>1. DOMAIN o = 1..Len(o) /\ Len(o) \in Nat
  BY LenProperties
<1>2. \A i \in 1..Len(o) : o[i] \in Output
  BY ElementOfSeq
<1>3. /\ DOMAIN decoded(o) = 1..Len(o)
      /\ \A i \in 1..Len(o) : decoded(o)[i] = Plain(o[i])
  BY <1>1 DEF decoded, Plain
<1>4. \A i \in 1..Len(o) : decoded(o)[i] \in Chars
  BY <1>2, <1>3 DEF Char, Output, Chars, Plain
<1>5. decoded(o) \in [1..Len(o) -> Chars]
  BY <1>1, <1>3, <1>4 DEF decoded
<1>6. decoded(o) \in Seq(Chars)
  BY <1>1, <1>5, SeqDef
<1>7. Len(decoded(o)) = Len(o)
  BY <1>1, <1>3, <1>6, LenProperties
<1> QED BY <1>3, <1>6, <1>7

LEMMA JoinedIs ==
    ASSUME NEW b \in Seq(Chars), NEW o \in Seq(Output)
    PROVE  /\ joined(b, o) \in Seq(Chars) /\ Len(joined(b, o)) = Len(b) + Len(o)
           /\ Len(b) \in Nat /\ Len(o) \in Nat
           /\ \A i \in 1..Len(b) : joined(b, o)[i] = b[i]
           /\ \A i \in 1..Len(o) : joined(b, o)[Len(b) + i] = Plain(o[i])
<1> DEFINE d == decoded(o)
<1>1. /\ d \in Seq(Chars) /\ Len(d) = Len(o)
      /\ \A i \in 1..Len(o) : d[i] = Plain(o[i])
  BY DecodedIs
<1>2. Len(b) \in Nat /\ Len(o) \in Nat
  BY LenProperties
<1> HIDE DEF d
<1>3. /\ b \o d \in Seq(Chars) /\ Len(b \o d) = Len(b) + Len(d)
      /\ \A i \in 1..(Len(b) + Len(d)) : (b \o d)[i] = IF i <= Len(b) THEN b[i] ELSE d[i - Len(b)]
  <2>1. d \in Seq(Chars)
    BY <1>1
  <2> QED BY <2>1, ConcatProperties
<1>4. \A i \in 1..Len(b) : (b \o d)[i] = b[i]
  BY <1>1, <1>2, <1>3
<1>5. ASSUME NEW i \in 1..Len(o) PROVE (b \o d)[Len(b) + i] = d[i]
  BY <1>1, <1>2, <1>3
<1> QED BY <1>1, <1>2, <1>3, <1>4, <1>5 DEF d, joined

(* What is left when the first k characters are gone.                      *)
LEMMA FramedSuffix ==
    ASSUME NEW s \in Seq(Chars), NEW t \in Seq(Chars), NEW k \in Nat, Framed(s),
           Len(t) = Len(s) - k, \A i \in 1..Len(t) : t[i] = s[i + k]
    PROVE  Framed(t)
<1>1. Len(s) \in Nat /\ Len(t) \in Nat
  BY LenProperties
<1>2. t # <<>> => Len(t) > 0
  BY <1>1, EmptySeq
<1>3. ASSUME t # <<>> PROVE t[Len(t)].kind = "body"
  <2>1. Len(s) > 0 /\ t[Len(t)] = s[Len(s)]
    BY <1>1, <1>2, <1>3
  <2>2. s # <<>>
    BY <2>1
  <2> QED BY <2>1, <2>2 DEF Framed
<1>4. ASSUME NEW i \in 1..(Len(t) - 1)
      PROVE  /\ t[i].kind = "len" => t[i + 1].kind = "sep" /\ t[i + 1].of = t[i].of
             /\ t[i].kind = "sep" => t[i + 1].kind = "body" /\ t[i + 1].of = t[i].of
  <2>1. i + k \in 1..(Len(s) - 1) /\ t[i] = s[i + k] /\ t[i + 1] = s[(i + k) + 1]
    <3>1. i + 1 \in 1..Len(t) /\ i \in 1..Len(t)
      BY <1>1
    <3>2. t[i] = s[i + k] /\ t[i + 1] = s[(i + 1) + k]
      BY <3>1
    <3>3. (i + 1) + k = (i + k) + 1 /\ i + k \in 1..(Len(s) - 1)
      BY <1>1
    <3> QED BY <3>2, <3>3
  <2> QED BY <2>1 DEF Framed
<1> QED BY <1>3, <1>4 DEF Framed

LEMMA FromFrameSuffix ==
    ASSUME NEW s \in Seq(Chars), NEW t \in Seq(Chars), NEW k \in Nat, FromFrame(s),
           Len(t) = Len(s) - k, \A i \in 1..Len(t) : t[i] = s[i + k],
           k + 1 \in 1..Len(s) => s[k + 1].kind = "len"
    PROVE  FromFrame(t)
<1>1. Len(s) \in Nat /\ Len(t) \in Nat
  BY LenProperties
<1>2. t # <<>> => Len(t) > 0
  BY <1>1, EmptySeq
<1>3. ASSUME t # <<>> PROVE t[1].kind = "len"
  BY <1>1, <1>2, <1>3
<1>4. ASSUME NEW i \in 1..(Len(t) - 1) PROVE t[i].kind = "body" => t[i + 1].kind = "len"
  <2>1. i + k \in 1..(Len(s) - 1) /\ t[i] = s[i + k] /\ t[i + 1] = s[(i + k) + 1]
    <3>1. i + 1 \in 1..Len(t) /\ i \in 1..Len(t)
      BY <1>1
    <3>2. t[i] = s[i + k] /\ t[i + 1] = s[(i + 1) + k]
      BY <3>1
    <3>3. (i + 1) + k = (i + k) + 1 /\ i + k \in 1..(Len(s) - 1)
      BY <1>1
    <3> QED BY <3>2, <3>3
  <2> QED BY <2>1 DEF FromFrame
<1> QED BY <1>3, <1>4 DEF FromFrame

(* Steps that neither read nor write: a new uri has no answer yet.         *)
LEMMA ElsewhereKeepsFrames ==
    ASSUME FramesInv, UNCHANGED <<buf, outbox, looping, arrived, ascii>>,
           nextId \in Nat, nextId' \in Nat, nextId <= nextId', arrived \subseteq Nat,
           \A u \in DOMAIN pending' : u \in DOMAIN pending \/ u = nextId
    PROVE  FramesInv'
<1>1. stream' = stream
  BY DEF stream
<1>2. \A u \in arrived' : u < nextId'
  BY DEF FramesInv
<1>3. \A u \in arrived' \cap DOMAIN pending' : u \in arrived \cap DOMAIN pending
  BY DEF FramesInv
<1>4. AsciiInv'
  BY <1>1, <1>3 DEF FramesInv, AsciiInv, IsBody
<1> QED BY <1>1, <1>2, <1>4 DEF FramesInv

(* The process writes a whole frame.                                       *)
LEMMA WriteKeepsFrames ==
    ASSUME FramesInv, buf \in Seq(Chars), outbox \in Seq(Output), NEW m \in Messages, writes(m),
           UNCHANGED <<nextId, pending, buf, looping, arrived, ascii>>
    PROVE  FramesInv'
<1> DEFINE s == stream
           t == stream'
<1>1. /\ Frame(m) \in Seq(Output) /\ Len(Frame(m)) = 3
      /\ Frame(m)[1] = Char("len", m) /\ Frame(m)[2] = Char("sep", m) /\ Frame(m)[3] = Char("body", m)
  <2>1. /\ Char("len", m) \in Output /\ Char("sep", m) \in Output
        /\ Char("body", m) \in Output
    BY DEF Char, Output
  <2> QED BY <2>1 DEF Frame
<1>2. /\ outbox' \in Seq(Output) /\ Len(outbox') = Len(outbox) + 3 /\ Len(outbox) \in Nat
      /\ \A i \in 1..(Len(outbox) + 3) :
           outbox'[i] = IF i <= Len(outbox) THEN outbox[i] ELSE Frame(m)[i - Len(outbox)]
  <2>1. outbox' = outbox \o Frame(m) /\ Frame(m) \in Seq(Output)
    BY <1>1 DEF writes
  <2>2. Len(outbox) \in Nat
    BY LenProperties
  <2>3. /\ outbox \o Frame(m) \in Seq(Output)
        /\ Len(outbox \o Frame(m)) = Len(outbox) + Len(Frame(m))
        /\ \A i \in 1..(Len(outbox) + Len(Frame(m))) :
             (outbox \o Frame(m))[i] = IF i <= Len(outbox) THEN outbox[i] ELSE Frame(m)[i - Len(outbox)]
    BY <2>1, ConcatProperties
  <2> QED BY <1>1, <2>1, <2>2, <2>3
<1>3. /\ \A i \in 1..Len(outbox) : outbox'[i] = outbox[i]
      /\ outbox'[Len(outbox) + 1] = Char("len", m)
      /\ outbox'[Len(outbox) + 2] = Char("sep", m)
      /\ outbox'[Len(outbox) + 3] = Char("body", m)
  <2>1. ASSUME NEW j \in 1..3 PROVE outbox'[Len(outbox) + j] = Frame(m)[j]
    <3>1. Len(outbox) + j \in 1..(Len(outbox) + 3) /\ ~ (Len(outbox) + j <= Len(outbox))
          /\ (Len(outbox) + j) - Len(outbox) = j
      BY <1>2
    <3> QED BY <1>2, <3>1
  <2>2. \A i \in 1..Len(outbox) : outbox'[i] = outbox[i]
    BY <1>2
  <2> QED BY <1>1, <2>1, <2>2
<1>4. /\ s \in Seq(Chars) /\ Len(s) = Len(buf) + Len(outbox) /\ Len(buf) \in Nat
      /\ \A i \in 1..Len(buf) : s[i] = buf[i]
      /\ \A i \in 1..Len(outbox) : s[Len(buf) + i] = Plain(outbox[i])
  BY JoinedIs DEF stream
<1>5. /\ t \in Seq(Chars) /\ Len(t) = Len(buf) + Len(outbox')
      /\ \A i \in 1..Len(buf) : t[i] = buf[i]
      /\ \A i \in 1..Len(outbox') : t[Len(buf) + i] = Plain(outbox'[i])
  BY <1>2, JoinedIs DEF stream
<1> HIDE DEF s, t
<1>6. Len(t) = Len(s) + 3 /\ Len(s) \in Nat
  BY <1>2, <1>4, <1>5
<1>7. ASSUME NEW i \in 1..Len(s) PROVE t[i] = s[i]
  <2>1. CASE i <= Len(buf)
    BY <1>4, <1>5, <2>1
  <2>2. CASE i > Len(buf)
    <3>1. i - Len(buf) \in 1..Len(outbox) /\ i - Len(buf) \in 1..Len(outbox')
          /\ Len(buf) + (i - Len(buf)) = i
      BY <1>2, <1>4, <2>2
    <3> QED BY <1>3, <1>4, <1>5, <3>1
  <2> QED BY <1>4, <2>1, <2>2
<1>8. ASSUME NEW j \in 1..3 PROVE t[Len(s) + j] = Char(Frame(m)[j].kind, m)
  <2>1. Len(outbox) + j \in 1..Len(outbox') /\ Len(buf) + (Len(outbox) + j) = Len(s) + j
    BY <1>2, <1>4
  <2>2. outbox'[Len(outbox) + j] = Frame(m)[j]
    BY <1>1, <1>3
  <2>3. Frame(m)[j].kind # "rest" /\ Frame(m)[j].of = m
    BY <1>1 DEF Char
  <2> QED BY <1>5, <2>1, <2>2, <2>3 DEF Plain
<1>9. /\ t[Len(s) + 1].kind = "len" /\ t[Len(s) + 2].kind = "sep" /\ t[Len(s) + 3].kind = "body"
      /\ \A j \in 1..3 : t[Len(s) + j].of = m
  BY <1>1, <1>8 DEF Char
<1>10. s # <<>> <=> Len(s) > 0
  BY <1>4, <1>6, EmptySeq
<1>11. Framed(s)
  BY DEF FramesInv, s
<1>12. ASSUME NEW i \in 1..(Len(t) - 1)
       PROVE  \/ i \in 1..(Len(s) - 1) /\ t[i] = s[i] /\ t[i + 1] = s[i + 1]
              \/ i = Len(s) /\ Len(s) > 0 /\ t[i] = s[i]
              \/ i = Len(s) + 1 \/ i = Len(s) + 2
  BY <1>6, <1>7
<1>13. Framed(t)
  <2>1. t[Len(t)].kind = "body"
    BY <1>6, <1>9
  <2>2. ASSUME NEW i \in 1..(Len(t) - 1)
        PROVE  /\ t[i].kind = "len" => t[i + 1].kind = "sep" /\ t[i + 1].of = t[i].of
               /\ t[i].kind = "sep" => t[i + 1].kind = "body" /\ t[i + 1].of = t[i].of
    <3>1. CASE i \in 1..(Len(s) - 1) /\ t[i] = s[i] /\ t[i + 1] = s[i + 1]
      BY <1>11, <3>1 DEF Framed
    <3>2. CASE i = Len(s) /\ Len(s) > 0 /\ t[i] = s[i]
      BY <1>10, <1>11, <3>2 DEF Framed
    <3>3. CASE i = Len(s) + 1
      <4>1. i + 1 = Len(s) + 2
        BY <1>6, <3>3
      <4> QED BY <1>9, <3>3, <4>1
    <3>4. CASE i = Len(s) + 2
      <4>1. i + 1 = Len(s) + 3
        BY <1>6, <3>4
      <4> QED BY <1>9, <3>4, <4>1
    <3> QED BY <1>12, <3>1, <3>2, <3>3, <3>4
  <2> QED BY <2>1, <2>2 DEF Framed
<1>14. ASSUME ascii PROVE FromFrame(t)
  <2>1. FromFrame(s)
    BY <1>14 DEF FramesInv, AsciiInv, s
  <2>2. t[1].kind = "len"
    <3>1. CASE Len(s) = 0
      BY <1>9, <3>1
    <3>2. CASE Len(s) > 0
      <4>1. 1 \in 1..Len(s) /\ s # <<>>
        BY <1>6, <1>10, <3>2
      <4> QED BY <1>7, <2>1, <4>1 DEF FromFrame
    <3> QED BY <1>6, <3>1, <3>2
  <2>3. ASSUME NEW i \in 1..(Len(t) - 1), t[i].kind = "body" PROVE t[i + 1].kind = "len"
    <3>1. CASE i \in 1..(Len(s) - 1) /\ t[i] = s[i] /\ t[i + 1] = s[i + 1]
      BY <2>1, <2>3, <3>1 DEF FromFrame
    <3>2. CASE i = Len(s)
      BY <1>9, <3>2
    <3>3. CASE i = Len(s) + 1 \/ i = Len(s) + 2
      BY <1>9, <2>3, <3>3
    <3> QED BY <1>12, <3>1, <3>2, <3>3
  <2> QED BY <2>2, <2>3 DEF FromFrame
<1>15. ASSUME ascii, NEW i \in DOMAIN outbox' PROVE outbox'[i].kind # "rest"
  <2>1. i \in 1..(Len(outbox) + 3)
    BY <1>2, LenProperties
  <2>2. CASE i \in 1..Len(outbox)
    <3>1. i \in DOMAIN outbox
      BY <2>2, LenProperties
    <3> QED BY <1>3, <1>15, <2>2, <3>1 DEF FramesInv, AsciiInv
  <2>3. CASE i \in (Len(outbox) + 1)..(Len(outbox) + 3)
    <3>1. i = Len(outbox) + 1 \/ i = Len(outbox) + 2 \/ i = Len(outbox) + 3
      BY <1>2, <2>3
    <3> QED BY <1>3, <3>1 DEF Char
  <2> QED BY <1>2, <2>1, <2>2, <2>3
<1>16. AsciiInv'
  BY <1>14, <1>15 DEF AsciiInv, FramesInv, IsBody, t
<1> QED BY <1>13, <1>16 DEF FramesInv, t

(* A chunk arrives: its characters move from one part of the stream to the *)
(* other, and the last is doubled if it is cut.                            *)
LEMMA ChunkKeepsFrames ==
    ASSUME ForwardInv, FramesInv, buf \in Seq(Chars), outbox \in Seq(Output),
           NEW n \in Nat, n > 0, NEW split \in BOOLEAN, onData(n, split)
    PROVE  FramesInv'
<1> DEFINE chunk == SubSeq(outbox, 1, n)
           left == SubSeq(outbox, n + 1, Len(outbox))
           rest == Char("rest", outbox[n].of)
           k == Len(buf) + n
           s == stream
           t == stream'
<1>1. /\ n <= Len(outbox) /\ buf' = joined(buf, chunk) /\ looping' = TRUE
      /\ split => outbox[n].kind = "body" /\ outbox[n].of.size > 1
      /\ outbox' = IF split THEN <<rest>> \o left ELSE left
      /\ arrived' = arrived \cup { outbox[i].of.uri : i \in { j \in 1..n :
                        outbox[j].kind \in {"body", "rest"} /\ ~(split /\ j = n) } }
      /\ ascii' = (ascii /\ \A i \in 1..n : outbox[i].kind = "body" => outbox[i].of.size = 1)
      /\ UNCHANGED <<nextId, pending>>
  BY DEF onData, received, joined
<1>2. /\ Len(outbox) \in Nat /\ Len(buf) \in Nat /\ DOMAIN outbox = 1..Len(outbox)
      /\ \A i \in 1..Len(outbox) : outbox[i] \in Output
  BY ElementOfSeq, LenProperties
<1>3. /\ chunk \in Seq(Output) /\ Len(chunk) = n /\ \A i \in 1..n : chunk[i] = outbox[i]
  <2>1. \A i \in 1..n : outbox[i] \in Output
    BY <1>1, <1>2
  <2>2. /\ chunk \in Seq(Output) /\ Len(chunk) = IF 1 <= n THEN n - 1 + 1 ELSE 0
        /\ \A i \in 1..(n - 1 + 1) : chunk[i] = outbox[1 + i - 1]
    BY <2>1, SubSeqProperties
  <2> QED BY <2>2
<1>4. /\ left \in Seq(Output) /\ Len(left) = Len(outbox) - n
      /\ \A i \in 1..(Len(outbox) - n) : left[i] = outbox[n + i]
  <2>1. \A i \in (n + 1)..Len(outbox) : outbox[i] \in Output
    BY <1>1, <1>2
  <2>2. /\ left \in Seq(Output)
        /\ Len(left) = IF n + 1 <= Len(outbox) THEN Len(outbox) - (n + 1) + 1 ELSE 0
        /\ \A i \in 1..(Len(outbox) - (n + 1) + 1) : left[i] = outbox[n + 1 + i - 1]
    BY <1>2, <2>1, SubSeqProperties
  <2>3. Len(left) = Len(outbox) - n
    <3>1. CASE n + 1 <= Len(outbox)
      BY <1>2, <2>2, <3>1
    <3>2. CASE ~ (n + 1 <= Len(outbox))
      <4>1. n = Len(outbox)
        <5>1. n <= Len(outbox) /\ Len(outbox) \in Nat
          BY <1>1, <1>2
        <5> QED BY <3>2, <5>1
      <4> QED BY <1>2, <2>2, <4>1
    <3> QED BY <3>1, <3>2
  <2>4. ASSUME NEW i \in 1..(Len(outbox) - n) PROVE left[i] = outbox[n + i]
    <3>1. i \in 1..(Len(outbox) - (n + 1) + 1) /\ n + 1 + i - 1 = n + i
      BY <1>2
    <3> QED BY <2>2, <3>1
  <2> QED BY <2>2, <2>3, <2>4
<1> HIDE DEF chunk, left
<1>5. /\ buf' \in Seq(Chars) /\ Len(buf') = k
      /\ \A i \in 1..Len(buf) : buf'[i] = buf[i]
      /\ \A i \in 1..n : buf'[Len(buf) + i] = Plain(outbox[i])
  <2>1. /\ joined(buf, chunk) \in Seq(Chars) /\ Len(joined(buf, chunk)) = Len(buf) + Len(chunk)
        /\ \A i \in 1..Len(buf) : joined(buf, chunk)[i] = buf[i]
        /\ \A i \in 1..Len(chunk) : joined(buf, chunk)[Len(buf) + i] = Plain(chunk[i])
    BY <1>3, JoinedIs
  <2>2. \A i \in 1..n : Plain(chunk[i]) = Plain(outbox[i])
    BY <1>3
  <2> QED BY <1>1, <1>3, <2>1, <2>2
<1>6. /\ s \in Seq(Chars) /\ Len(s) = Len(buf) + Len(outbox)
      /\ \A i \in 1..Len(buf) : s[i] = buf[i]
      /\ \A i \in 1..Len(outbox) : s[Len(buf) + i] = Plain(outbox[i])
  BY JoinedIs DEF stream
<1>7. /\ \A i \in 1..k : buf'[i] = s[i]
      /\ \A i \in 1..(Len(outbox) - n) : s[k + i] = Plain(left[i])
  <2>1. ASSUME NEW i \in 1..k PROVE buf'[i] = s[i]
    <3>1. CASE i <= Len(buf)
      BY <1>2, <1>5, <1>6, <3>1
    <3>2. CASE i > Len(buf)
      <4>1. /\ i - Len(buf) \in 1..n /\ i - Len(buf) \in 1..Len(outbox)
            /\ Len(buf) + (i - Len(buf)) = i
        <5>1. n <= Len(outbox) /\ Len(outbox) \in Nat
          BY <1>1, <1>2
        <5> QED BY <3>2, <5>1
      <4> QED BY <1>5, <1>6, <4>1
    <3> QED BY <1>2, <3>1, <3>2
  <2>2. ASSUME NEW i \in 1..(Len(outbox) - n) PROVE s[k + i] = Plain(left[i])
    <3>1. n + i \in 1..Len(outbox) /\ k + i = Len(buf) + (n + i)
      BY <1>2
    <3> QED BY <1>4, <1>6, <3>1
  <2> QED BY <2>1, <2>2
<1>8. k \in Nat /\ k <= Len(s) /\ k > 0 /\ Len(s) \in Nat
  BY <1>1, <1>2, <1>6
<1> HIDE DEF k, s
<1>9. ASSUME ~ split PROVE t = s
  <2>1. outbox' = left
    BY <1>1, <1>9
  <2>2. /\ t \in Seq(Chars) /\ Len(t) = k + (Len(outbox) - n)
        /\ \A i \in 1..k : t[i] = buf'[i]
        /\ \A i \in 1..(Len(outbox) - n) : t[k + i] = Plain(left[i])
    <3>1. /\ joined(buf', left) \in Seq(Chars) /\ Len(joined(buf', left)) = Len(buf') + Len(left)
          /\ \A i \in 1..Len(buf') : joined(buf', left)[i] = buf'[i]
          /\ \A i \in 1..Len(left) : joined(buf', left)[Len(buf') + i] = Plain(left[i])
      BY <1>4, <1>5, JoinedIs
    <3>2. t = joined(buf', left)
      BY <2>1 DEF stream
    <3> QED BY <1>4, <1>5, <3>1, <3>2
  <2> HIDE DEF t
  <2>3. Len(t) = Len(s)
    BY <1>1, <1>2, <1>6, <2>2 DEF k
  <2>4. ASSUME NEW i \in 1..Len(t) PROVE t[i] = s[i]
    <3>1. CASE i <= k
      <4>1. i \in 1..k
        BY <1>8, <2>2, <3>1
      <4> QED BY <1>7, <2>2, <4>1
    <3>2. CASE i > k
      <4>1. i - k \in 1..(Len(outbox) - n) /\ k + (i - k) = i
        BY <1>2, <1>8, <2>2, <3>2
      <4> QED BY <1>7, <2>2, <4>1
    <3> QED BY <1>8, <2>3, <3>1, <3>2
  <2> QED BY <1>6, <2>2, <2>3, <2>4, SeqEqual
<1>10. ASSUME split PROVE Framed(t)
  <2>1. rest \in Output /\ Plain(rest) = Char("body", outbox[n].of)
    BY <1>1, <1>2 DEF Output, Char, Plain
  <2>2. <<rest>> \in Seq(Output) /\ Len(<<rest>>) = 1 /\ <<rest>>[1] = rest
    BY <2>1
  <2> HIDE DEF rest
  <2>3. /\ outbox' \in Seq(Output) /\ Len(outbox') = 1 + Len(left)
        /\ \A i \in 1..(1 + Len(left)) : outbox'[i] = IF i <= 1 THEN <<rest>>[i] ELSE left[i - 1]
    <3>1. outbox' = <<rest>> \o left
      BY <1>1, <1>10
    <3>2. /\ <<rest>> \o left \in Seq(Output) /\ Len(<<rest>> \o left) = Len(<<rest>>) + Len(left)
          /\ \A i \in 1..(Len(<<rest>>) + Len(left)) : (<<rest>> \o left)[i] =
                IF i <= Len(<<rest>>) THEN <<rest>>[i] ELSE left[i - Len(<<rest>>)]
      BY <1>4, <2>2, ConcatProperties
    <3> QED BY <2>2, <3>1, <3>2
  <2>4. /\ Len(t) = k + Len(outbox')
        /\ \A i \in 1..k : t[i] = buf'[i]
        /\ \A i \in 1..Len(outbox') : t[k + i] = Plain(outbox'[i])
    BY <1>5, <2>3, JoinedIs DEF stream
  <2> HIDE DEF t
  <2>5. /\ Len(t) = Len(s) + 1 /\ \A i \in 1..k : t[i] = s[i]
    <3>1. Len(t) = Len(s) + 1
      BY <1>1, <1>2, <1>4, <1>6, <2>3, <2>4 DEF k
    <3> QED BY <1>7, <2>4, <3>1
  <2>6. t[k + 1].kind = "body"
    <3>1. 1 \in 1..Len(outbox') /\ outbox'[1] = rest
      BY <1>1, <1>2, <1>4, <2>2, <2>3
    <3> QED BY <2>1, <2>4, <3>1 DEF Char, Plain
  <2>7. ASSUME NEW i \in (k + 1)..Len(s) PROVE t[i + 1] = s[i]
    <3>1. /\ i - k \in 1..(Len(outbox) - n) /\ k + (i - k) = i
          /\ (i - k) + 1 \in 1..Len(outbox') /\ k + ((i - k) + 1) = i + 1
          /\ ~ ((i - k) + 1 <= 1) /\ ((i - k) + 1) - 1 = i - k
      BY <1>1, <1>2, <1>4, <1>6, <1>8, <2>3 DEF k
    <3>2. PICK j : j = (i - k) + 1
      OBVIOUS
    <3>3. j \in 1..(1 + Len(left)) /\ ~ (j <= 1) /\ j - 1 = i - k
      BY <2>3, <3>1, <3>2
    <3>4. outbox'[j] = left[i - k]
      BY <2>3, <3>3
    <3>5. t[i + 1] = Plain(outbox'[j])
      BY <2>4, <3>1, <3>2
    <3>6. s[i] = Plain(left[i - k])
      BY <1>7, <3>1
    <3> QED BY <3>4, <3>5, <3>6
  <2>8. t[k].kind = "body"
    <3>1. n \in 1..Len(outbox) /\ s[k] = Plain(outbox[n])
      BY <1>1, <1>2, <1>6 DEF k
    <3>2. k \in 1..k
      BY <1>8
    <3> QED BY <1>1, <1>10, <2>5, <3>1, <3>2 DEF Char, Plain
  <2>9. Framed(s)
    BY DEF FramesInv, s
  <2>10. t[Len(t)].kind = "body"
    <3>1. CASE Len(s) = k
      BY <2>5, <2>6, <3>1
    <3>2. CASE Len(s) # k
      <4>1. Len(s) \in (k + 1)..Len(s) /\ s # <<>>
        BY <1>8, <3>2
      <4> QED BY <2>5, <2>7, <2>9, <4>1 DEF Framed
    <3> QED BY <3>1, <3>2
  <2>11. ASSUME NEW i \in 1..(Len(t) - 1)
         PROVE  /\ t[i].kind = "len" => t[i + 1].kind = "sep" /\ t[i + 1].of = t[i].of
                /\ t[i].kind = "sep" => t[i + 1].kind = "body" /\ t[i + 1].of = t[i].of
    <3>1. CASE i < k
      <4>1. i \in 1..k /\ i + 1 \in 1..k /\ i \in 1..(Len(s) - 1)
        BY <1>8, <3>1
      <4> QED BY <2>5, <2>9, <4>1 DEF Framed
    <3>2. CASE i = k \/ i = k + 1
      BY <2>6, <2>8, <3>2
    <3>3. CASE i > k + 1
      <4>1. /\ i - 1 \in (k + 1)..Len(s) /\ i \in (k + 1)..Len(s) /\ i - 1 \in 1..(Len(s) - 1)
            /\ (i - 1) + 1 = i
        BY <1>8, <2>5, <3>3
      <4>2. t[i] = s[i - 1] /\ t[i + 1] = s[i]
        <5>1. t[(i - 1) + 1] = s[i - 1]
          BY <2>7, <4>1
        <5> QED BY <2>7, <4>1, <5>1
      <4> QED BY <2>9, <4>1, <4>2 DEF Framed
    <3> QED BY <1>8, <3>1, <3>2, <3>3
  <2> QED BY <2>10, <2>11 DEF Framed
<1>11. Framed(t)
  BY <1>9, <1>10 DEF FramesInv, s
<1>12. \A u \in arrived' : u < nextId'
  <2>1. \A i \in 1..n : outbox[i].of.uri < nextId
    <3>1. \A i \in 1..Len(outbox) : outbox[i] \in OwnOutput
      BY ElementOfSeq DEF ForwardInv, DataInv
    <3> QED BY <1>1, <1>2, <3>1 DEF OwnOutput, OwnMessages, Speaks
  <2> QED BY <1>1, <2>1 DEF FramesInv
<1>13. ASSUME ascii' PROVE ascii /\ ~ split
  <2>1. ascii /\ \A i \in 1..n : outbox[i].kind = "body" => outbox[i].of.size = 1
    BY <1>1, <1>13
  <2>2. n \in 1..n
    OBVIOUS
  <2>3. CASE split
    BY <1>1, <2>1, <2>2, <2>3
  <2> QED BY <2>1, <2>3
<1>14. ASSUME ascii', NEW i, IsBody(buf, i)' PROVE (buf[i].of.size = 1)'
  <2>1. i \in 1..k /\ buf'[i].kind = "body"
    BY <1>5, <1>14, LenProperties DEF IsBody
  <2>2. CASE i <= Len(buf)
    <3>1. i \in DOMAIN buf /\ buf'[i] = buf[i]
      BY <1>2, <1>5, <1>8, <2>1, <2>2, LenProperties
    <3> QED BY <1>13, <1>14, <2>1, <3>1 DEF FramesInv, AsciiInv, IsBody
  <2>3. CASE i > Len(buf)
    <3>1. i - Len(buf) \in 1..n /\ Len(buf) + (i - Len(buf)) = i
      BY <1>2, <2>1, <2>3 DEF k
    <3>2. buf'[i] = Plain(outbox[i - Len(buf)])
      BY <1>5, <3>1
    <3>3. outbox[i - Len(buf)].kind # "rest"
      BY <1>1, <1>2, <1>13, <1>14, <3>1 DEF FramesInv, AsciiInv
    <3>4. outbox[i - Len(buf)].kind = "body"
      BY <2>1, <3>2, <3>3 DEF Char, Plain
    <3>5. outbox[i - Len(buf)].of.size = 1
      BY <1>1, <1>14, <3>1, <3>4
    <3>6. Plain(outbox[i - Len(buf)]).of = outbox[i - Len(buf)].of
      BY DEF Char, Plain
    <3> QED BY <3>2, <3>5, <3>6
  <2> QED BY <1>2, <1>8, <2>1, <2>2, <2>3
<1>15. ASSUME ascii', NEW i \in DOMAIN outbox' PROVE outbox'[i].kind # "rest"
  <2>1. outbox' = left
    BY <1>1, <1>13, <1>15
  <2>2. i \in 1..(Len(outbox) - n) /\ outbox'[i] = outbox[n + i]
    BY <1>4, <1>15, <2>1, LenProperties
  <2>3. n + i \in DOMAIN outbox
    BY <1>2, <2>2
  <2> QED BY <1>13, <1>15, <2>2, <2>3 DEF FramesInv, AsciiInv
<1>16. ASSUME ascii', NEW u \in arrived' \cap DOMAIN pending'
       PROVE  \E i : IsBody(buf, i)' /\ (buf[i].of.uri = u)'
  <2>1. DOMAIN buf' = 1..k /\ DOMAIN buf = 1..Len(buf)
    BY <1>5, LenProperties
  <2>2. CASE u \in arrived
    <3>1. PICK i : IsBody(buf, i) /\ buf[i].of.uri = u
      BY <1>1, <1>13, <1>16, <2>2 DEF FramesInv, AsciiInv
    <3>2. i \in 1..Len(buf) /\ i \in 1..k
      BY <1>2, <2>1, <3>1 DEF IsBody, k
    <3>3. buf'[i] = buf[i]
      BY <1>5, <3>2
    <3> QED BY <2>1, <3>1, <3>2, <3>3 DEF IsBody
  <2>3. CASE u \notin arrived
    <3>1. PICK j \in 1..n : outbox[j].kind \in {"body", "rest"} /\ u = outbox[j].of.uri
      BY <1>1, <1>16, <2>3
    <3>2. Len(buf) + j \in 1..k /\ buf'[Len(buf) + j] = Plain(outbox[j])
      BY <1>2, <1>5 DEF k
    <3>3. Plain(outbox[j]).kind = "body" /\ Plain(outbox[j]).of = outbox[j].of
      BY <3>1 DEF Char, Plain
    <3> QED BY <2>1, <3>1, <3>2, <3>3 DEF IsBody
  <2> QED BY <2>2, <2>3
<1>17. ASSUME ascii' PROVE FromFrame(t)
  BY <1>9, <1>13, <1>17 DEF FramesInv, AsciiInv, s
<1>18. AsciiInv'
  BY <1>14, <1>15, <1>16, <1>17 DEF AsciiInv
<1> QED BY <1>1, <1>11, <1>12, <1>18 DEF FramesInv

(* While all was ASCII, the buffer begins with a frame.                    *)
LEMMA BufferStarts ==
    ASSUME buf \in Seq(Chars), outbox \in Seq(Output), FramesInv, ascii
    PROVE  /\ Len(buf) \in Nat /\ DOMAIN buf = 1..Len(buf)
           /\ Len(buf) >= 1 => buf[1].kind = "len"
           /\ Len(buf) >= 2 => buf[2].kind = "sep"
           /\ Len(buf) >= 3 => buf[3].kind = "body" /\ buf[3].of = buf[1].of /\ buf[1].of.size = 1
<1>1. Len(buf) \in Nat /\ DOMAIN buf = 1..Len(buf)
  BY LenProperties
<1>2. /\ stream \in Seq(Chars) /\ Len(stream) = Len(buf) + Len(outbox) /\ Len(outbox) \in Nat
      /\ \A i \in 1..Len(buf) : stream[i] = buf[i]
  BY JoinedIs DEF stream
<1>3. Framed(stream) /\ FromFrame(stream)
  BY DEF FramesInv, AsciiInv
<1>4. ASSUME Len(buf) >= 1 PROVE buf[1].kind = "len"
  <2>1. 1 \in 1..Len(buf) /\ stream # <<>>
    BY <1>1, <1>2, <1>4, EmptySeq
  <2> QED BY <1>2, <1>3, <2>1 DEF FromFrame
<1>5. ASSUME Len(buf) >= 2 PROVE buf[2].kind = "sep" /\ buf[2].of = buf[1].of
  <2>1. /\ 1 \in 1..Len(buf) /\ 2 \in 1..Len(buf) /\ 1 \in 1..(Len(stream) - 1) /\ 1 + 1 = 2
        /\ Len(buf) >= 1
    BY <1>1, <1>2, <1>5
  <2>2. stream[1].kind = "len" => stream[1 + 1].kind = "sep" /\ stream[1 + 1].of = stream[1].of
    BY <1>3, <2>1 DEF Framed
  <2> QED BY <1>2, <1>4, <2>1, <2>2
<1>6. ASSUME Len(buf) >= 3 PROVE buf[3].kind = "body" /\ buf[3].of = buf[1].of /\ buf[1].of.size = 1
  <2>1. /\ 2 \in 1..Len(buf) /\ 3 \in 1..Len(buf) /\ 2 \in 1..(Len(stream) - 1) /\ 2 + 1 = 3
        /\ Len(buf) >= 2
    BY <1>1, <1>2, <1>6
  <2>2. stream[2].kind = "sep" => stream[2 + 1].kind = "body" /\ stream[2 + 1].of = stream[2].of
    BY <1>3, <2>1 DEF Framed
  <2>3. buf[3].kind = "body" /\ buf[3].of = buf[1].of
    BY <1>2, <1>5, <2>1, <2>2
  <2>4. buf[3].of.size = 1
    BY <1>1, <2>1, <2>3 DEF FramesInv, AsciiInv, IsBody
  <2> QED BY <2>3, <2>4
<1> QED BY <1>1, <1>4, <1>5, <1>6

(* The loop drops what it read, in front.                                  *)
LEMMA DropKeepsFrames ==
    ASSUME buf \in Seq(Chars), outbox \in Seq(Output), FramesInv,
           NEW k \in Nat, k <= Len(buf), buf' = SubSeq(buf, k + 1, Len(buf)),
           UNCHANGED outbox
    PROVE  /\ DOMAIN buf' = 1..(Len(buf) - k)
           /\ \A i \in 1..(Len(buf) - k) : buf'[i] = buf[i + k]
           /\ Framed(stream')
           /\ FromFrame(stream) /\ (k + 1 \in 1..Len(stream) => stream[k + 1].kind = "len")
                => FromFrame(stream')
<1>1. Len(buf) \in Nat /\ \A i \in (k + 1)..Len(buf) : buf[i] \in Chars
  BY ElementOfSeq, LenProperties
<1>2. /\ buf' \in Seq(Chars)
      /\ Len(buf') = IF k + 1 <= Len(buf) THEN Len(buf) - (k + 1) + 1 ELSE 0
      /\ \A i \in 1..(Len(buf) - (k + 1) + 1) : buf'[i] = buf[k + 1 + i - 1]
  BY <1>1, SubSeqProperties
<1>3. Len(buf') = Len(buf) - k
  <2>1. CASE k + 1 <= Len(buf)
    BY <1>1, <1>2, <2>1
  <2>2. CASE ~ (k + 1 <= Len(buf))
    <3>1. k = Len(buf)
      BY <1>1, <2>2
    <3> QED BY <1>1, <1>2, <3>1
  <2> QED BY <2>1, <2>2
<1>4. ASSUME NEW i \in 1..(Len(buf) - k) PROVE buf'[i] = buf[i + k]
  <2>1. i \in 1..(Len(buf) - (k + 1) + 1) /\ k + 1 + i - 1 = i + k
    BY <1>1
  <2> QED BY <1>2, <2>1
<1>5. /\ stream \in Seq(Chars) /\ Len(stream) = Len(buf) + Len(outbox) /\ Len(outbox) \in Nat
      /\ \A i \in 1..Len(buf) : stream[i] = buf[i]
      /\ \A i \in 1..Len(outbox) : stream[Len(buf) + i] = Plain(outbox[i])
  BY JoinedIs DEF stream
<1>6. /\ stream' \in Seq(Chars) /\ Len(stream') = Len(buf') + Len(outbox)
      /\ \A i \in 1..Len(buf') : stream'[i] = buf'[i]
      /\ \A i \in 1..Len(outbox) : stream'[Len(buf') + i] = Plain(outbox[i])
  <2>1. stream' = joined(buf', outbox)
    BY DEF stream
  <2> QED BY <1>2, <2>1, JoinedIs
<1>7. Len(stream') = Len(stream) - k
  BY <1>1, <1>3, <1>5, <1>6
<1>8. ASSUME NEW i \in 1..Len(stream') PROVE stream'[i] = stream[i + k]
  <2>1. CASE i <= Len(buf')
    <3>1. i \in 1..Len(buf') /\ i \in 1..(Len(buf) - k) /\ i + k \in 1..Len(buf)
      BY <1>1, <1>3, <1>6, <2>1
    <3> QED BY <1>4, <1>5, <1>6, <3>1
  <2>2. CASE i > Len(buf')
    <3>1. PICK n, o : n = Len(buf') /\ o = Len(outbox)
      OBVIOUS
    <3>2. n \in Nat /\ o \in Nat /\ Len(buf) = n + k
      BY <1>1, <1>3, <1>5, <3>1
    <3>3. i \in Nat /\ i > n /\ i <= n + o
      BY <1>6, <2>2, <3>1, <3>2
    <3>4. i - n \in 1..o /\ n + (i - n) = i /\ (n + k) + (i - n) = i + k
      BY <3>2, <3>3
    <3>5. stream'[n + (i - n)] = Plain(outbox[i - n]) /\ stream[Len(buf) + (i - n)] = Plain(outbox[i - n])
      BY <1>5, <1>6, <3>1, <3>4
    <3> QED BY <3>2, <3>4, <3>5
  <2> QED BY <1>1, <1>3, <1>6, <2>1, <2>2
<1>9. Framed(stream')
  BY <1>5, <1>6, <1>7, <1>8, FramedSuffix DEF FramesInv
<1>10. FromFrame(stream) /\ (k + 1 \in 1..Len(stream) => stream[k + 1].kind = "len")
         => FromFrame(stream')
  BY <1>5, <1>6, <1>7, <1>8, FromFrameSuffix
<1> QED BY <1>2, <1>3, <1>4, <1>9, <1>10, LenProperties

(* A turn of the loop: as long as all was ASCII, it cuts one whole frame   *)
(* and settles its uri.                                                    *)
LEMMA CutKeepsFrames ==
    ASSUME buf \in Seq(Chars), outbox \in Seq(Output), FramesInv, cut
    PROVE  FramesInv'
<1>1. looping /\ UNCHANGED <<nextId, outbox, arrived, ascii>>
  BY DEF cut, childVars, histVars
<1>2. Len(buf) \in Nat /\ DOMAIN buf = 1..Len(buf) /\ \A i \in 1..Len(buf) : buf[i] \in Chars
  BY ElementOfSeq, LenProperties
<1>3. \A u \in arrived' : u < nextId'
  BY <1>1 DEF FramesInv
<1>4. CASE /\ skips(buf) = {} /\ cuts(buf) = {} /\ looping' = FALSE
           /\ UNCHANGED <<buf, pending>>
  <2>1. stream' = stream
    BY <1>1, <1>4 DEF stream
  <2>2. AsciiInv'
    BY <1>1, <1>4, <2>1 DEF FramesInv, AsciiInv, IsBody
  <2>3. skips(buf') = {} /\ cuts(buf') = {}
    BY <1>4
  <2> QED BY <1>3, <2>1, <2>2, <2>3 DEF FramesInv
<1>5. ASSUME NEW h \in skips(buf), buf' = SubSeq(buf, h + 1, Len(buf)), UNCHANGED <<looping, pending>>
      PROVE  FramesInv'
  <2>1. h \in 1..Len(buf) /\ buf[h].kind = "sep" /\ lengths(buf, h) = {}
    BY <1>2, <1>5 DEF skips, headerEnds
  <2>2. Framed(stream')
    BY <1>1, <1>2, <1>5, <2>1, DropKeepsFrames
  <2>3. ASSUME ascii PROVE FALSE
    <3>1. buf[1].kind = "len"
      BY <1>2, <2>1, <2>3, BufferStarts
    <3>2. 1 \in 1..(h - 1)
      BY <2>1, <3>1
    <3>3. 1 \in lengths(buf, h)
      BY <3>1, <3>2 DEF lengths
    <3> QED BY <2>1, <3>3
  <2>4. AsciiInv'
    BY <1>1, <2>3 DEF AsciiInv
  <2> QED BY <1>1, <1>3, <1>5, <2>2, <2>4 DEF FramesInv
<1>6. ASSUME NEW c \in cuts(buf), buf' = SubSeq(buf, c[2] + 1, Len(buf)),
             onMessage(SubSeq(buf, c[1] + 1, c[2])), UNCHANGED looping
      PROVE  FramesInv'
  <2> DEFINE h == c[1]
             k == c[2]
             uri == buf[3].of.uri
  <2>1. PICK e \in headerEnds(buf) : c \in { <<e, total>> : total \in { n \in totals(buf, e) : n <= Len(buf) } }
    BY <1>6 DEF cuts
  <2>2. h \in headerEnds(buf) /\ k \in totals(buf, h) /\ k <= Len(buf)
    BY <2>1
  <2>3. h \in 1..Len(buf) /\ buf[h].kind = "sep" /\ \A j \in 1..(h - 1) : buf[j].kind # "sep"
    BY <1>2, <2>2 DEF headerEnds
  <2>4. PICK i \in 1..(h - 1) : /\ k = h + buf[i].of.size /\ buf[i].kind = "len"
                                /\ \A j \in 1..(i - 1) : buf[j].kind # "len"
    BY <2>2 DEF totals, lengths
  <2>5. i \in 1..Len(buf) /\ buf[i].of.size \in Nat \ {0}
    <3>1. i \in 1..Len(buf)
      BY <1>2, <2>3
    <3> QED BY <1>2, <3>1 DEF Chars, Messages
  <2>6. k \in Nat /\ k <= Len(buf)
    BY <2>2, <2>3, <2>4, <2>5
  <2>7. /\ DOMAIN buf' = 1..(Len(buf) - k)
        /\ \A j \in 1..(Len(buf) - k) : buf'[j] = buf[j + k]
        /\ Framed(stream')
        /\ FromFrame(stream) /\ (k + 1 \in 1..Len(stream) => stream[k + 1].kind = "len")
             => FromFrame(stream')
    <3> HIDE DEF k
    <3> QED BY <1>1, <1>6, <2>6, DropKeepsFrames DEF k
  <2>8. DOMAIN pending' \subseteq DOMAIN pending
    BY <1>6 DEF onMessage, settle, without
  <2>9. ASSUME ascii
        PROVE  /\ h = 2 /\ k = 3 /\ Len(buf) >= 3
               /\ buf[3].kind = "body" /\ buf[1].kind = "len" /\ buf[2].kind = "sep"
    <3>1. buf[1].kind = "len" /\ h >= 2
      <4>1. buf[1].kind = "len"
        BY <1>2, <2>3, <2>9, BufferStarts
      <4> QED BY <2>3, <4>1
    <3>2. Len(buf) >= 2 /\ buf[2].kind = "sep"
      BY <1>2, <2>3, <2>9, <3>1, BufferStarts
    <3>3. h = 2
      BY <2>3, <3>1, <3>2
    <3>4. i = 1
      BY <2>4, <3>3
    <3>5. Len(buf) >= 3
      BY <1>2, <2>4, <2>5, <2>6, <3>3, <3>4
    <3>6. buf[3].kind = "body" /\ buf[1].of.size = 1
      BY <2>9, <3>5, BufferStarts
    <3> QED BY <2>4, <3>1, <3>2, <3>3, <3>4, <3>5, <3>6
  <2>10. ASSUME ascii PROVE uri \notin DOMAIN pending'
    <3> DEFINE body == SubSeq(buf, 3, 3)
    <3>1. buf[3] \in Chars /\ buf[3].kind = "body"
      BY <1>2, <2>9, <2>10
    <3>2. body \in Seq(Chars) /\ Len(body) = 1 /\ body[1] = buf[3]
      <4>1. \A j \in 3..3 : buf[j] \in Chars
        BY <3>1
      <4>2. /\ body \in Seq(Chars) /\ Len(body) = IF 3 <= 3 THEN 3 - 3 + 1 ELSE 0
            /\ \A j \in 1..(3 - 3 + 1) : body[j] = buf[3 + j - 1]
        BY <4>1, SubSeqProperties
      <4> QED BY <4>2
    <3>3. onMessage(body)
      <4>1. c[1] + 1 = 3 /\ c[2] = 3
        BY <2>9, <2>10
      <4> QED BY <1>6, <4>1
    <3> HIDE DEF body
    <3>4. DOMAIN body = {1}
      BY <3>2, LenProperties
    <3>5. body[1] = Char("body", buf[3].of)
      BY <3>1, <3>2 DEF Char, Chars
    <3>6. settle(body[1].of.uri, body[1].of.diags)
      BY <3>2, <3>3, <3>4, <3>5 DEF onMessage
    <3> QED BY <3>2, <3>6 DEF settle, without
  <2>11. AsciiInv'
    <3> SUFFICES ASSUME ascii PROVE AsciiInv'
      BY <1>1 DEF AsciiInv
    <3> HIDE DEF h, k
    <3>1. /\ k = 3 /\ Len(buf) >= 3
          /\ buf[3].kind = "body" /\ buf[1].kind = "len" /\ buf[2].kind = "sep"
      BY <2>9
    <3>2. FromFrame(stream')
      <4>1. /\ stream \in Seq(Chars) /\ \A j \in 1..Len(buf) : stream[j] = buf[j]
            /\ FromFrame(stream) /\ Len(stream) \in Nat
        BY JoinedIs, LenProperties DEF stream, FramesInv, AsciiInv
      <4>2. ASSUME 4 \in 1..Len(stream) PROVE stream[4].kind = "len"
        <5>1. 3 \in 1..(Len(stream) - 1) /\ 3 \in 1..Len(buf) /\ 3 + 1 = 4
          BY <1>2, <3>1, <4>1, <4>2
        <5>2. stream[3].kind = "body" => stream[3 + 1].kind = "len"
          BY <4>1, <5>1 DEF FromFrame
        <5> QED BY <3>1, <4>1, <5>1, <5>2
      <4> QED BY <2>7, <3>1, <4>1, <4>2
    <3>3. ASSUME NEW j, IsBody(buf, j)' PROVE (buf[j].of.size = 1)'
      <4>1. j \in 1..(Len(buf) - 3) /\ buf'[j] = buf[j + 3]
        BY <2>7, <3>1, <3>3 DEF IsBody
      <4>2. IsBody(buf, j + 3)
        BY <1>2, <3>3, <4>1 DEF IsBody
      <4> QED BY <4>1, <4>2 DEF FramesInv, AsciiInv
    <3>4. ASSUME NEW u \in arrived' \cap DOMAIN pending'
          PROVE  \E j : IsBody(buf, j)' /\ (buf[j].of.uri = u)'
      <4>1. PICK j : IsBody(buf, j) /\ buf[j].of.uri = u
        BY <1>1, <2>8, <3>4 DEF FramesInv, AsciiInv
      <4>2. j \in 1..Len(buf) /\ j # 1 /\ j # 2 /\ j # 3
        BY <1>2, <2>10, <3>1, <3>4, <4>1 DEF IsBody
      <4>3. j - 3 \in 1..(Len(buf) - 3) /\ (j - 3) + 3 = j
        BY <1>2, <4>2
      <4>4. buf'[j - 3] = buf[j]
        BY <2>7, <3>1, <4>3
      <4> QED BY <2>7, <3>1, <4>1, <4>3, <4>4 DEF IsBody
    <3>5. \A j \in DOMAIN outbox' : outbox'[j].kind # "rest"
      BY <1>1 DEF FramesInv, AsciiInv
    <3> QED BY <3>2, <3>3, <3>4, <3>5 DEF AsciiInv
  <2> QED BY <1>1, <1>3, <1>6, <2>7, <2>11 DEF FramesInv
<1> QED BY <1>4, <1>5, <1>6 DEF cut

-----------------------------------------------------------------------------
(* Every step keeps the stream framed.                                     *)

LEMMA DataTyped ==
    ForwardInv => buf \in Seq(Chars) /\ outbox \in Seq(Output) /\ nextId \in Nat /\ arrived \subseteq Nat
<1>1. OwnChars \subseteq Chars /\ OwnOutput \subseteq Output
  BY DEF OwnChars, OwnOutput, OwnMessages, Chars, Output
<1> QED BY <1>1, SeqGrows DEF ForwardInv, CallsInv, DataInv, FlagsInv, Uris, NoUri

(* What the process writes, if it writes: whole frames.                    *)
LEMMA ChildWrites ==
    ASSUME ForwardInv, Child
    PROVE  /\ UNCHANGED <<nextId, pending, buf, looping, arrived, ascii>>
           /\ outbox' = outbox \/ \E m \in Messages : writes(m)
<1>1. UNCHANGED <<nextId, pending, buf, looping, arrived, ascii>>
  BY DEF Child, childReads, childEnds, childPublishes, objectVars, histVars
<1>2. CASE childReads
  <2> DEFINE m == Head(inbox)
  <2>1. inbox # <<>> /\ m \in OwnRequests
    BY <1>2, HeadTailProperties DEF childReads, ForwardInv, DataInv
  <2>2. CASE writes(Publish(NoUri, {}, 1))
    <3>1. Publish(NoUri, {}, 1) \in Messages
      BY DEF Publish, Messages
    <3> QED BY <1>1, <2>2, <3>1
  <2>3. CASE m.method = "didClose" /\ writes(Publish(m.uri, {}, 1))
    <3>1. m.uri \in Uris
      BY <2>1, <2>3 DEF OwnRequests, OwnOpens, OwnCloses, Initialize
    <3>2. Publish(m.uri, {}, 1) \in Messages
      BY <3>1 DEF Publish, Messages
    <3> QED BY <1>1, <2>3, <3>2
  <2> QED BY <1>1, <1>2, <2>2, <2>3 DEF childReads
<1>3. ASSUME NEW u \in DOMAIN docs, childPublishes(u) PROVE \E m \in Messages : writes(m)
  <2>1. u \in Uris /\ docs[u].text \in Texts
    BY DEF ForwardInv, DataInv
  <2>2. PICK diags \in {{}, {docs[u].text}}, size \in Nat \ {0} : writes(Publish(u, diags, size))
    BY <1>3, SizesAssumption DEF childPublishes
  <2>3. Publish(u, diags, size) \in Messages
    BY <2>1 DEF Publish, Messages
  <2> QED BY <2>2, <2>3
<1>4. CASE childEnds
  BY <1>1, <1>4 DEF childEnds
<1> QED BY <1>1, <1>2, <1>3, <1>4 DEF Child

LEMMA FramesKeep ==
    ASSUME ForwardInv, ForwardInv', FramesInv, [Next]_vars
    PROVE  FramesInv'
<1>1. /\ buf \in Seq(Chars) /\ outbox \in Seq(Output) /\ nextId \in Nat /\ arrived \subseteq Nat
      /\ nextId' \in Nat
  BY DataTyped DEF ForwardInv, CallsInv
<1>2. ASSUME UNCHANGED <<buf, outbox, looping, arrived, ascii>>, nextId <= nextId',
             \A u \in DOMAIN pending' : u \in DOMAIN pending \/ u = nextId
      PROVE  FramesInv'
  BY <1>1, <1>2, ElsewhereKeepsFrames
<1>3. ASSUME NEW c, NEW i, nextBlock(c, i), UNCHANGED <<buf, outbox, looping, arrived, ascii>>
      PROVE  FramesInv'
  <2>1. /\ nextId <= nextId'
        /\ \A u \in DOMAIN pending' : u \in DOMAIN pending \/ u = nextId
    BY <1>1, <1>3 DEF nextBlock, diagnoseBlock
  <2> QED BY <1>2, <1>3, <2>1
<1>4. CASE start \/ stop \/ onExit
  <2>1. UNCHANGED <<buf, outbox, looping, arrived, ascii, pending>> /\ nextId <= nextId'
    BY <1>1, <1>4 DEF start, stop, onExit, childVars, histVars
  <2> QED BY <1>2, <2>1
<1>5. CASE onTimer
  <2>1. UNCHANGED <<buf, outbox, looping, arrived, ascii, nextId>> /\ settle(Head(timers), {})
    BY <1>5 DEF onTimer, histVars
  <2>2. DOMAIN pending' \subseteq DOMAIN pending
    BY <2>1 DEF settle, without
  <2> QED BY <1>1, <1>2, <2>1, <2>2
<1>6. CASE cut
  BY <1>1, <1>6, CutKeepsFrames
<1>7. ASSUME NEW c \in Calls, diagnose(c) PROVE FramesInv'
  BY <1>3, <1>7 DEF diagnose, histVars
<1>8. CASE resume
  BY <1>3, <1>8 DEF resume, histVars
<1>9. ASSUME NEW n \in 1..MaxInFlight, NEW split \in BOOLEAN, onData(n, split) PROVE FramesInv'
  <2>1. n \in Nat /\ n > 0
    BY BoundsAssumption
  <2> QED BY <1>1, <1>9, <2>1, ChunkKeepsFrames
<1>10. CASE Child
  <2>1. CASE outbox' = outbox
    BY <1>1, <1>2, <1>10, <2>1, ChildWrites
  <2>2. ASSUME NEW m \in Messages, writes(m) PROVE FramesInv'
    BY <1>1, <1>10, <2>2, ChildWrites, WriteKeepsFrames
  <2> QED BY <1>10, <2>1, <2>2, ChildWrites
<1>11. CASE UNCHANGED vars
  BY <1>1, <1>2, <1>11 DEF vars, objectVars, childVars, histVars
<1> QED BY <1>4, <1>5, <1>6, <1>7, <1>8, <1>9, <1>10, <1>11 DEF Next, Object

LEMMA FramesStart == Init => FramesInv
<1> SUFFICES ASSUME Init PROVE FramesInv
  OBVIOUS
<1>1. buf = <<>> /\ outbox = <<>> /\ arrived = {}
  BY DEF Init
<1>2. buf \in Seq(Chars) /\ outbox \in Seq(Output) /\ Len(buf) = 0 /\ Len(outbox) = 0
  BY <1>1, EmptySeq
<1>3. stream \in Seq(Chars) /\ Len(stream) = 0
  <2>1. stream \in Seq(Chars) /\ Len(stream) = Len(buf) + Len(outbox)
    BY <1>2, JoinedIs DEF stream
  <2> QED BY <1>2, <2>1
<1>4. stream = <<>>
  BY <1>3, EmptySeq
<1>5. DOMAIN buf = {} /\ DOMAIN outbox = {}
  BY <1>1
<1>6. skips(buf) = {} /\ cuts(buf) = {}
  <2>1. headerEnds(buf) = {}
    BY <1>5 DEF headerEnds
  <2> QED BY <2>1 DEF skips, cuts
<1>7. Framed(stream) /\ FromFrame(stream)
  BY <1>3, <1>4 DEF Framed, FromFrame
<1> QED BY <1>1, <1>5, <1>6, <1>7 DEF FramesInv, AsciiInv, IsBody

LEMMA FramesHold == Spec => [](ForwardInv /\ FramesInv)
<1>1. ForwardInv /\ ForwardInv' /\ FramesInv /\ [Next]_vars => FramesInv'
  BY FramesKeep
<1> QED BY <1>1, FramesStart, InvariantHolds, PTL DEF Spec

(* A whole frame at the head of the buffer would still be cut, so a body   *)
(* that was read is gone, and its uri settled.                             *)
LEMMA AsciiSettles == ForwardInv /\ FramesInv => AsciiAnswersSettle
<1> SUFFICES ASSUME ForwardInv, FramesInv, ascii, ~ looping, NEW u \in arrived \cap DOMAIN pending
             PROVE  FALSE
  BY DEF AsciiAnswersSettle, EveryAnswerSettles
<1>1. PICK i : IsBody(buf, i) /\ buf[i].of.uri = u
  BY DEF FramesInv, AsciiInv
<1>2. /\ Len(buf) \in Nat /\ DOMAIN buf = 1..Len(buf)
      /\ Len(buf) >= 1 => buf[1].kind = "len"
      /\ Len(buf) >= 2 => buf[2].kind = "sep"
      /\ Len(buf) >= 3 => buf[3].kind = "body" /\ buf[3].of = buf[1].of /\ buf[1].of.size = 1
  BY DataTyped, BufferStarts
<1>3. i \in 1..Len(buf) /\ buf[i].kind = "body"
  BY <1>1, <1>2 DEF IsBody
<1>4. Len(buf) >= 3
  BY <1>2, <1>3
<1>5. 2 \in headerEnds(buf)
  BY <1>2, <1>4 DEF headerEnds
<1>6. 1 \in lengths(buf, 2)
  BY <1>2, <1>4 DEF lengths
<1>7. 3 \in totals(buf, 2)
  BY <1>2, <1>4, <1>6 DEF totals
<1>8. <<2, 3>> \in cuts(buf)
  <2>1. 3 \in { n \in totals(buf, 2) : n <= Len(buf) }
    BY <1>4, <1>7
  <2>2. <<2, 3>> \in { <<2, total>> : total \in { n \in totals(buf, 2) : n <= Len(buf) } }
    BY <2>1
  <2> QED BY <1>5, <2>2 DEF cuts
<1> QED BY <1>8 DEF FramesInv

(* Two headers in the buffer have an empty line between them, so something *)
(* could be skipped or cut, were it not for the length of the first.       *)
LEMMA FramesFound == ForwardInv /\ FramesInv => BufferFindsFrames
<1> SUFFICES ASSUME ForwardInv, FramesInv, ~ looping, NEW i \in DOMAIN buf, NEW j \in DOMAIN buf,
                    buf[i].kind = "len", buf[j].kind = "len", i < j
             PROVE  \E l \in 1..i : FirstHeader(l) /\ ClaimsAll(l)
  BY DEF BufferFindsFrames
<1>1. /\ Len(buf) \in Nat /\ DOMAIN buf = 1..Len(buf) /\ buf \in Seq(Chars)
      /\ \A k \in 1..Len(buf) : buf[k] \in Chars
  BY DataTyped, ElementOfSeq, LenProperties
<1>2. \A k \in 1..(Len(buf) - 1) : buf[k].kind = "len" => buf[k + 1].kind = "sep"
  <2>1. /\ Len(stream) = Len(buf) + Len(outbox) /\ Len(outbox) \in Nat
        /\ \A k \in 1..Len(buf) : stream[k] = buf[k]
    BY <1>1, DataTyped, JoinedIs DEF stream
  <2>2. Framed(stream)
    BY DEF FramesInv
  <2>3. ASSUME NEW k \in 1..(Len(buf) - 1)
        PROVE  buf[k].kind = "len" => buf[k + 1].kind = "sep"
    <3>1. k \in 1..(Len(stream) - 1) /\ k \in 1..Len(buf) /\ k + 1 \in 1..Len(buf)
      BY <1>1, <2>1
    <3> QED BY <2>1, <2>2, <3>1 DEF Framed
  <2> QED BY <2>3
<1>3. i \in 1..(Len(buf) - 1) /\ i + 1 \in 1..Len(buf) /\ buf[i + 1].kind = "sep"
  <2>1. i \in 1..(Len(buf) - 1) /\ i + 1 \in 1..Len(buf)
    BY <1>1
  <2> QED BY <1>2, <2>1
<1> DEFINE lines == { h \in 1..Len(buf) : buf[h].kind = "sep" }
<1>4. PICK h \in lines : \A g \in lines : h <= g
  <2>1. lines \in SUBSET Nat /\ lines # {}
    BY <1>1, <1>3
  <2> HIDE DEF lines
  <2>2. PICK h \in lines : \A g \in lines : <<g, h>> \notin OpToRel(<, Nat)
    BY <2>1, NatLessThanWellFounded, WFMin
  <2>3. \A g \in lines : ~ (g < h)
    BY <2>1, <2>2 DEF OpToRel
  <2> QED BY <2>1, <2>3
<1>5. h \in headerEnds(buf) /\ h \in 1..Len(buf) /\ h <= i + 1
  <2>1. \A g \in 1..(h - 1) : buf[g].kind # "sep"
    BY <1>1, <1>4
  <2> QED BY <1>1, <1>3, <1>4, <2>1 DEF headerEnds
<1>6. PICK l \in lengths(buf, h) : TRUE
  BY <1>5 DEF FramesInv, skips
<1>7. l \in 1..(h - 1) /\ FirstHeader(l)
  BY <1>6 DEF lengths, FirstHeader
<1>8. h = l + 1
  <2>1. l \in 1..(Len(buf) - 1) /\ buf[l].kind = "len" /\ l + 1 \in 1..Len(buf)
    BY <1>1, <1>5, <1>7 DEF FirstHeader
  <2>2. l + 1 \in lines
    BY <1>2, <2>1
  <2> QED BY <1>4, <1>5, <1>7, <2>2
<1>9. ~ (h + buf[l].of.size <= Len(buf))
  <2>1. PICK total : total = h + buf[l].of.size
    OBVIOUS
  <2>2. total \in totals(buf, h)
    BY <1>6, <2>1 DEF totals
  <2>3. total <= Len(buf) => <<h, total>> \in cuts(buf)
    BY <1>5, <2>2 DEF cuts
  <2> QED BY <2>1, <2>3 DEF FramesInv
<1>10. buf[l].of.size \in Nat \ {0}
  BY <1>1, <1>5, <1>7 DEF Chars, Messages
<1>11. ClaimsAll(l) /\ l \in 1..i
  BY <1>1, <1>5, <1>7, <1>8, <1>9, <1>10 DEF ClaimsAll
<1> QED BY <1>7, <1>11

(* An answer that was read to its last byte has settled its block, however *)
(* its bytes were cut into chunks, as long as all were ASCII               *)
(* (ottl-forward.ts:103-125): then lengths count characters.               *)
THEOREM AsciiAnswersAlwaysSettle == Spec => []AsciiAnswersSettle
BY FramesHold, AsciiSettles, PTL

(* Whatever their lengths: a body that is not ASCII is cut too long, by    *)
(* any number of characters, and takes the next frames or their beginnings *)
(* with it (ottl-forward.ts:113-117); the loop goes on after that, and what*)
(* piles up in the buffer is always claimed by the length in front of it.  *)
THEOREM BufferAlwaysFindsFrames == Spec => []BufferFindsFrames
BY FramesHold, FramesFound, PTL
=============================================================================
