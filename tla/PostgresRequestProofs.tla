------------------------- MODULE PostgresRequestProofs -------------------------
(***************************************************************************)
(* The safety properties of one request, as the PostgreSQL driver runs it, *)
(* whatever the server session does and however many messages wait in it.  *)
(***************************************************************************)
EXTENDS PostgresRequest, SequenceTheorems, TLAPS

-----------------------------------------------------------------------------
(* The inductive invariant. *)

\* run_request has returned.
Left == client \in {"returned", "ended"}

Connecting ==
    client = "connecting" => inbox = <<>> /\ tx = "none" /\ link = "none"

\* One message at a time: an answer comes when the session has nothing left, and
\* a statement is only sent into an open transaction.
Working ==
    client = "working" =>
        /\ inbox \in {<<>>, <<"begin">>, <<"statement">>}
        /\ inbox # <<>> => ack = "none"
        /\ inbox = <<"statement">> => tx = "open"
        /\ ack = "ok" /\ link = "up" => tx = "open"

\* COMMIT is sent into an open transaction, so that its success commits.
Committing ==
    client = "commit" =>
        /\ inbox # <<>> => inbox = <<"COMMIT">> /\ tx = "open" /\ ack = "none"
        /\ ack = "ok" => tx = "committed"

\* The answer the cleanup waits for is that of a ROLLBACK behind everything else.
Cleaning ==
    client = "cleanup" =>
        /\ \/ inbox = <<>>
           \/ \E m \in Messages : inbox = <<m>>
           \/ \E m \in Messages \ {"ROLLBACK"} : inbox = <<m, "ROLLBACK">>
        /\ inbox # <<>> => ack = "none"
        /\ link = "up" /\ inbox # <<>> => inbox[Len(inbox)] = "ROLLBACK"
        /\ ack = "ok" => tx \in {"none", "undone", "committed"}

\* What the client knows when it leaves, and what is then left in the session.
Leaving ==
    /\ reply # "none" <=> Left
    /\ reply = "ok" => inbox = <<>> /\ tx = "committed"
    /\ reply \in {"failed", "cleanup_failed"} => ~attempted
    /\ Left => link # "up"
    /\ confirmed => Left /\ inbox = <<>> /\ tx \in {"none", "undone", "committed"}

\* Before COMMIT is attempted it is not in the session, nor has it happened.
Undecided ==
    /\ ~attempted => tx # "committed" /\ ~Sent("COMMIT")
    /\ client \in {"connecting", "working"} => ~attempted
    /\ client = "commit" => attempted

Inv ==
    /\ TypeOK
    /\ Connecting
    /\ Working
    /\ Committing
    /\ Cleaning
    /\ Leaving
    /\ Undecided

\* The definitions that every step needs.
USE DEF Stopped, control, server

LEMMA InitHolds == Init => Inv
<1>1. Init => TypeOK
  <2>1. <<>> \in Seq(Messages) /\ Len(<<>>) <= 2
    BY EmptySeq
  <2> QED
    BY <2>1 DEF Init, TypeOK, ClientSteps
<1>2. Init => Connecting /\ Working /\ Committing /\ Cleaning /\ Leaving
  BY DEF Init, Connecting, Working, Committing, Cleaning, Leaving, Left
<1>3. Init => Undecided
  BY DEF Init, Undecided, Sent
<1> QED
  BY <1>1, <1>2, <1>3 DEF Inv

-----------------------------------------------------------------------------
(* Short queues. *)

LEMMA Queues ==
    ASSUME NEW m, NEW k
    PROVE  /\ Len(<<m>>) = 1 /\ Head(<<m>>) = m /\ Tail(<<m>>) = <<>>
           /\ Len(<<m, k>>) = 2 /\ Head(<<m, k>>) = m /\ Tail(<<m, k>>) = <<k>>
           /\ Append(<<>>, m) = <<m>> /\ Append(<<m>>, k) = <<m, k>>
           /\ <<m, k>> # <<k>> /\ <<m, k>> # <<>> /\ <<m>> # <<>>
<1>1. /\ <<m>> \in Seq({m, k}) /\ <<m, k>> \in Seq({m, k})
      /\ Append(<<m>>, k) \in Seq({m, k})
  OBVIOUS
<1>2. Append(<<m>>, k) = <<m, k>>
  <2>1. Len(Append(<<m>>, k)) = Len(<<m, k>>)
    OBVIOUS
  <2>2. \A i \in 1..Len(Append(<<m>>, k)) : Append(<<m>>, k)[i] = <<m, k>>[i]
    OBVIOUS
  <2> QED
    BY <1>1, <2>1, <2>2, SeqEqual
<1>3. Tail(<<m, k>>) = <<k>> /\ Tail(<<m>>) = <<>> /\ Append(<<>>, m) = <<m>>
  OBVIOUS
<1>4. <<m, k>> # <<k>> /\ <<m, k>> # <<>> /\ <<m>> # <<>>
  OBVIOUS
<1> QED
  BY <1>2, <1>3, <1>4

\* What a broken connection may leave of them.
LEMMA Prefixes ==
    ASSUME NEW m, NEW k
    PROVE  /\ \A n \in 0..0 : SubSeq(<<>>, 1, n) = <<>>
           /\ \A n \in 0..1 : SubSeq(<<m>>, 1, n) \in {<<>>, <<m>>}
           /\ \A n \in 0..2 : SubSeq(<<m, k>>, 1, n) \in {<<>>, <<m>>, <<m, k>>}
<1>1. <<>> \in Seq({m, k}) /\ <<m>> \in Seq({m, k}) /\ <<m, k>> \in Seq({m, k})
  OBVIOUS
<1>2. /\ SubSeq(<<>>, 1, 0) = <<>> /\ SubSeq(<<m>>, 1, 0) = <<>>
      /\ SubSeq(<<m, k>>, 1, 0) = <<>>
  BY <1>1, SubSeqEmpty
<1>3. SubSeq(<<m>>, 1, 1) = <<m>> /\ SubSeq(<<m, k>>, 1, 2) = <<m, k>>
  BY <1>1, SubSeqFull
<1>4. SubSeq(<<m, k>>, 1, 1) = <<m>>
  <2>1. /\ SubSeq(<<m, k>>, 1, 1) \in Seq({m, k})
        /\ Len(SubSeq(<<m, k>>, 1, 1)) = Len(<<m>>)
    OBVIOUS
  <2>2. \A i \in 1..Len(<<m>>) : SubSeq(<<m, k>>, 1, 1)[i] = <<m>>[i]
    OBVIOUS
  <2> QED
    BY <1>1, <2>1, <2>2, SeqEqual
<1> QED
  BY <1>2, <1>3, <1>4

\* While the task runs, at most one message is in the session, or one and the
\* ROLLBACK behind it.
LEMMA Pending ==
    ASSUME Inv, inbox # <<>>, ~Left
    PROVE  \/ \E m : inbox = <<m>>
           \/ client = "cleanup" /\ (\E m : m # "ROLLBACK" /\ inbox = <<m, "ROLLBACK">>)
BY DEF Inv, TypeOK, ClientSteps, Connecting, Working, Committing,
   Cleaning, Left

\* The session answers what came first.
LEMMA Answered ==
    ASSUME Inv, inbox # <<>>, ~Left, NEW result, Answer(result)
    PROVE  \/ /\ inbox = <<Head(inbox)>> /\ inbox' = <<>>
              /\ ack' = IF link = "up" THEN result ELSE ack
           \/ /\ client = "cleanup" /\ Head(inbox) # "ROLLBACK"
              /\ inbox = <<Head(inbox), "ROLLBACK">> /\ inbox' = <<"ROLLBACK">>
              /\ ack' = ack
<1>1. CASE \E m : inbox = <<m>>
  <2>1. PICK m : inbox = <<m>>
    BY <1>1
  <2>2. Len(inbox) = 1 /\ Head(inbox) = m /\ Tail(inbox) = <<>>
    BY <2>1, Queues
  <2> QED
    BY <2>1, <2>2 DEF Answer
<1>2. CASE client = "cleanup" /\ (\E m : m # "ROLLBACK" /\ inbox = <<m, "ROLLBACK">>)
  <2>1. PICK m : m # "ROLLBACK" /\ inbox = <<m, "ROLLBACK">>
    BY <1>2
  <2>2. Len(inbox) = 2 /\ Head(inbox) = m /\ Tail(inbox) = <<"ROLLBACK">>
    BY <2>1, Queues
  <2> QED
    BY <1>2, <2>1, <2>2 DEF Answer
<1> QED
  BY <1>1, <1>2, Pending

\* The connection loses what is left of them from its end.
LEMMA Shortened ==
    ASSUME Inv, ~Left, NEW n \in 0..Len(inbox), inbox' = SubSeq(inbox, 1, n)
    PROVE  \/ inbox' = inbox
           \/ inbox' = <<>>
           \/ client = "cleanup" /\ (\E m : inbox = <<m, "ROLLBACK">> /\ inbox' = <<m>>)
<1>1. CASE inbox = <<>>
  BY <1>1, Prefixes
<1>2. CASE \E m : inbox = <<m>>
  <2>1. PICK m : inbox = <<m>>
    BY <1>2
  <2>2. Len(inbox) = 1
    BY <2>1, Queues
  <2> QED
    BY <2>1, <2>2, Prefixes
<1>3. CASE client = "cleanup" /\ (\E m : inbox = <<m, "ROLLBACK">>)
  <2>1. PICK m : inbox = <<m, "ROLLBACK">>
    BY <1>3
  <2>2. Len(inbox) = 2
    BY <2>1, Queues
  <2> QED
    BY <1>3, <2>1, <2>2, Prefixes
<1> QED
  BY <1>1, <1>2, <1>3, Pending

\* The session answers, breaks, or ends.
LEMMA ServerSteps ==
    ASSUME Inv,
           \/ Succeed \/ Fail \/ CancelHits
           \/ CancelMisses \/ LinkBreaks \/ SessionEnds
    PROVE  Inv'
<1>1. CASE Succeed
  <2>1. TypeOK'
    BY <1>1 DEF Succeed, Inv, TypeOK, Answer
  <2>2. (Connecting /\ Working /\ Committing)'
    <3>1. CASE inbox = <<Head(inbox)>> /\ inbox' = <<>>
               /\ ack' = IF link = "up" THEN "ok" ELSE ack
      <4>1. /\ client = "working" => Head(inbox) \in {"begin", "statement"}
            /\ client = "commit" => Head(inbox) = "COMMIT" /\ tx = "open"
        BY <3>1, Queues DEF Inv, Working, Committing
      <4>2. /\ client = "working" => tx' = "open" /\ ack' \in {"ok", "none"}
            /\ client = "commit" => tx' = "committed"
            /\ client # "connecting" /\ UNCHANGED <<client, link>>
        <5>1. /\ Head(inbox) = "begin" => tx' = "open"
              /\ Head(inbox) = "statement" => tx = "open" /\ tx' = tx
              /\ Head(inbox) = "COMMIT" /\ tx = "open" => tx' = "committed"
              /\ inbox # <<>> /\ UNCHANGED <<client, link>>
          <6>1. Head(inbox) = "begin" => tx' = "open"
            BY <1>1 DEF Succeed
          <6>2. Head(inbox) = "statement" => tx = "open" /\ tx' = tx
            BY <1>1 DEF Succeed
          <6>3. Head(inbox) = "COMMIT" /\ tx = "open" => tx' = "committed"
            BY <1>1 DEF Succeed
          <6> QED
            BY <1>1, <6>1, <6>2, <6>3 DEF Succeed
        <5>2. /\ client = "working" => ack = "none"
              /\ client # "connecting"
          BY <5>1 DEF Inv, Connecting, Working
        <5> QED
          BY <3>1, <4>1, <5>1, <5>2
      <4> QED
        BY <3>1, <4>2 DEF Connecting, Working, Committing
    <3>2. CASE client = "cleanup" \/ Left
      BY <1>1, <3>2 DEF Succeed, Connecting, Working, Committing, Left
    <3> QED
      BY <1>1, <3>1, <3>2, Answered DEF Succeed
  <2>3. Cleaning'
    <3>1. CASE inbox = <<Head(inbox)>> /\ inbox' = <<>>
               /\ ack' = IF link = "up" THEN "ok" ELSE ack
      <4>1. client = "cleanup" => ack = "none" /\ (link = "up" => Head(inbox) = "ROLLBACK")
        <5>1. inbox # <<>> /\ inbox[Len(inbox)] = Head(inbox)
          <6>1. PICK m : inbox = <<m>>
            BY <3>1
          <6> QED
            BY <6>1, Queues
        <5> QED
          BY <5>1 DEF Inv, Cleaning
      <4>2. Head(inbox) = "ROLLBACK" => tx' \in {"none", "undone", "committed"}
        BY <1>1 DEF Succeed, Inv, TypeOK
      <4>3. UNCHANGED <<client, link>>
        BY <1>1 DEF Succeed
      <4> QED
        BY <3>1, <4>1, <4>2, <4>3 DEF Cleaning
    <3>2. CASE /\ Head(inbox) # "ROLLBACK" /\ inbox = <<Head(inbox), "ROLLBACK">>
               /\ inbox' = <<"ROLLBACK">> /\ ack' = ack
      BY <1>1, <3>2, Queues DEF Succeed, Inv, Cleaning, Messages
    <3>3. CASE client # "cleanup"
      BY <1>1, <3>3 DEF Succeed, Cleaning
    <3> QED
      BY <1>1, <3>1, <3>2, <3>3, Answered DEF Succeed, Left
  <2>4. (Leaving /\ Undecided)'
    BY <1>1 DEF Succeed, Inv, Answer, Leaving, Undecided, Left, Sent
  <2> QED
    BY <2>1, <2>2, <2>3, <2>4 DEF Inv
<1>2. CASE Fail
  <2>1. TypeOK'
    BY <1>2 DEF Fail, Inv, TypeOK, Answer, Break
  <2>2. (Connecting /\ Working /\ Committing)'
    <3>1. Connecting'
      BY <1>2 DEF Fail, Break, Inv, Connecting
    <3>2. Working'
      <4>1. CASE client = "working"
        <5>1. /\ inbox' = <<>> /\ Len(inbox) = 1 /\ ack = "none"
          BY <1>2, <4>1, Queues DEF Fail, Break, Answer, Inv, Working
        <5>2. ack' \in {"error", "none"}
          BY <1>2, <5>1 DEF Fail, Break, Answer
        <5> QED
          BY <5>1, <5>2 DEF Working
      <4> QED
        BY <1>2, <4>1 DEF Fail, Break, Working
    <3>3. Committing'
      <4>1. CASE client = "commit"
        <5>1. /\ inbox' = <<>> /\ Len(inbox) = 1 /\ ack = "none"
          BY <1>2, <4>1, Queues DEF Fail, Break, Answer, Inv, Committing
        <5>2. ack' \in {"error", "none"}
          BY <1>2, <5>1 DEF Fail, Break, Answer
        <5> QED
          BY <5>1, <5>2 DEF Committing
      <4> QED
        BY <1>2, <4>1 DEF Fail, Break, Committing
    <3> QED
      BY <3>1, <3>2, <3>3
  <2>3. Cleaning'
    <3>1. CASE inbox = <<Head(inbox)>> /\ inbox' = <<>>
               /\ ack' = IF link = "up" THEN "error" ELSE ack
      BY <1>2, <3>1, Queues DEF Fail, Break, Inv, Cleaning
    <3>2. CASE /\ Head(inbox) # "ROLLBACK" /\ inbox = <<Head(inbox), "ROLLBACK">>
               /\ inbox' = <<"ROLLBACK">> /\ ack' = ack
      BY <1>2, <3>2, Queues DEF Fail, Break, Inv, Cleaning, Messages
    <3>3. CASE client # "cleanup"
      BY <1>2, <3>3 DEF Fail, Break, Cleaning
    <3> QED
      BY <1>2, <3>1, <3>2, <3>3, Answered DEF Fail, Break, Left
  <2>4. (Leaving /\ Undecided)'
    BY <1>2 DEF Fail, Inv, Answer, Break, Leaving, Undecided, Left,
       Sent
  <2> QED
    BY <2>1, <2>2, <2>3, <2>4 DEF Inv
<1>3. CASE CancelHits
  <2>1. TypeOK'
    <3>1. /\ inbox' = Tail(inbox) /\ inbox # <<>> /\ cancelSent' = FALSE
          /\ ack' \in {ack, "cancelled"} /\ tx' \in {tx, "undone", "broken"}
          /\ UNCHANGED <<expired, cancelled, caller, client, attempted, reply, lifetime,
                        link, confirmed>>
      BY <1>3 DEF CancelHits, Break, Answer
    <3>2. inbox' \in Seq(Messages) /\ Len(inbox') <= 2
      BY <3>1 DEF Inv, TypeOK
    <3>3. /\ caller' \in {"waiting", "gone", "answered"}
          /\ reply' \in {"none", "ok", "failed", "unknown", "cleanup_failed"}
          /\ lifetime' \in {"held", "released"}
          /\ link' \in {"none", "up", "down"}
          /\ ack' \in {"none", "ok", "error", "cancelled"}
          /\ tx' \in {"none", "open", "broken", "committed", "undone"}
      BY <3>1 DEF Inv, TypeOK
    <3> QED
      BY <3>1, <3>2, <3>3 DEF Inv, TypeOK
  <2>2. (Connecting /\ Working /\ Committing)'
    BY <1>3 DEF CancelHits, Inv, Answer, Break, Connecting, Working,
       Committing
  <2>3. Cleaning'
    <3>1. CASE inbox = <<Head(inbox)>> /\ inbox' = <<>>
               /\ ack' = IF link = "up" THEN "cancelled" ELSE ack
      BY <1>3, <3>1, Queues DEF CancelHits, Break, Inv, Cleaning
    <3>2. CASE /\ Head(inbox) # "ROLLBACK" /\ inbox = <<Head(inbox), "ROLLBACK">>
               /\ inbox' = <<"ROLLBACK">> /\ ack' = ack
      BY <1>3, <3>2, Queues DEF CancelHits, Break, Inv, Cleaning,
         Messages
    <3>3. CASE client # "cleanup"
      BY <1>3, <3>3 DEF CancelHits, Break, Cleaning
    <3> QED
      BY <1>3, <3>1, <3>2, <3>3, Answered DEF CancelHits, Break, Left
  <2>4. (Leaving /\ Undecided)'
    BY <1>3 DEF CancelHits, Inv, Answer, Break, Leaving, Undecided,
       Left, Sent
  <2> QED
    BY <2>1, <2>2, <2>3, <2>4 DEF Inv
<1>4. CASE CancelMisses
  <2>1. TypeOK'
    <3>1. /\ cancelSent' = FALSE
          /\ UNCHANGED <<expired, cancelled, caller, client, attempted, reply, lifetime,
                        link, inbox, ack, tx, confirmed>>
      BY <1>4 DEF CancelMisses
    <3>2. inbox' \in Seq(Messages) /\ Len(inbox') <= 2
      BY <3>1 DEF Inv, TypeOK
    <3>3. /\ caller' \in {"waiting", "gone", "answered"}
          /\ reply' \in {"none", "ok", "failed", "unknown", "cleanup_failed"}
          /\ lifetime' \in {"held", "released"}
          /\ link' \in {"none", "up", "down"}
          /\ ack' \in {"none", "ok", "error", "cancelled"}
          /\ tx' \in {"none", "open", "broken", "committed", "undone"}
      BY <3>1 DEF Inv, TypeOK
    <3> QED
      BY <3>1, <3>2, <3>3 DEF Inv, TypeOK
  <2>2. (Connecting /\ Working /\ Committing)'
    BY <1>4 DEF CancelMisses, Inv, Connecting, Working, Committing
  <2>3. Cleaning'
    BY <1>4 DEF CancelMisses, Inv, Cleaning
  <2>4. (Leaving /\ Undecided)'
    BY <1>4 DEF CancelMisses, Inv, Leaving, Undecided, Left, Sent
  <2> QED
    BY <2>1, <2>2, <2>3, <2>4 DEF Inv
<1>5. CASE LinkBreaks
  <2>1. TypeOK'
    BY <1>5 DEF LinkBreaks, Inv, TypeOK
  <2>2. (Connecting /\ Working /\ Committing)'
    <3>1. CASE Left
      BY <1>5, <3>1 DEF LinkBreaks, Connecting, Working, Committing, Left
    <3>2. CASE ~Left
      <4>1. inbox' \in {inbox, <<>>} \/ client = "cleanup"
        BY <1>5, <3>2, Shortened DEF LinkBreaks
      <4>2. UNCHANGED <<client, ack, tx>> /\ link' = "down" /\ link = "up"
        BY <1>5 DEF LinkBreaks
      <4>3. CASE inbox' = inbox \/ client = "cleanup"
        BY <4>2, <4>3 DEF Inv, Connecting, Working, Committing
      <4>4. CASE inbox' = <<>>
        BY <4>2, <4>4 DEF Inv, Connecting, Working, Committing
      <4> QED
        BY <4>1, <4>3, <4>4
    <3> QED
      BY <3>1, <3>2
  <2>3. Cleaning'
    <3>1. CASE client # "cleanup"
      BY <1>5, <3>1 DEF LinkBreaks, Cleaning
    <3>2. CASE client = "cleanup"
      <4>1. \/ inbox' \in {inbox, <<>>}
            \/ \E m : inbox = <<m, "ROLLBACK">> /\ inbox' = <<m>>
        BY <1>5, <3>2, Shortened DEF LinkBreaks, Left
      <4>2. CASE inbox' \in {inbox, <<>>}
        BY <1>5, <4>2 DEF LinkBreaks, Inv, Cleaning
      <4>3. CASE \E m : inbox = <<m, "ROLLBACK">> /\ inbox' = <<m>>
        <5>1. PICK m : inbox = <<m, "ROLLBACK">> /\ inbox' = <<m>>
          BY <4>3
        <5>2. m \in Messages /\ ack = "none"
          BY <3>2, <5>1, Queues DEF Inv, Cleaning
        <5> QED
          BY <1>5, <5>1, <5>2 DEF LinkBreaks, Cleaning
      <4> QED
        BY <4>1, <4>2, <4>3
    <3> QED
      BY <3>1, <3>2
  <2>4. (Leaving /\ Undecided)'
    BY <1>5 DEF LinkBreaks, Inv, Leaving, Undecided, Left, Sent
  <2> QED
    BY <2>1, <2>2, <2>3, <2>4 DEF Inv
<1>6. CASE SessionEnds
  <2>1. TypeOK'
    BY <1>6 DEF SessionEnds, Inv, TypeOK
  <2>2. (Connecting /\ Working /\ Committing)'
    BY <1>6 DEF SessionEnds, Inv, Connecting, Working, Committing
  <2>3. Cleaning'
    BY <1>6 DEF SessionEnds, Cleaning
  <2>4. (Leaving /\ Undecided)'
    BY <1>6 DEF SessionEnds, Inv, Leaving, Undecided, Left, Sent
  <2> QED
    BY <2>1, <2>2, <2>3, <2>4 DEF Inv
<1> QED
  BY <1>1, <1>2, <1>3, <1>4, <1>5, <1>6

\* The deadline passes, or the caller goes away.
LEMMA ControlInductive ==
    ASSUME Inv, Expire \/ Disconnect
    PROVE  Inv'
<1>1. CASE Expire
  <2>1. TypeOK'
    BY <1>1 DEF Expire, Inv, TypeOK
  <2>2. (Connecting /\ Working /\ Committing)'
    BY <1>1 DEF Expire, Inv, Connecting, Working, Committing
  <2>3. Cleaning'
    BY <1>1 DEF Expire, Inv, Cleaning
  <2>4. (Leaving /\ Undecided)'
    BY <1>1 DEF Expire, Inv, Leaving, Undecided, Left, Sent
  <2> QED
    BY <2>1, <2>2, <2>3, <2>4 DEF Inv
<1>2. CASE Disconnect
  <2>1. TypeOK'
    BY <1>2 DEF Disconnect, Inv, TypeOK
  <2>2. (Connecting /\ Working /\ Committing)'
    BY <1>2 DEF Disconnect, Inv, Connecting, Working, Committing
  <2>3. Cleaning'
    BY <1>2 DEF Disconnect, Inv, Cleaning
  <2>4. (Leaving /\ Undecided)'
    BY <1>2 DEF Disconnect, Inv, Leaving, Undecided, Left, Sent
  <2> QED
    BY <2>1, <2>2, <2>3, <2>4 DEF Inv
<1> QED
  BY <1>1, <1>2

\* The client sends its statements and COMMIT.
LEMMA ClientWorks ==
    ASSUME Inv,
           \/ Connect \/ ConnectFails \/ NextStatement
           \/ Commit \/ CommitDone
    PROVE  Inv'
<1>1. CASE Connect
  <2>1. TypeOK'
    BY <1>1 DEF Connect, Inv, TypeOK, ClientSteps, Messages
  <2>2. (Connecting /\ Working /\ Committing)'
    BY <1>1 DEF Connect, Connecting, Working, Committing
  <2>3. Cleaning'
    BY <1>1 DEF Connect, Cleaning
  <2>4. (Leaving /\ Undecided)'
    BY <1>1 DEF Connect, Inv, Leaving, Undecided, Left, Sent
  <2> QED
    BY <2>1, <2>2, <2>3, <2>4 DEF Inv
<1>2. CASE ConnectFails
  <2>1. TypeOK'
    BY <1>2 DEF ConnectFails, Inv, TypeOK, Return, ClientSteps
  <2>2. (Connecting /\ Working /\ Committing)'
    BY <1>2 DEF ConnectFails, Return, Connecting, Working, Committing
  <2>3. Cleaning'
    BY <1>2 DEF ConnectFails, Return, Cleaning
  <2>4. (Leaving /\ Undecided)'
    BY <1>2 DEF ConnectFails, Inv, Return, Leaving, Undecided, Left,
       Sent
  <2> QED
    BY <2>1, <2>2, <2>3, <2>4 DEF Inv
<1>3. CASE NextStatement
  <2>1. TypeOK'
    BY <1>3 DEF NextStatement, Inv, TypeOK, Send, Working, Messages
  <2>2. (Connecting /\ Working /\ Committing)'
    <3>1. /\ inbox = <<>> /\ (link = "up" => tx = "open")
          /\ inbox' = IF link = "up" THEN <<"statement">> ELSE inbox
      BY <1>3, Queues DEF NextStatement, Send, Inv, Working
    <3> QED
      BY <1>3, <3>1, Queues DEF NextStatement, Send, Connecting, Working,
         Committing
  <2>3. Cleaning'
    BY <1>3 DEF NextStatement, Cleaning
  <2>4. (Leaving /\ Undecided)'
    BY <1>3 DEF NextStatement, Inv, Send, Leaving, Undecided, Left,
       Sent
  <2> QED
    BY <2>1, <2>2, <2>3, <2>4 DEF Inv
<1>4. CASE Commit
  <2>1. TypeOK'
    BY <1>4 DEF Commit, Inv, TypeOK, Send, Working, ClientSteps,
       Messages
  <2>2. (Connecting /\ Working /\ Committing)'
    <3>1. /\ inbox = <<>> /\ (link = "up" => tx = "open")
          /\ inbox' = IF link = "up" THEN <<"COMMIT">> ELSE inbox
      BY <1>4, Queues DEF Commit, Send, Inv, Working
    <3> QED
      BY <1>4, <3>1, Queues DEF Commit, Send, Connecting, Working, Committing
  <2>3. Cleaning'
    BY <1>4 DEF Commit, Cleaning
  <2>4. (Leaving /\ Undecided)'
    BY <1>4 DEF Commit, Inv, Leaving, Undecided, Left
  <2> QED
    BY <2>1, <2>2, <2>3, <2>4 DEF Inv
<1>5. CASE CommitDone
  <2>1. TypeOK'
    BY <1>5 DEF CommitDone, Inv, TypeOK, Return, ClientSteps
  <2>2. (Connecting /\ Working /\ Committing)'
    BY <1>5 DEF CommitDone, Return, Connecting, Working, Committing
  <2>3. Cleaning'
    BY <1>5 DEF CommitDone, Return, Cleaning
  <2>4. (Leaving /\ Undecided)'
    BY <1>5 DEF CommitDone, Inv, Return, Committing, Leaving,
       Undecided, Left
  <2> QED
    BY <2>1, <2>2, <2>3, <2>4 DEF Inv
<1> QED
  BY <1>1, <1>2, <1>3, <1>4, <1>5

\* The client cleans up and leaves.
LEMMA ClientCleans ==
    ASSUME Inv,
           \/ StartCleanup \/ SendCancel \/ CleanedUp
           \/ RetryRollback \/ CleanupFails \/ Release
    PROVE  Inv'
<1>1. CASE StartCleanup
  <2>1. TypeOK'
    BY <1>1 DEF StartCleanup, Inv, TypeOK, Send, Working, Committing,
       ClientSteps, Messages
  <2>2. (Connecting /\ Working /\ Committing)'
    BY <1>1 DEF StartCleanup, Connecting, Working, Committing
  <2>3. Cleaning'
    <3>1. inbox = <<>> \/ \E m \in Messages \ {"ROLLBACK"} : inbox = <<m>>
      BY <1>1 DEF StartCleanup, Inv, Working, Committing, Messages
    <3>2. link # "up" => inbox' = inbox
      BY <1>1 DEF StartCleanup, Send
    <3>3. link = "up" =>
             \/ inbox' = <<"ROLLBACK">>
             \/ \E m \in Messages \ {"ROLLBACK"} : inbox' = <<m, "ROLLBACK">>
      BY <1>1, <3>1, Queues DEF StartCleanup, Send
    <3>4. link = "up" => inbox'[Len(inbox')] = "ROLLBACK"
      BY <3>3
    <3>5. ack' = "none" /\ link' = link
      BY <1>1 DEF StartCleanup, Send
    <3>6. "ROLLBACK" \in Messages
      BY DEF Messages
    <3> QED
      BY <3>1, <3>2, <3>3, <3>4, <3>5, <3>6 DEF Cleaning
  <2>4. (Leaving /\ Undecided)'
    BY <1>1 DEF StartCleanup, Inv, Send, Leaving, Undecided, Left, Sent
  <2> QED
    BY <2>1, <2>2, <2>3, <2>4 DEF Inv
<1>2. CASE SendCancel
  <2>1. TypeOK'
    BY <1>2 DEF SendCancel, Inv, TypeOK
  <2>2. (Connecting /\ Working /\ Committing)'
    BY <1>2 DEF SendCancel, Connecting, Working, Committing
  <2>3. Cleaning'
    BY <1>2 DEF SendCancel, Inv, Cleaning
  <2>4. (Leaving /\ Undecided)'
    BY <1>2 DEF SendCancel, Inv, Leaving, Undecided, Left, Sent
  <2> QED
    BY <2>1, <2>2, <2>3, <2>4 DEF Inv
<1>3. CASE CleanedUp
  <2>1. TypeOK'
    BY <1>3 DEF CleanedUp, Inv, TypeOK, Return, ErrorAfterCleanup,
       ClientSteps
  <2>2. (Connecting /\ Working /\ Committing)'
    BY <1>3 DEF CleanedUp, Return, Connecting, Working, Committing
  <2>3. Cleaning'
    BY <1>3 DEF CleanedUp, Return, Cleaning
  <2>4. (Leaving /\ Undecided)'
    BY <1>3 DEF CleanedUp, Inv, Return, RollbackDone,
       ErrorAfterCleanup, Cleaning, Leaving, Undecided, Left, Sent
  <2> QED
    BY <2>1, <2>2, <2>3, <2>4 DEF Inv
<1>4. CASE RetryRollback
  <2>1. TypeOK'
    BY <1>4 DEF RetryRollback, Inv, TypeOK, Send, WasCancelled,
       Cleaning, Messages
  <2>2. (Connecting /\ Working /\ Committing)'
    BY <1>4 DEF RetryRollback, Connecting, Working, Committing
  <2>3. Cleaning'
    <3>1. inbox = <<>> /\ inbox' = (IF link = "up" THEN <<"ROLLBACK">> ELSE inbox)
      BY <1>4, Queues DEF RetryRollback, WasCancelled, Send, Inv,
         Cleaning
    <3> QED
      BY <1>4, <3>1, Queues DEF RetryRollback, Send, Cleaning, Messages
  <2>4. (Leaving /\ Undecided)'
    BY <1>4 DEF RetryRollback, Inv, Send, Leaving, Undecided, Left,
       Sent
  <2> QED
    BY <2>1, <2>2, <2>3, <2>4 DEF Inv
<1>5. CASE CleanupFails
  <2>1. TypeOK'
    BY <1>5 DEF CleanupFails, Inv, TypeOK, Return, ClientSteps
  <2>2. (Connecting /\ Working /\ Committing)'
    BY <1>5 DEF CleanupFails, Return, Connecting, Working, Committing
  <2>3. Cleaning'
    BY <1>5 DEF CleanupFails, Return, Cleaning
  <2>4. (Leaving /\ Undecided)'
    BY <1>5 DEF CleanupFails, Inv, Return, Leaving, Undecided, Left,
       Sent
  <2> QED
    BY <2>1, <2>2, <2>3, <2>4 DEF Inv
<1>6. CASE Release
  <2>1. TypeOK'
    <3>1. /\ client' = "ended" /\ lifetime' = "released"
          /\ caller' \in {caller, "answered"} /\ cancelled' \in {cancelled, TRUE}
          /\ UNCHANGED <<expired, attempted, reply, link, inbox, ack, cancelSent, tx,
                        confirmed>>
      BY <1>6 DEF Release
    <3>2. inbox' \in Seq(Messages) /\ Len(inbox') <= 2
      BY <3>1 DEF Inv, TypeOK
    <3>3. client' \in ClientSteps
      BY <3>1 DEF ClientSteps
    <3>4. /\ caller' \in {"waiting", "gone", "answered"}
          /\ reply' \in {"none", "ok", "failed", "unknown", "cleanup_failed"}
          /\ lifetime' \in {"held", "released"}
          /\ link' \in {"none", "up", "down"}
          /\ ack' \in {"none", "ok", "error", "cancelled"}
          /\ tx' \in {"none", "open", "broken", "committed", "undone"}
      BY <3>1 DEF Inv, TypeOK
    <3> QED
      BY <3>1, <3>2, <3>3, <3>4 DEF Inv, TypeOK
  <2>2. (Connecting /\ Working /\ Committing)'
    BY <1>6 DEF Release, Connecting, Working, Committing
  <2>3. Cleaning'
    BY <1>6 DEF Release, Cleaning
  <2>4. (Leaving /\ Undecided)'
    BY <1>6 DEF Release, Inv, Leaving, Undecided, Left, Sent
  <2> QED
    BY <2>1, <2>2, <2>3, <2>4 DEF Inv
<1> QED
  BY <1>1, <1>2, <1>3, <1>4, <1>5, <1>6

\* Every step of the task, the session and the network keeps the invariant.
LEMMA NextHolds ==
    ASSUME Inv, [Next]_vars
    PROVE  Inv'
<1>1. CASE UNCHANGED vars
  <2>1. TypeOK'
    BY <1>1 DEF vars, Inv, TypeOK
  <2>2. (Connecting /\ Working /\ Committing /\ Cleaning)'
    BY <1>1 DEF vars, Inv, Connecting, Working, Committing, Cleaning
  <2>3. (Leaving /\ Undecided)'
    BY <1>1 DEF vars, Inv, Leaving, Undecided, Left, Sent
  <2> QED
    BY <2>1, <2>2, <2>3 DEF Inv
<1>2. CASE Next
  BY <1>2, ServerSteps, ControlInductive, ClientWorks, ClientCleans
     DEF Next, ClientStep, ServerStep
<1> QED
  BY <1>1, <1>2

\* What the task believes of its transaction is what the session will make of it.
THEOREM Invariance == Spec => []Inv
<1> QED
  BY InitHolds, NextHolds, PTL DEF Spec

\* execute_transaction tells the truth about the transaction, however late the
\* session answers and whatever the connection lost.
THEOREM Replies == Spec => []ReplyIsTruthful
<1>1. Inv => ReplyIsTruthful
  BY DEF Inv, Leaving, Undecided, ReplyIsTruthful
<1> QED
  BY <1>1, Invariance, PTL

\* A ROLLBACK that cleanup has seen succeed is the last thing the session does
\* for the request.
THEOREM CleanupFinal == Spec => []ConfirmedCleanupIsFinal
<1>1. Inv => ConfirmedCleanupIsFinal
  BY DEF Inv, Leaving, ConfirmedCleanupIsFinal
<1> QED
  BY <1>1, Invariance, PTL

-----------------------------------------------------------------------------
(* The promise of execute_tracked. *)

\* A step of the task, the session or the network, as the caller and the registry
\* see it.
Kept == [Promised!Next]_Promised!vars

\* BEGIN comes first and into a fresh session; the token is dropped last.
Once ==
    /\ \A i \in 1..Len(inbox) : inbox[i] = "begin" => i = 1 /\ tx = "none"
    /\ lifetime = "released" <=> client = "ended"

\* What leaves transaction, reply and lifetime alone is not seen.
LEMMA Unseen == ASSUME UNCHANGED <<tx, reply, lifetime>> PROVE Kept
BY DEF Kept, Promised!vars, Effect

\* What is left of the session keeps BEGIN where it was.
LEMMA OnceShortened ==
    ASSUME Inv, Once, NEW n \in 0..Len(inbox), inbox' = SubSeq(inbox, 1, n), UNCHANGED tx
    PROVE  \A i \in 1..Len(inbox') : inbox'[i] = "begin" => i = 1 /\ tx' = "none"
<1>1. inbox \in Seq(Messages)
  BY DEF Inv, TypeOK
<1>2. /\ Len(inbox) \in Nat /\ Len(SubSeq(inbox, 1, n)) = n
      /\ \A i \in 1..n : SubSeq(inbox, 1, n)[i] = inbox[i]
  BY <1>1
<1> QED
  BY <1>2 DEF Once

\* No other message is BEGIN.
LEMMA OnceSent ==
    ASSUME Inv, Once, NEW message \in Messages \ {"begin"}, Send(message), UNCHANGED tx
    PROVE  \A i \in 1..Len(inbox') : inbox'[i] = "begin" => i = 1 /\ tx' = "none"
<1>1. inbox \in Seq(Messages)
  BY DEF Inv, TypeOK
<1>2. /\ Len(inbox) \in Nat /\ Len(Append(inbox, message)) = Len(inbox) + 1
      /\ Append(inbox, message)[Len(inbox) + 1] = message
      /\ \A i \in 1..Len(inbox) : Append(inbox, message)[i] = inbox[i]
  BY <1>1, AppendProperties
<1> QED
  BY <1>2 DEF Once, Send

\* The session takes its messages from the front.
LEMMA OnceAnswered ==
    ASSUME Inv, Once, inbox # <<>>, inbox' = Tail(inbox)
    PROVE  /\ \A i \in 1..Len(inbox') : inbox'[i] # "begin"
           /\ Head(inbox) = "begin" => tx = "none"
           /\ Head(inbox) = "COMMIT" => Sent("COMMIT")
<1>1. inbox \in Seq(Messages)
  BY DEF Inv, TypeOK
<1>2. /\ Len(inbox) \in Nat /\ Len(inbox) >= 1 /\ Head(inbox) = inbox[1]
      /\ Len(Tail(inbox)) = Len(inbox) - 1
      /\ \A i \in 1..(Len(inbox) - 1) : Tail(inbox)[i] = inbox[i + 1]
  BY <1>1
<1>3. \A i \in 1..Len(inbox') : i + 1 \in 1..Len(inbox) /\ i + 1 # 1 /\ inbox'[i] = inbox[i + 1]
  BY <1>2
<1> QED
  BY <1>2, <1>3 DEF Once, Sent

\* The session decides the transaction once, and commits it only while the reply is
\* open or says that this may happen.
LEMMA ServerKept ==
    ASSUME Inv, Once, ServerStep
    PROVE  Once' /\ Kept
<1>1. CASE Succeed \/ Fail \/ CancelHits
  <2>1. /\ inbox # <<>> /\ inbox' = Tail(inbox) /\ UNCHANGED <<client, reply, lifetime>>
        /\ \/ tx' = tx
           \/ tx = "none" /\ tx' = "open"
           \/ tx \in {"open", "broken"} /\ tx' \in {"broken", "undone"}
           \/ tx = "open" /\ tx' = "committed" /\ Head(inbox) = "COMMIT"
    <3>1. CASE Succeed
      <4>1. inbox # <<>> /\ inbox' = Tail(inbox) /\ UNCHANGED <<client, reply, lifetime>>
        BY <3>1 DEF Succeed, Answer
      <4>2. Head(inbox) = "begin" => tx = "none"
        BY <4>1, OnceAnswered
      <4> QED
        BY <3>1, <4>1, <4>2 DEF Succeed
    <3>2. CASE Fail \/ CancelHits
      BY <3>2 DEF Fail, CancelHits, Break, Answer
    <3> QED
      BY <1>1, <3>1, <3>2
  <2>2. /\ \A i \in 1..Len(inbox') : inbox'[i] # "begin"
        /\ Head(inbox) = "COMMIT" => Sent("COMMIT")
    BY <2>1, OnceAnswered
  <2>3. Once'
    BY <2>1, <2>2 DEF Once
  <2>4. CASE tx = "open" /\ tx' = "committed" /\ Head(inbox) = "COMMIT"
    <3>1. reply \in {"none", "unknown"}
      BY <2>2, <2>4 DEF Inv, TypeOK, Leaving, Undecided
    <3>2. Promised!Commit
      BY <2>1, <2>4, <3>1 DEF Promised!Commit, Promised!AtWork, Effect
    <3> QED
      BY <2>3, <3>2 DEF Kept, Promised!Next
  <2>5. CASE tx \in {"open", "broken"} /\ tx' = "undone"
    <3>1. Promised!Undo
      BY <2>1, <2>5 DEF Promised!Undo, Promised!AtWork, Effect
    <3> QED
      BY <2>3, <3>1 DEF Kept, Promised!Next
  <2>6. CASE tx' = tx \/ (tx \in {"none", "open", "broken"} /\ tx' \in {"open", "broken"})
    BY <2>1, <2>3, <2>6 DEF Kept, Promised!vars, Effect
  <2> QED
    BY <2>1, <2>4, <2>5, <2>6
<1>2. CASE CancelMisses
  BY <1>2, Unseen DEF CancelMisses, Once
<1>3. CASE LinkBreaks
  <2>1. Once'
    BY <1>3, OnceShortened DEF LinkBreaks, Once
  <2> QED
    BY <1>3, <2>1, Unseen DEF LinkBreaks
<1>4. CASE SessionEnds
  <2>1. Once'
    BY <1>4 DEF SessionEnds, Once
  <2>2. Promised!Undo
    BY <1>4 DEF SessionEnds, Promised!Undo, Promised!AtWork, Effect
  <2> QED
    BY <2>1, <2>2 DEF Kept, Promised!Next
<1> QED
  BY <1>1, <1>2, <1>3, <1>4 DEF ServerStep

\* The task answers with what it knows, and drops the token after that.
LEMMA ClientKept ==
    ASSUME Inv, Once, ClientStep \/ CleanupFails
    PROVE  Once' /\ Kept
<1>1. CASE Connect
  <2>1. inbox' = <<"begin">> /\ tx' = "none" /\ client' = "working"
        /\ lifetime # "released" /\ UNCHANGED <<tx, reply, lifetime>>
    BY <1>1 DEF Connect, Once, Inv, Connecting
  <2>2. Once'
    BY <2>1 DEF Once
  <2> QED
    BY <2>1, <2>2, Unseen
<1>2. CASE NextStatement \/ Commit \/ StartCleanup \/ RetryRollback
  <2>1. /\ \E message \in Messages \ {"begin"} : Send(message)
        /\ client # "ended" /\ client' # "ended"
        /\ UNCHANGED <<tx, reply, lifetime>>
    BY <1>2 DEF NextStatement, Commit, StartCleanup, RetryRollback, Messages
  <2>2. Once'
    BY <2>1, OnceSent DEF Once
  <2> QED
    BY <2>1, <2>2, Unseen
<1>3. CASE ConnectFails \/ CommitDone \/ CleanedUp \/ CleanupFails
  <2>1. /\ client \in {"connecting", "commit", "cleanup"} /\ client' = "returned"
        /\ \E n \in 0..Len(inbox) : inbox' = SubSeq(inbox, 1, n)
        /\ UNCHANGED <<tx, lifetime, attempted>>
    BY <1>3 DEF ConnectFails, CommitDone, CleanedUp, CleanupFails, Return
  <2>2. /\ reply' \in {"ok", "failed", "cleanup_failed", "unknown"}
        /\ reply' = "ok" => tx = "committed"
        /\ reply' \in {"failed", "cleanup_failed"} => tx # "committed"
    BY <1>3 DEF ConnectFails, CommitDone, CleanedUp, CleanupFails, Return,
       ErrorAfterCleanup, Inv, Committing, Undecided
  <2>3. reply = "none"
    BY <2>1 DEF Inv, Leaving, Left
  <2>4. Once'
    BY <2>1, OnceShortened DEF Once
  <2>5. Promised!Reply
    BY <2>1, <2>2, <2>3 DEF Promised!Reply, Effect
  <2> QED
    BY <2>4, <2>5 DEF Kept, Promised!Next
<1>4. CASE Release
  <2>1. Once'
    BY <1>4 DEF Release, Once
  <2>2. Promised!Release
    BY <1>4 DEF Release, Promised!Release, Effect, Once, Inv, TypeOK, Leaving, Left
  <2> QED
    BY <2>1, <2>2 DEF Kept, Promised!Next
<1> QED
  BY <1>1, <1>2, <1>3, <1>4 DEF ClientStep

\* The PostgreSQL driver keeps the promise of execute_tracked, although its server may
\* still work for a request that was answered: the transaction is decided once, a COMMIT
\* takes effect after the reply only if that was "unknown", and the lifetime is released
\* last.
THEOREM Implementation == Spec => ImplementsExecution
<1>1. Init => Promised!Init /\ Once
  BY DEF Init, Promised!Init, Effect, Once
<1>2. Inv /\ Once /\ [Next]_vars => Once' /\ Kept
  <2>1. ASSUME Inv, Once, Expire \/ Disconnect \/ SendCancel
        PROVE  Once' /\ Kept
    BY <2>1, Unseen DEF Expire, Disconnect, SendCancel, Once
  <2>2. ASSUME Inv, Once, UNCHANGED vars
        PROVE  Once' /\ Kept
    BY <2>2, Unseen DEF vars, Once
  <2> QED
    BY <2>1, <2>2, ServerKept, ClientKept DEF Next
<1> QED
  BY <1>1, <1>2, Invariance, PTL DEF Spec, ImplementsExecution, Promised!Spec, Kept
=============================================================================
