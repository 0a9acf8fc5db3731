---------------------------- MODULE ViewerProofs ----------------------------
(***************************************************************************)
(* The command server and the viewer, for any number of connections and    *)
(* launches, any length of the run and of the histories, any buffers and   *)
(* any faults (but a failed reset, where a theorem says so).               *)
(*                                                                         *)
(* The server, alone: it serves one client at a time, answers each command *)
(* with one line, and lets nothing come between the commands of a session. *)
(* It keeps its invariant whatever its clients do.                         *)
(*                                                                         *)
(* Both: nobody is stranded, and what is on the screen is the run, without *)
(* gap or repetition.  Link says which socket is open to which process;    *)
(* Wire, what the pieces on it mean to their reader; Screen, how what is   *)
(* shown follows from the pieces that were read.                           *)
(***************************************************************************)
EXTENDS Viewer, TLAPS

-----------------------------------------------------------------------------
(* The server.  Its inductive invariant: its properties, and what holds of *)
(* those who are not served.                                               *)

\* One client is served at a time, and who waits is in the backlog once.
OneAtATime ==
    /\ \A c, d \in Conn : Served(c) /\ Served(d) => c = d
    /\ \A i, j \in DOMAIN backlog : backlog[i] = backlog[j] => i = j
    /\ \A c \in Conn : stage[c] = "queued" <=> \E i \in DOMAIN backlog : backlog[i] = c

\* Nothing is on its way when nobody is served, and the server that does not
\* listen serves nobody.
IdleServer ==
    /\ ~Busy => out = <<>>
    /\ Busy => up = "listening"

\* Who was not accepted has not been heard or answered.
Unheard ==
    \A c \in Conn : stage[c] \in {"unused", "queued"} => read[c] = 0 /\ wrote[c] = <<>>

\* The output for a client that is served and there: a body and a newline for
\* every line read, the last of them of the simulation as it is.
Alternates(s, n) ==
    /\ Len(s) = 2 * n
    /\ \A i \in 1..Len(s) : s[i] = Newline <=> i % 2 = 0
Current(s, n) == n > 0 => s[2 * n - 1].sim = sim
Session(c) ==
    Served(c) /\ open[c] =>
        Alternates(Output(c), read[c]) /\ Current(Output(c), read[c])

\* The replies follow from each other.
Follows(s, cmds, n) ==
    \A k \in 2..n : 2 * k - 1 <= Len(s) => Answers(cmds[k], s[2 * k - 3].sim, s[2 * k - 1])
Replies(c) == open[c] => Follows(Output(c), sent[c], read[c])

Heard == \A c \in Conn : read[c] <= Len(sent[c])

Inv ==
    /\ TypeInvariant
    /\ OneAtATime
    /\ IdleServer
    /\ Unheard
    /\ Heard
    /\ \A c \in Conn : Session(c) /\ Replies(c)

-----------------------------------------------------------------------------
(* Sequences.                                                              *)

\* A piece that is written leaves the output as it was.
LEMMA Moved ==
    ASSUME NEW S, NEW w \in Seq(S), NEW o \in Seq(S), o # <<>>
    PROVE  Append(w, Head(o)) \o Tail(o) = w \o o
<1> DEFINE a == Append(w, Head(o)) \o Tail(o)
           b == w \o o
<1>1. Head(o) \in S /\ Tail(o) \in Seq(S) /\ Len(Tail(o)) = Len(o) - 1
  OBVIOUS
<1>2. a \in Seq(S) /\ b \in Seq(S) /\ Len(a) = Len(b)
  BY <1>1
<1>3. ASSUME NEW i \in 1..Len(b) PROVE a[i] = b[i]
  BY <1>1, <1>2
<1>4. QED
  BY <1>2, <1>3

\* Types of what is made of the simulation.
LEMMA RunTypes ==
    ASSUME NEW s \in Run
    PROVE  Stepped(s) \in Run /\ Fresh(s) \in Run
BY LengthAssumption DEF Run, Stepped, Fresh, Done

LEMMA ReplyTypes ==
    ASSUME NEW s \in Run, NEW what \in {"snapshot", "error"}
    PROVE  /\ Reply(what, s) \in Seq(Piece)
           /\ Len(Reply(what, s)) = 2
           /\ Reply(what, s)[1] = [what |-> what, sim |-> s]
           /\ Reply(what, s)[1] # Newline
           /\ Reply(what, s)[2] = Newline
<1>1. [run |-> 0, tick |-> 0] \in Run
  BY LengthAssumption DEF Run
<1>2. Newline \in Piece /\ [what |-> what, sim |-> s] \in Piece
  BY <1>1 DEF Newline, Piece
<1>3. [what |-> what, sim |-> s].what # Newline.what
  BY DEF Newline
<1>4. QED
  BY <1>2, <1>3 DEF Reply

\* One more reply.
LEMMA Longer ==
    ASSUME NEW s \in Seq(Piece), NEW n \in Nat, Alternates(s, n),
           NEW p \in Piece, p # Newline, Newline \in Piece
    PROVE  LET t == s \o <<p, Newline>>
           IN  /\ t \in Seq(Piece)
               /\ Alternates(t, n + 1)
               /\ t[2 * n + 1] = p
               /\ \A i \in 1..Len(s) : t[i] = s[i]
<1> DEFINE t == s \o <<p, Newline>>
<1>1. /\ t \in Seq(Piece) /\ Len(t) = Len(s) + 2
      /\ \A i \in 1..Len(s) : t[i] = s[i]
      /\ t[Len(s) + 1] = p /\ t[Len(s) + 2] = Newline
  OBVIOUS
<1>2. Len(s) = 2 * n
  BY DEF Alternates
<1> HIDE DEF t
<1>3. ASSUME NEW i \in 1..Len(t) PROVE t[i] = Newline <=> i % 2 = 0
  <2>1. CASE i \in 1..Len(s)
    BY <1>1, <2>1 DEF Alternates
  <2>2. CASE i = 2 * n + 1
    <3>1. i % 2 = 1
      BY <2>2
    <3>2. QED
      BY <1>1, <1>2, <2>2, <3>1
  <2>3. CASE i = 2 * n + 2
    <3>1. i % 2 = 0
      BY <2>3
    <3>2. QED
      BY <1>1, <1>2, <2>3, <3>1
  <2>4. QED
    BY <1>1, <1>2, <2>1, <2>2, <2>3
<1>4. Alternates(t, n + 1)
  BY <1>1, <1>2, <1>3 DEF Alternates
<1>5. QED
  BY <1>1, <1>2, <1>4 DEF t

-----------------------------------------------------------------------------
(* The server's steps.                                                     *)

LEMMA NewlineType == Newline \in Piece
BY LengthAssumption DEF Newline, Piece, Run

\* What every command comes to: the line is read, and the reply that answers it
\* is of the simulation as it now is.
Answered(c, p) ==
    /\ Served(c) /\ out = <<>>
    /\ read[c] < Len(sent[c])
    /\ read' = [read EXCEPT ![c] = @ + 1]
    /\ Answers(sent[c][read[c] + 1], sim, p)
    /\ p \in Piece /\ p # Newline /\ p.sim = sim'
    /\ out' = <<p, Newline>>
    /\ sim' \in Run
    /\ UNCHANGED <<up, stage, open, backlog, sent, wrote, taken>>

LEMMA HandleAnswers ==
    ASSUME TypeInvariant, NEW c \in Conn, Handle(c)
    PROVE  \E p \in Piece : Answered(c, p)
<1>1. sim \in Run
  BY DEF TypeInvariant
<1>2. Stepped(sim) \in Run /\ Fresh(sim) \in Run
  BY <1>1, RunTypes
<1>3. ASSUME NEW r \in Run, NEW what \in {"snapshot", "error"}
      PROVE  /\ [what |-> what, sim |-> r] \in Piece
             /\ [what |-> what, sim |-> r] # Newline
             /\ Reply(what, r) = <<[what |-> what, sim |-> r], Newline>>
  <2>1. [what |-> what, sim |-> r].what # Newline.what
    BY DEF Newline
  <2>2. QED
    BY <2>1 DEF Piece, Reply
<1>4. CASE HandleStep(c)
  <2> DEFINE p == [what |-> "snapshot", sim |-> Stepped(sim)]
  <2>1. p \in Piece /\ Answered(c, p)
    BY <1>2, <1>3, <1>4 DEF HandleStep, NextLine, Answered, Answers
  <2>2. QED
    BY <2>1
<1>5. CASE HandleStatus(c)
  <2> DEFINE p == [what |-> "snapshot", sim |-> sim]
  <2>1. p \in Piece /\ Answered(c, p)
    BY <1>1, <1>3, <1>5 DEF HandleStatus, NextLine, Answered, Answers
  <2>2. QED
    BY <2>1
<1>6. CASE HandleReset(c) /\ sim' = Fresh(sim) /\ out' = Reply("snapshot", sim')
  <2> DEFINE p == [what |-> "snapshot", sim |-> Fresh(sim)]
  <2>1. p \in Piece /\ Answered(c, p)
    BY <1>2, <1>3, <1>6 DEF HandleReset, NextLine, Answered, Answers
  <2>2. QED
    BY <2>1
<1>7. CASE HandleReset(c) /\ sim' = sim /\ out' = Reply("error", sim)
  <2> DEFINE p == [what |-> "error", sim |-> sim]
  <2>1. p \in Piece /\ Answered(c, p)
    BY <1>1, <1>3, <1>7 DEF HandleReset, NextLine, Answered, Answers
  <2>2. QED
    BY <2>1
<1>8. CASE HandleInvalid(c)
  <2> DEFINE p == [what |-> "error", sim |-> sim]
  <2>1. p \in Piece /\ Answered(c, p)
    BY <1>1, <1>3, <1>8 DEF HandleInvalid, NextLine, Answered, Answers
  <2>2. QED
    BY <2>1
<1>9. QED
  BY <1>4, <1>5, <1>6, <1>7, <1>8 DEF Handle, HandleReset

\* A command that is answered keeps the invariant.
LEMMA AnsweredInv ==
    ASSUME Inv, NEW c \in Conn, NEW p \in Piece, Answered(c, p)
    PROVE  Inv'
<1> DEFINE n == read[c]
           w == wrote[c]
           t == w \o <<p, Newline>>
<1>1. TypeInvariant /\ OneAtATime /\ Session(c) /\ Replies(c)
  BY DEF Inv
<1>2. n \in Nat /\ w \in Seq(Piece) /\ read' = [read EXCEPT ![c] = n + 1] /\ read'[c] = n + 1
  BY <1>1 DEF TypeInvariant, Answered
<1>3. Output(c) = w /\ Output(c)' = t
  BY <1>2 DEF Output, Served, Answered
<1>4. ASSUME NEW d \in Conn, d # c
      PROVE  /\ ~Served(d) /\ ~Served(d)' /\ read'[d] = read[d]
             /\ Output(d)' = Output(d)
  <2>1. ~Served(d) /\ ~Served(d)'
    BY <1>1, <1>4 DEF OneAtATime, Answered, Served
  <2>2. read'[d] = read[d]
    BY <1>1, <1>2, <1>4 DEF TypeInvariant
  <2>3. QED
    BY <2>1, <2>2 DEF Output, Answered
<1>5. TypeInvariant'
  <2>1. read' \in [Conn -> Nat]
    BY <1>1, <1>2 DEF TypeInvariant
  <2>2. out' \in Seq(Piece)
    BY NewlineType DEF Answered
  <2>3. QED
    BY <1>1, <2>1, <2>2 DEF TypeInvariant, Answered
<1>6. OneAtATime'
  BY <1>1 DEF OneAtATime, Served, Answered
<1>7. IdleServer'
  BY DEF Inv, IdleServer, Busy, Served, Answered
<1>8. Unheard' /\ Heard'
  BY <1>1, <1>2, <1>4 DEF Inv, Unheard, Heard, Served, Answered, TypeInvariant
<1>9. ASSUME open[c]
      PROVE  Session(c)' /\ Replies(c)'
  <2>1. Alternates(w, n) /\ Current(w, n) /\ Follows(w, sent[c], n)
    BY <1>1, <1>3, <1>9 DEF Session, Replies, Answered
  <2>2. /\ t \in Seq(Piece) /\ Alternates(t, n + 1) /\ t[2 * n + 1] = p
        /\ \A i \in 1..Len(w) : t[i] = w[i]
    <3>1. p # Newline
      BY DEF Answered
    <3>2. QED
      BY <1>2, <2>1, <3>1, NewlineType, Longer, Zenon
  <2>3. Len(w) = 2 * n
    BY <2>1 DEF Alternates
  <2> HIDE DEF t, w
  <2>4. t[2 * (n + 1) - 1].sim = sim'
    <3>1. 2 * (n + 1) - 1 = 2 * n + 1
      BY <1>2
    <3>2. QED
      BY <2>2, <3>1 DEF Answered
  <2>5. Session(c)'
    BY <1>2, <1>3, <2>2, <2>4 DEF Session, Current, Alternates
  <2>6. ASSUME NEW k \in 2..(n + 1), 2 * k - 1 <= Len(t)
        PROVE  Answers(sent[c][k], t[2 * k - 3].sim, t[2 * k - 1])
    <3>1. CASE k \in 2..n
      <4>1. 2 * k - 3 \in 1..Len(w) /\ 2 * k - 1 \in 1..Len(w)
        BY <1>2, <2>3, <3>1
      <4>2. t[2 * k - 3] = w[2 * k - 3] /\ t[2 * k - 1] = w[2 * k - 1]
        BY <2>2, <4>1
      <4>3. QED
        BY <2>1, <3>1, <4>1, <4>2 DEF Follows
    <3>2. CASE k = n + 1
      <4>1. n > 0 /\ 2 * k - 3 = 2 * n - 1 /\ 2 * k - 1 = 2 * n + 1
        BY <1>2, <3>2
      <4>2. t[2 * k - 3] = w[2 * n - 1]
        <5>1. 2 * n - 1 \in 1..Len(w)
          BY <1>2, <2>3, <4>1
        <5>2. QED
          BY <2>2, <4>1, <5>1
      <4>3. w[2 * n - 1].sim = sim
        BY <2>1, <4>1 DEF Current
      <4>4. Answers(sent[c][k], sim, p)
        BY <3>2 DEF Answered
      <4>5. QED
        BY <2>2, <4>1, <4>2, <4>3, <4>4
    <3>3. QED
      BY <1>2, <3>1, <3>2
  <2>7. Follows(t, sent[c], n + 1)
    BY <2>6 DEF Follows
  <2>8. sent' = sent
    BY DEF Answered
  <2>9. QED
    BY <1>2, <1>3, <2>5, <2>7, <2>8 DEF Replies
<1>10. \A d \in Conn : Session(d)' /\ Replies(d)'
  <2>1. open' = open /\ sent' = sent
    BY DEF Answered
  <2>2. ASSUME NEW d \in Conn
        PROVE  Session(d)' /\ Replies(d)'
    <3>1. CASE d = c /\ open[c]
      BY <1>9, <3>1
    <3>2. CASE d = c /\ ~open[c]
      BY <2>1, <3>2 DEF Session, Replies
    <3>3. CASE d # c
      <4>1. Replies(d)
        BY DEF Inv
      <4>2. QED
        BY <1>4, <2>1, <3>3, <4>1 DEF Session, Replies
    <3>4. QED
      BY <3>1, <3>2, <3>3
  <2>3. QED
    BY <2>2
<1>11. QED
  BY <1>5, <1>6, <1>7, <1>8, <1>10 DEF Inv

\* Whatever leaves the lines read and the outputs of those who are there as they
\* are: one who comes has no output yet.
LEMMA Quiet ==
    ASSUME Inv, read' = read,
           \A d \in Conn : open'[d] /\ read[d] > 0 =>
               /\ open[d] /\ Output(d)' = Output(d)
               /\ \A k \in 1..read[d] : sent'[d][k] = sent[d][k],
           \A d \in Conn : Served(d)' /\ open'[d] =>
               \/ read[d] = 0 /\ Output(d)' = <<>>
               \/ Served(d) /\ open[d] /\ sim' = sim /\ Output(d)' = Output(d)
    PROVE  \A d \in Conn : Session(d)' /\ Replies(d)'
<1>1. ASSUME NEW d \in Conn
      PROVE  Session(d)' /\ Replies(d)'
  <2>1. Session(d) /\ Replies(d) /\ read[d] \in Nat
    BY DEF Inv, TypeInvariant
  <2>2. Session(d)'
    <3>1. CASE read[d] = 0 /\ Output(d)' = <<>>
      BY <3>1 DEF Session, Alternates, Current
    <3>2. CASE Served(d) /\ open[d] /\ sim' = sim /\ Output(d)' = Output(d)
      BY <2>1, <3>2 DEF Session, Current
    <3>3. QED
      BY <3>1, <3>2 DEF Session
  <2>3. Replies(d)'
    <3>1. SUFFICES ASSUME open'[d], NEW k \in 2..read[d], 2 * k - 1 <= Len(Output(d)')
                   PROVE  Answers(sent'[d][k], Output(d)'[2 * k - 3].sim, Output(d)'[2 * k - 1])
      BY DEF Replies, Follows
    <3>2. read[d] > 0 /\ k \in 1..read[d]
      BY <2>1, <3>1
    <3>3. open[d] /\ Output(d)' = Output(d) /\ sent'[d][k] = sent[d][k]
      BY <3>1, <3>2
    <3>4. Answers(sent[d][k], Output(d)[2 * k - 3].sim, Output(d)[2 * k - 1])
      BY <2>1, <3>1, <3>3 DEF Replies, Follows
    <3>5. QED
      BY <3>3, <3>4
  <2>4. QED
    BY <2>2, <2>3
<1>2. QED
  BY <1>1

LEMMA ConnectInv == ASSUME Inv, NEW c \in Conn, Connect(c) PROVE Inv'
<1>1. TypeInvariant /\ OneAtATime /\ IdleServer /\ Unheard /\ Heard
  BY DEF Inv
<1>2. /\ stage[c] = "unused" /\ backlog \in Seq(Conn)
      /\ stage' = [stage EXCEPT ![c] = "queued"]
      /\ backlog' = Append(backlog, c)
      /\ read[c] = 0 /\ wrote[c] = <<>>
  BY <1>1 DEF TypeInvariant, Connect, Unheard
<1>3. \A i \in DOMAIN backlog : backlog[i] # c
  BY <1>1, <1>2 DEF OneAtATime
<1>4. TypeInvariant'
  BY <1>1, <1>2 DEF TypeInvariant, Connect
<1>5. \A d \in Conn : Served(d)' <=> Served(d)
  BY <1>1, <1>2 DEF Served, TypeInvariant
<1>6. OneAtATime'
  <2>1. \A d, e \in Conn : Served(d)' /\ Served(e)' => d = e
    BY <1>1, <1>5 DEF OneAtATime
  <2>2. /\ DOMAIN backlog' = 1..(Len(backlog) + 1)
        /\ \A i \in DOMAIN backlog : i \in DOMAIN backlog' /\ backlog'[i] = backlog[i]
        /\ backlog'[Len(backlog) + 1] = c
    BY <1>2
  <2>3. \A i, j \in DOMAIN backlog' : backlog'[i] = backlog'[j] => i = j
    BY <1>1, <1>2, <1>3, <2>2 DEF OneAtATime
  <2>4. ASSUME NEW d \in Conn
        PROVE  stage'[d] = "queued" <=> \E i \in DOMAIN backlog' : backlog'[i] = d
    <3>1. CASE d = c
      BY <1>1, <1>2, <2>2, <3>1 DEF TypeInvariant
    <3>2. CASE d # c
      <4>1. stage'[d] = stage[d] /\ DOMAIN backlog = 1..Len(backlog) /\ Len(backlog) \in Nat
        BY <1>1, <1>2, <3>2 DEF TypeInvariant
      <4>2. (\E i \in DOMAIN backlog' : backlog'[i] = d)
              <=> (\E i \in DOMAIN backlog : backlog[i] = d)
        BY <2>2, <3>2, <4>1
      <4>3. QED
        BY <1>1, <4>1, <4>2 DEF OneAtATime
    <3>3. QED
      BY <3>1, <3>2
  <2>5. QED
    BY <2>1, <2>3, <2>4 DEF OneAtATime
<1>7. IdleServer'
  BY <1>1, <1>5 DEF IdleServer, Busy, Connect
<1>8. Unheard' /\ Heard'
  BY <1>1, <1>2 DEF Unheard, Heard, Connect, TypeInvariant
<1>9. \A d \in Conn : Session(d)' /\ Replies(d)'
  <2>1. \A d \in Conn : Output(d)' = Output(d)
    BY <1>5 DEF Output, Connect
  <2>2. \A d \in Conn : open'[d] => open[d] \/ d = c
    BY <1>1 DEF TypeInvariant, Connect
  <2>3. ~Served(c)
    BY <1>2 DEF Served
  <2>4. QED
    BY <1>2, <1>5, <2>1, <2>2, <2>3, Quiet DEF Connect
<1>10. QED
  BY <1>4, <1>6, <1>7, <1>8, <1>9 DEF Inv

LEMMA WrittenInv == ASSUME Inv, NEW c \in Conn, NEW cmd \in Command, Written(c, cmd) PROVE Inv'
<1>1. TypeInvariant /\ OneAtATime /\ IdleServer /\ Unheard /\ Heard
  BY DEF Inv
<1>2. /\ sent' = [sent EXCEPT ![c] = Append(sent[c], cmd)] /\ sent \in [Conn -> Seq(Command)]
      /\ UNCHANGED <<up, sim, stage, open, backlog, out, read, wrote, taken>>
  BY <1>1 DEF TypeInvariant, Written
<1>3. ASSUME NEW d \in Conn
      PROVE  /\ sent'[d] \in Seq(Command) /\ Len(sent'[d]) >= Len(sent[d])
             /\ \A k \in 1..Len(sent[d]) : sent'[d][k] = sent[d][k]
  <2>1. sent[d] \in Seq(Command) /\ sent'[d] \in {sent[d], Append(sent[d], cmd)}
    BY <1>2
  <2>2. QED
    BY <2>1
<1>4. TypeInvariant'
  BY <1>1, <1>2 DEF TypeInvariant
<1>5. OneAtATime' /\ IdleServer' /\ Unheard'
  BY <1>1, <1>2 DEF OneAtATime, IdleServer, Busy, Unheard, Served
<1>6. Heard'
  BY <1>1, <1>2, <1>3 DEF Heard, TypeInvariant
<1>7. \A d \in Conn : Session(d)' /\ Replies(d)'
  <2>1. \A d \in Conn : Output(d)' = Output(d) /\ (Served(d)' <=> Served(d))
    BY <1>2 DEF Output, Served
  <2>2. \A d \in Conn : \A k \in 1..read[d] : sent'[d][k] = sent[d][k]
    BY <1>1, <1>2, <1>3 DEF Heard, TypeInvariant
  <2>3. QED
    BY <1>2, <2>1, <2>2, Quiet
<1>8. QED
  BY <1>4, <1>5, <1>6, <1>7 DEF Inv

LEMMA ReceiveInv == ASSUME Inv, NEW c \in Conn, Receive(c) PROVE Inv'
<1>1. TypeInvariant'
  BY DEF Inv, TypeInvariant, Receive
<1>2. OneAtATime' /\ IdleServer' /\ Unheard' /\ Heard'
  BY DEF Inv, OneAtATime, IdleServer, Busy, Unheard, Heard, Served, Receive
<1>3. \A d \in Conn : Session(d)' /\ Replies(d)'
  <2>1. \A d \in Conn : Output(d)' = Output(d) /\ (Served(d)' <=> Served(d))
    BY DEF Output, Served, Receive
  <2>2. QED
    BY <2>1, Quiet DEF Receive
<1>4. QED
  BY <1>1, <1>2, <1>3 DEF Inv

LEMMA CloseInv == ASSUME Inv, NEW c \in Conn, Close(c) PROVE Inv'
<1>1. TypeInvariant'
  BY DEF Inv, TypeInvariant, Close
<1>2. OneAtATime' /\ IdleServer' /\ Unheard' /\ Heard'
  BY DEF Inv, OneAtATime, IdleServer, Busy, Unheard, Heard, Served, Close
<1>3. \A d \in Conn : Session(d)' /\ Replies(d)'
  <2>1. \A d \in Conn : Output(d)' = Output(d) /\ (Served(d)' <=> Served(d))
    BY DEF Output, Served, Close
  <2>2. \A d \in Conn : open'[d] => open[d]
    BY DEF Inv, TypeInvariant, Close
  <2>3. QED
    BY <2>1, <2>2, Quiet DEF Close
<1>4. QED
  BY <1>1, <1>2, <1>3 DEF Inv

LEMMA StartInv == ASSUME Inv, Start PROVE Inv'
<1>1. TypeInvariant /\ IdleServer /\ up = "starting"
  BY DEF Inv, Start
<1>2. \A d \in Conn : ~Served(d) /\ ~Served(d)' /\ Output(d)' = Output(d)
  BY <1>1 DEF IdleServer, Busy, Served, Output, Start
<1>3. TypeInvariant'
  BY <1>1, RunTypes DEF TypeInvariant, Start
<1>4. OneAtATime' /\ IdleServer' /\ Unheard' /\ Heard'
  BY <1>2 DEF Inv, OneAtATime, IdleServer, Busy, Unheard, Heard, Served, Start
<1>5. \A d \in Conn : Session(d)' /\ Replies(d)'
  BY <1>2, Quiet DEF Start
<1>6. QED
  BY <1>3, <1>4, <1>5 DEF Inv

LEMMA AcceptInv == ASSUME Inv, Accept PROVE Inv'
<1> DEFINE c == Head(backlog)
<1>1. TypeInvariant /\ OneAtATime /\ IdleServer /\ Unheard /\ Heard
  BY DEF Inv
<1>2. /\ backlog \in Seq(Conn) /\ backlog # <<>> /\ backlog' = Tail(backlog)
      /\ stage' = [stage EXCEPT ![c] = "served"]
      /\ UNCHANGED <<up, sim, open, out, sent, read, wrote, taken>>
      /\ up = "listening" /\ out = <<>> /\ \A d \in Conn : ~Served(d)
  BY <1>1 DEF TypeInvariant, Accept, IdleServer, Busy
<1>3. /\ c \in Conn /\ c = backlog[1] /\ 1 \in DOMAIN backlog
      /\ backlog' \in Seq(Conn)
      /\ DOMAIN backlog' = 1..(Len(backlog) - 1)
      /\ DOMAIN backlog = 1..Len(backlog) /\ Len(backlog) \in Nat
      /\ \A i \in DOMAIN backlog' : backlog'[i] = backlog[i + 1]
  BY <1>2
<1>4. stage[c] = "queued"
  BY <1>1, <1>3 DEF OneAtATime
<1>5. read[c] = 0 /\ wrote[c] = <<>>
  BY <1>1, <1>3, <1>4 DEF Unheard
<1> HIDE DEF c
<1>6. \A d \in Conn : Served(d)' <=> d = c
  BY <1>1, <1>2, <1>3 DEF Served, TypeInvariant
<1>7. TypeInvariant'
  BY <1>1, <1>2, <1>3 DEF TypeInvariant
<1>8. OneAtATime'
  <2>1. \A i \in DOMAIN backlog' : i \in DOMAIN backlog /\ i + 1 \in DOMAIN backlog
    BY <1>3
  <2>2. \A i, j \in DOMAIN backlog' : backlog'[i] = backlog'[j] => i = j
    <3>1. SUFFICES ASSUME NEW i \in DOMAIN backlog', NEW j \in DOMAIN backlog',
                          backlog'[i] = backlog'[j]
                   PROVE  i = j
      OBVIOUS
    <3>2. i + 1 = j + 1
      BY <1>1, <1>3, <2>1, <3>1 DEF OneAtATime
    <3>3. QED
      BY <1>3, <3>2
  <2>3. ASSUME NEW d \in Conn
        PROVE  stage'[d] = "queued" <=> \E i \in DOMAIN backlog' : backlog'[i] = d
    <3>1. CASE d = c
      <4>1. stage'[d] # "queued"
        BY <1>1, <1>2, <1>3, <3>1 DEF TypeInvariant
      <4>2. ASSUME NEW i \in DOMAIN backlog', backlog'[i] = d PROVE FALSE
        <5>1. i + 1 = 1
          BY <1>1, <1>3, <2>1, <3>1, <4>2 DEF OneAtATime
        <5>2. QED
          BY <1>3, <5>1
      <4>3. QED
        BY <4>1, <4>2
    <3>2. CASE d # c
      <4>1. stage'[d] = stage[d]
        BY <1>1, <1>2, <3>2 DEF TypeInvariant
      <4>2. ASSUME NEW i \in DOMAIN backlog, backlog[i] = d
            PROVE  i - 1 \in DOMAIN backlog' /\ backlog'[i - 1] = d
        <5>1. i # 1
          BY <1>3, <3>2, <4>2
        <5>2. i - 1 \in DOMAIN backlog' /\ (i - 1) + 1 = i
          BY <1>3, <5>1
        <5>3. QED
          BY <1>3, <4>2, <5>2
      <4>3. (\E i \in DOMAIN backlog' : backlog'[i] = d)
              <=> (\E i \in DOMAIN backlog : backlog[i] = d)
        BY <1>3, <2>1, <4>2
      <4>4. QED
        BY <1>1, <4>1, <4>3 DEF OneAtATime
    <3>3. QED
      BY <3>1, <3>2
  <2>4. QED
    BY <1>6, <2>2, <2>3 DEF OneAtATime
<1>9. IdleServer'
  BY <1>2 DEF IdleServer
<1>10. Unheard' /\ Heard'
  BY <1>1, <1>2, <1>3, <1>5 DEF Unheard, Heard, TypeInvariant
<1>11. \A d \in Conn : Session(d)' /\ Replies(d)'
  <2>1. ASSUME NEW d \in Conn PROVE Output(d)' = Output(d)
    <3>1. wrote'[d] = wrote[d] /\ out' = <<>> /\ wrote[d] \in Seq(Piece)
      BY <1>1, <1>2 DEF TypeInvariant
    <3>2. QED
      BY <1>2, <3>1 DEF Output
  <2>2. Output(c) = <<>>
    BY <1>2, <1>3, <1>5 DEF Output
  <2>3. QED
    BY <1>2, <1>3, <1>5, <1>6, <2>1, <2>2, Quiet
<1>12. QED
  BY <1>7, <1>8, <1>9, <1>10, <1>11 DEF Inv

\* What was written to c begins what was on its way to it.
LEMMA WroteFirst ==
    ASSUME TypeInvariant, NEW c \in Conn
    PROVE  /\ wrote[c] \in Seq(Piece) /\ Output(c) \in Seq(Piece)
           /\ Len(wrote[c]) <= Len(Output(c))
           /\ \A i \in 1..Len(wrote[c]) : Output(c)[i] = wrote[c][i]
<1> DEFINE w == wrote[c]
           o == IF Served(c) THEN out ELSE <<>>
<1>1. w \in Seq(Piece) /\ o \in Seq(Piece) /\ Output(c) = w \o o
  BY DEF TypeInvariant, Output
<1> HIDE DEF w, o
<1>2. QED
  BY <1>1 DEF w

\* The process ends: what was not written never will be.
LEMMA EndInv == ASSUME Inv, EndProcess, up' \in {"starting", "exited"} PROVE Inv'
<1>1. TypeInvariant /\ OneAtATime /\ IdleServer /\ Unheard /\ Heard
  BY DEF Inv
<1>2. \A d \in Conn : stage'[d] \in {"unused", "over"} /\ (stage'[d] = "unused" => stage[d] = "unused")
  BY <1>1 DEF TypeInvariant, EndProcess
<1>3. \A d \in Conn : ~Served(d)'
  BY <1>2 DEF Served
<1>4. TypeInvariant'
  BY <1>1 DEF TypeInvariant, EndProcess
<1>5. OneAtATime'
  BY <1>2, <1>3 DEF OneAtATime, EndProcess
<1>6. IdleServer' /\ Unheard' /\ Heard'
  BY <1>1, <1>2, <1>3 DEF IdleServer, Busy, Unheard, Heard, EndProcess
<1>7. ASSUME NEW d \in Conn PROVE Session(d)' /\ Replies(d)'
  <2>1. Output(d)' = wrote[d]
    <3>1. wrote' = wrote /\ wrote[d] \in Seq(Piece) /\ out' = <<>>
      BY <1>1 DEF TypeInvariant, EndProcess
    <3>2. Output(d)' = wrote[d] \o <<>>
      BY <3>1 DEF Output
    <3>3. QED
      BY <3>1, <3>2
  <2>2. SUFFICES ASSUME open[d], NEW k \in 2..read[d], 2 * k - 1 <= Len(wrote[d])
                 PROVE  Answers(sent[d][k], wrote[d][2 * k - 3].sim, wrote[d][2 * k - 1])
    BY <1>3, <2>1 DEF Session, Replies, Follows, EndProcess
  <2>3. 2 * k - 3 \in 1..Len(wrote[d]) /\ 2 * k - 1 \in 1..Len(wrote[d])
    BY <1>1, <2>2 DEF TypeInvariant
  <2>4. Answers(sent[d][k], Output(d)[2 * k - 3].sim, Output(d)[2 * k - 1])
    <3>1. 2 * k - 1 <= Len(Output(d))
      BY <1>1, <2>2, <2>3, WroteFirst
    <3>2. QED
      BY <2>2, <3>1 DEF Inv, Replies, Follows
  <2>5. QED
    BY <1>1, <2>3, <2>4, WroteFirst
<1>8. QED
  BY <1>4, <1>5, <1>6, <1>7 DEF Inv

LEMMA AcceptFailsInv == ASSUME Inv, AcceptFails PROVE Inv'
BY EndInv DEF AcceptFails

LEMMA WriteInv == ASSUME Inv, NEW c \in Conn, Write(c) PROVE Inv'
<1>1. TypeInvariant /\ OneAtATime /\ IdleServer /\ Unheard /\ Heard
  BY DEF Inv
<1>2. /\ wrote[c] \in Seq(Piece) /\ out \in Seq(Piece) /\ out # <<>> /\ Served(c)
      /\ wrote' = [wrote EXCEPT ![c] = Append(wrote[c], Head(out))] /\ out' = Tail(out)
      /\ UNCHANGED <<up, sim, stage, open, backlog, sent, read, taken>>
  BY <1>1 DEF TypeInvariant, Write
<1>3. \A d \in Conn : Served(d)' <=> Served(d)
  BY <1>2 DEF Served
<1>4. Output(c)' = Output(c)
  <2>1. Append(wrote[c], Head(out)) \o Tail(out) = wrote[c] \o out
    BY <1>2, Moved
  <2>2. wrote'[c] = Append(wrote[c], Head(out))
    BY <1>1, <1>2 DEF TypeInvariant
  <2>3. QED
    BY <1>2, <1>3, <2>1, <2>2 DEF Output
<1>5. ASSUME NEW d \in Conn, d # c PROVE wrote'[d] = wrote[d] /\ ~Served(d) /\ Output(d)' = Output(d)
  <2>1. wrote'[d] = wrote[d] /\ ~Served(d)
    BY <1>1, <1>2, <1>5 DEF TypeInvariant, OneAtATime
  <2>2. QED
    BY <1>3, <2>1 DEF Output
<1>6. TypeInvariant'
  BY <1>1, <1>2 DEF TypeInvariant
<1>7. OneAtATime' /\ IdleServer' /\ Heard'
  BY <1>1, <1>2, <1>3 DEF OneAtATime, IdleServer, Busy, Heard
<1>8. Unheard'
  BY <1>1, <1>2, <1>5 DEF Unheard, Served
<1>9. \A d \in Conn : Session(d)' /\ Replies(d)'
  BY <1>2, <1>3, <1>4, <1>5, Quiet
<1>10. QED
  BY <1>6, <1>7, <1>8, <1>9 DEF Inv

\* Whoever is hung up on is not there any more.
LEMMA HangUpInv == ASSUME Inv, NEW c \in Conn, Served(c), ~open[c], HangUp(c) PROVE Inv'
<1>1. TypeInvariant /\ OneAtATime /\ IdleServer /\ Unheard /\ Heard
  BY DEF Inv
<1>2. stage'[c] = "over" /\ \A d \in Conn : d # c => stage'[d] = stage[d] /\ ~Served(d)
  BY <1>1 DEF TypeInvariant, OneAtATime, HangUp
<1>3. \A d \in Conn : ~Served(d)' /\ (d # c => Output(d)' = Output(d))
  BY <1>2 DEF Served, Output, HangUp
<1>4. TypeInvariant'
  BY <1>1 DEF TypeInvariant, HangUp
<1>5. OneAtATime'
  <2>1. \A d \in Conn : stage'[d] = "queued" <=> stage[d] = "queued"
    BY <1>2 DEF Served
  <2>2. QED
    BY <1>1, <1>3, <2>1 DEF OneAtATime, HangUp
<1>6. IdleServer' /\ Unheard' /\ Heard'
  BY <1>1, <1>2, <1>3 DEF IdleServer, Busy, Unheard, Heard, HangUp
<1>7. \A d \in Conn : Session(d)' /\ Replies(d)'
  BY <1>3, Quiet DEF HangUp
<1>8. QED
  BY <1>4, <1>5, <1>6, <1>7 DEF Inv

LEMMA WriteToNobodyInv == ASSUME Inv, NEW c \in Conn, WriteToNobody(c) PROVE Inv'
<1>1. CASE HangUp(c)
  BY <1>1, HangUpInv DEF WriteToNobody
<1>2. CASE out' = Tail(out) /\ UNCHANGED <<up, sim, stage, open, backlog, sent, read, wrote, taken>>
  <2>1. TypeInvariant /\ OneAtATime /\ IdleServer /\ Unheard /\ Heard
    BY DEF Inv
  <2>2. Served(c) /\ ~open[c] /\ out # <<>> /\ \A d \in Conn : Served(d)' <=> Served(d)
    BY <1>2 DEF WriteToNobody, Served
  <2>3. TypeInvariant'
    BY <1>2, <2>1, <2>2 DEF TypeInvariant
  <2>4. OneAtATime' /\ IdleServer' /\ Unheard' /\ Heard'
    BY <1>2, <2>1, <2>2 DEF OneAtATime, IdleServer, Busy, Unheard, Heard
  <2>5. \A d \in Conn : d # c => Output(d)' = Output(d)
    BY <1>2, <2>1, <2>2 DEF Output, OneAtATime
  <2>6. \A d \in Conn : Session(d)' /\ Replies(d)'
    BY <1>2, <2>2, <2>5, Quiet
  <2>7. QED
    BY <2>3, <2>4, <2>6 DEF Inv
<1>3. QED
  BY <1>1, <1>2 DEF WriteToNobody

-----------------------------------------------------------------------------
(* The theorems.                                                           *)

LEMMA InitInv == ASSUME NEW u \in {"starting", "exited"}, InitAs(u) PROVE Inv
<1>1. TypeInvariant
  BY LengthAssumption DEF InitAs, TypeInvariant, Run
<1>2. OneAtATime /\ IdleServer /\ Unheard /\ Heard
  BY DEF InitAs, OneAtATime, IdleServer, Busy, Unheard, Heard, Served
<1>3. \A c \in Conn : Session(c) /\ Replies(c)
  BY DEF InitAs, Session, Replies
<1>4. QED
  BY <1>1, <1>2, <1>3 DEF Inv

LEMMA ServeInv == ASSUME Inv, Serve PROVE Inv'
<1>1. CASE Start
  BY <1>1, StartInv
<1>2. CASE Accept
  BY <1>2, AcceptInv
<1>3. ASSUME NEW c \in Conn, Handle(c) PROVE Inv'
  <2>1. \E p \in Piece : Answered(c, p)
    BY <1>3, HandleAnswers DEF Inv
  <2>2. QED
    BY <2>1, AnsweredInv
<1>4. ASSUME NEW c \in Conn, Write(c) PROVE Inv'
  BY <1>4, WriteInv
<1>5. ASSUME NEW c \in Conn, WriteToNobody(c) PROVE Inv'
  BY <1>5, WriteToNobodyInv
<1>6. ASSUME NEW c \in Conn, EndOfInput(c) PROVE Inv'
  BY <1>6, HangUpInv DEF EndOfInput
<1>7. QED
  BY <1>1, <1>2, <1>3, <1>4, <1>5, <1>6 DEF Serve

LEMMA StutterInv == ASSUME Inv, UNCHANGED serverVars PROVE Inv'
<1>1. TypeInvariant' /\ OneAtATime' /\ IdleServer' /\ Unheard' /\ Heard'
  BY DEF Inv, TypeInvariant, OneAtATime, IdleServer, Busy, Unheard, Heard, Served, serverVars
<1>2. \A c \in Conn : Output(c)' = Output(c) /\ (Served(c)' <=> Served(c))
  BY DEF Output, Served, serverVars
<1>3. \A c \in Conn : Session(c)' /\ Replies(c)'
  BY <1>2, Quiet DEF serverVars
<1>4. QED
  BY <1>1, <1>3 DEF Inv

LEMMA StepInv == ASSUME Inv, [Next]_serverVars PROVE Inv'
<1>1. CASE Serve
  BY <1>1, ServeInv
<1>2. CASE AcceptFails
  BY <1>2, AcceptFailsInv
<1>3. ASSUME NEW c \in Conn, ClientStep(c) PROVE Inv'
  BY <1>3, ConnectInv, WrittenInv, ReceiveInv, CloseInv DEF ClientStep, Send
<1>4. CASE UNCHANGED serverVars
  BY <1>4, StutterInv
<1>5. QED
  BY <1>1, <1>2, <1>3, <1>4 DEF Next, ServerStep

LEMMA Invariance == Spec => []Inv
<1>1. Init => Inv
  BY InitInv DEF Init
<1>2. Inv /\ [Next]_serverVars => Inv'
  BY StepInv
<1>3. QED
  BY <1>1, <1>2, PTL DEF Spec

\* Each command line is answered by one line, in order, however short the
\* writes are (send_snapshot and send_error write a body and a newline).
THEOREM LinePerCommand == Spec => []OneLineEach
<1>1. Inv => OneLineEach
  BY DEF Inv, Session, Alternates, OneLineEach
<1>2. QED
  BY <1>1, Invariance, PTL

\* Each reply follows from the reply before it and from its command, whoever
\* else is connected: serve_client has the simulation for itself.
THEOREM SimulationForItself == Spec => []SessionsExclusive
<1>1. Inv => SessionsExclusive
  BY DEF Inv, Replies, Follows, SessionsExclusive
<1>2. QED
  BY <1>1, Invariance, PTL

-----------------------------------------------------------------------------
(* The link.                                                               *)

LinkTypes ==
    /\ launches \in Nat /\ sock \in Nat /\ sock <= launches
    /\ timer => launches \in Conn
    /\ needsLaunch \in BOOLEAN /\ launching \in BOOLEAN /\ timer \in BOOLEAN
    /\ connected \in BOOLEAN /\ crashed \in BOOLEAN
    /\ net \in {"unconnected", "connecting", "connected"}
    /\ net # "unconnected" => sock \in Conn

\* The viewer has at most one connection, the server nobody else's, and those to
\* come have no past.
OneSocket ==
    /\ \A c \in Conn : stage[c] \in {"queued", "served"} \/ open[c] =>
           c = sock /\ net = "connected" /\ open[c]
    /\ \A c \in Conn : stage[c] \in {"queued", "served"} => up = "listening"
    /\ net = "connecting" => stage[sock] = "unused"
    /\ net = "connected" => open[sock] /\ stage[sock] # "unused"
    /\ \A c \in Conn : c > sock => stage[c] = "unused" /\ sent[c] = <<>>

\* What the viewer knows of its connection, and what the user can do about it.
Aware ==
    /\ connected <=> net = "connected"
    /\ launching <=> timer
    /\ timer => needsLaunch /\ sock < launches
    /\ ~crashed /\ net = "connected" /\ stage[sock] = "over" => needsLaunch
    /\ ~crashed => connected \/ needsLaunch \/ net = "connecting"

Link == LinkTypes /\ OneSocket /\ Aware

-----------------------------------------------------------------------------
(* The wire.                                                               *)

\* The reply to the first line of a connection, to a process that is new.
FirstReply(cmd, p) ==
    /\ cmd = "step" => p.sim.tick = 1
    /\ cmd = "reset" => p.sim.tick = 0

\* The output o to a client that has sent cmds, n of them read.
Lines(o, cmds, n) ==
    /\ Len(o) <= 2 * n
    /\ \A i \in 1..Len(o) : o[i] = Newline <=> i % 2 = 0
    /\ "reset" \notin Faults =>
           /\ o # <<>> => FirstReply(cmds[1], o[1])
           /\ \A i \in 1..Len(o) : i % 2 = 1 => o[i].what = "snapshot"

Wire ==
    /\ \A c \in Conn : taken[c] <= Len(wrote[c])
    /\ \A c \in Conn : \A j \in 1..Len(sent[c]) : sent[c][j] \in {"step", "reset"}
    /\ \A c \in Conn : open[c] => Lines(Output(c), sent[c], read[c])
    /\ up = "listening" /\ sim.tick # 0 => \E c \in Conn : Served(c) /\ read[c] > 0

-----------------------------------------------------------------------------
(* The screen.                                                             *)

Blank == shown = NoSnapshot /\ prev = NoSnapshot /\ history = NoHistory

\* A body that was read waits for its newline.
Buffered ==
    IF sock \in Conn /\ taken[sock] % 2 = 1
    THEN buffer = <<wrote[sock][taken[sock]]>> ELSE buffer = <<>>

\* With k replies read the screen shows the last of them, unless there is none,
\* or a reset was sent since: that can only be the next line, as later ones were
\* sent with replies on their way.
LastRead(k) ==
    IF k = 0 \/ (k < Len(sent[sock]) /\ sent[sock][k + 1] = "reset")
    THEN NoSnapshot ELSE wrote[sock][2 * k - 1].sim
Showing(k) ==
    /\ shown = LastRead(k)
    /\ \A j \in 1..Len(sent[sock]) : j >= k + 2 => sent[sock][j] = "step"

OnScreen ==
    /\ Buffered
    /\ timer => Settled
    /\ timer \/ net = "connecting" => Blank
    /\ net = "connecting" => sent[sock] = <<>>
    /\ net = "connected" =>
           \/ Blank /\ Settled /\ stage[sock] = "over" /\ needsLaunch
           \/ Showing(taken[sock] \div 2)
Screen == ~overtaken => OnScreen /\ HistoryIsRun /\ PrevIsTickBefore

-----------------------------------------------------------------------------
(* The server.                                                             *)

LEMMA ServerKept == ASSUME Inv, LinkTypes, [ViewerNext]_vars PROVE Inv'
<1>1. ASSUME NEW cmd, SendLine(cmd) PROVE Inv'
  BY <1>1, WrittenInv, StutterInv DEF SendLine, LinkTypes
<1>2. CASE User
  BY <1>1, <1>2, EndInv DEF User, UserStep, UserReset, UserReconfigure, UserLaunch
<1>3. CASE EventLoop
  <2>1. net # "unconnected" => sock \in Conn
    BY DEF LinkTypes
  <2>2. CASE Timeout \/ OnRefused
    BY <2>2, StutterInv DEF Timeout, OnRefused
  <2>3. CASE OnConnected
    BY <2>1, <2>3, ConnectInv DEF OnConnected
  <2>4. CASE ReadBody \/ ReadLine \/ ReadGarbledLine
    BY <2>1, <2>4, ReceiveInv DEF ReadBody, ReadLine, ReadGarbledLine, Readable
  <2>5. CASE OnDisconnected
    BY <2>1, <2>5, CloseInv DEF OnDisconnected
  <2>6. QED
    BY <1>3, <2>2, <2>3, <2>4, <2>5 DEF EventLoop
<1>4. CASE ServerRuns
  BY <1>4, ServeInv DEF ServerRuns
<1>5. CASE Crash
  BY <1>5, EndInv, AcceptFailsInv DEF Crash
<1>6. CASE UNCHANGED vars
  BY <1>6, StutterInv DEF vars
<1>7. QED
  BY <1>2, <1>3, <1>4, <1>5, <1>6 DEF ViewerNext

-----------------------------------------------------------------------------
(* The link.                                                               *)

\* The end of the process, on the link.
LEMMA EndLink ==
    ASSUME Inv, LinkTypes, OneSocket, EndProcess, UNCHANGED <<net, sock>>
    PROVE  OneSocket'
<1>1. stage \in [Conn -> {"unused", "queued", "served", "over"}]
  BY DEF Inv, TypeInvariant
<1>2. \A c \in Conn : /\ stage'[c] \notin {"queued", "served"}
                      /\ stage'[c] = "unused" <=> stage[c] = "unused"
  BY <1>1 DEF EndProcess
<1>3. QED
  BY <1>2 DEF OneSocket, LinkTypes, EndProcess

\* A line that is sent, or lost.
LEMMA SendLink ==
    ASSUME Inv, LinkTypes, OneSocket, NEW cmd, SendLine(cmd), UNCHANGED <<net, sock>>
    PROVE  OneSocket' /\ UNCHANGED <<up, stage, open>>
<1>1. CASE UNCHANGED serverVars
  BY <1>1 DEF OneSocket, serverVars
<1>2. CASE sock \in Conn /\ Written(sock, cmd)
  <2>1. /\ UNCHANGED <<up, stage, open>>
        /\ \A c \in Conn : c > sock => sent'[c] = sent[c]
    BY <1>2, ConnAssumption DEF Written, Inv, TypeInvariant
  <2>2. QED
    BY <2>1 DEF OneSocket
<1>3. QED
  BY <1>1, <1>2 DEF SendLine, LinkTypes

LEMMA UserLink == ASSUME Inv, Link, User PROVE Link'
<1>1. LinkTypes /\ OneSocket /\ Aware
  BY DEF Link
<1>2. CASE UserStep \/ UserReset
  BY <1>1, <1>2, SendLink
     DEF UserStep, UserReset, Link, LinkTypes, Aware, viewerVars, launchVars, linkVars
<1>3. CASE UserReconfigure
  <2>1. ~timer
    BY <1>1, <1>3 DEF UserReconfigure, Aware
  <2>2. LinkTypes' /\ Aware'
    BY <1>1, <1>3, <2>1 DEF UserReconfigure, LinkTypes, Aware, linkVars
  <2>3. QED
    BY <1>1, <1>3, <2>2, EndLink DEF UserReconfigure, Link, linkVars
<1>4. CASE UserLaunch
  <2>1. launches' = launches + 1 /\ sock' = sock /\ sock <= launches /\ launches \in Nat /\ sock \in Nat
    BY <1>1, <1>4 DEF UserLaunch, LinkTypes, linkVars
  <2>2. sock' < launches' /\ sock' <= launches' /\ launches' \in Nat
    BY <2>1
  <2>3. /\ needsLaunch = TRUE /\ needsLaunch' = TRUE /\ crashed' = FALSE
        /\ \/ launching' = TRUE /\ timer' = TRUE
           \/ launching' = FALSE /\ timer' = FALSE
        /\ net' = net /\ connected' = connected /\ launches' \in Conn
    BY <1>1, <1>4 DEF UserLaunch, LinkTypes, Aware, linkVars
  <2>4. LinkTypes'
    BY <1>1, <2>1, <2>2, <2>3 DEF LinkTypes
  <2>5. Aware'
    BY <1>1, <2>2, <2>3 DEF Aware
  <2>6. QED
    BY <1>1, <1>4, <2>4, <2>5, EndLink DEF UserLaunch, Link, linkVars
<1>5. QED
  BY <1>2, <1>3, <1>4 DEF User

LEMMA EventLink == ASSUME Inv, Link, EventLoop PROVE Link'
<1>1. LinkTypes /\ OneSocket /\ Aware
  BY DEF Link
<1>2. /\ stage \in [Conn -> {"unused", "queued", "served", "over"}]
      /\ open \in [Conn -> BOOLEAN] /\ \A c \in Conn : c \in Nat
  BY ConnAssumption DEF Inv, TypeInvariant
<1>3. CASE Timeout
  <2>1. /\ sock' = launches /\ launches' = launches /\ launches \in Conn /\ launches > sock
        /\ net = "unconnected" /\ net' = "connecting"
        /\ UNCHANGED <<up, stage, open, sent, connected, crashed>>
        /\ needsLaunch' = FALSE /\ launching' = FALSE /\ timer' = FALSE
    BY <1>1, <1>3 DEF Timeout, LinkTypes, Aware, serverVars
  <2>2. LinkTypes' /\ Aware'
    <3>1. connected' = connected /\ connected = FALSE
      BY <1>1, <2>1 DEF LinkTypes, Aware
    <3>2. launches \in Nat /\ launches <= launches
      BY <1>1 DEF LinkTypes
    <3>3. LinkTypes'
      BY <1>1, <2>1, <3>1, <3>2 DEF LinkTypes
    <3>4. Aware'
      BY <2>1, <3>1 DEF Aware
    <3>5. QED
      BY <3>3, <3>4
  <2>3. OneSocket'
    <3>1. /\ stage[sock'] = "unused"
          /\ \A c \in Conn : c > sock' => stage[c] = "unused" /\ sent[c] = <<>>
          /\ \A c \in Conn : stage[c] \notin {"queued", "served"} /\ ~open[c]
      BY <1>1, <1>2, <2>1 DEF OneSocket, LinkTypes
    <3>2. QED
      BY <2>1, <3>1 DEF OneSocket
  <2>4. QED
    BY <2>2, <2>3 DEF Link
<1>4. CASE OnConnected
  <2>1. /\ net = "connecting" /\ net' = "connected" /\ sock = launches /\ sock \in Conn
        /\ up = "listening" /\ connected' = TRUE /\ needsLaunch' = FALSE
        /\ stage' = [stage EXCEPT ![sock] = "queued"] /\ open' = [open EXCEPT ![sock] = TRUE]
        /\ UNCHANGED <<up, sent, launches, launching, timer, sock, crashed>>
    BY <1>1, <1>4 DEF OnConnected, Connect, LinkTypes
  <2>2. timer = FALSE
    BY <1>1, <2>1 DEF Aware, LinkTypes
  <2>3. /\ stage'[sock] = "queued" /\ open'[sock]
        /\ \A c \in Conn : c # sock => stage'[c] = stage[c] /\ open'[c] = open[c]
    BY <1>2, <2>1
  <2>4. LinkTypes'
    BY <1>1, <2>1 DEF LinkTypes
  <2>5. Aware'
    BY <1>1, <2>1, <2>2, <2>3 DEF Aware
  <2>6. OneSocket'
    <3>1. \A c \in Conn : c > sock => c # sock
      BY <1>1, <1>2 DEF LinkTypes
    <3>2. QED
      BY <1>1, <2>1, <2>3, <3>1 DEF OneSocket
  <2>7. QED
    BY <2>4, <2>5, <2>6 DEF Link
<1>5. CASE OnRefused
  <2>1. /\ net = "connecting" /\ net' = "unconnected"
        /\ UNCHANGED <<up, stage, open, sent, launches, launching, timer, connected, sock, crashed>>
        /\ needsLaunch' = (needsLaunch \/ (~launching /\ ~connected))
    BY <1>5 DEF OnRefused, ClientError, serverVars
  <2>2. LinkTypes'
    BY <1>1, <2>1 DEF LinkTypes
  <2>3. needsLaunch' = TRUE
    BY <1>1, <2>1 DEF Aware, LinkTypes
  <2>4. Aware'
    BY <1>1, <2>1, <2>3 DEF Aware
  <2>5. OneSocket'
    BY <1>1, <2>1 DEF OneSocket
  <2>6. QED
    BY <2>2, <2>4, <2>5 DEF Link
<1>6. CASE ReadBody \/ ReadLine \/ ReadGarbledLine
  <2>1. /\ UNCHANGED <<up, stage, open, sent, launches, launching, timer, connected, sock, net, crashed>>
        /\ net = "connected"
        /\ needsLaunch' = needsLaunch \/ needsLaunch' = (needsLaunch \/ (~launching /\ ~connected))
    BY <1>6 DEF ReadBody, ReadLine, ReadGarbledLine, Readable, Receive, ClientError, launchVars, linkVars
  <2>2. needsLaunch' = needsLaunch
    BY <1>1, <2>1 DEF Aware, LinkTypes
  <2>3. LinkTypes' /\ Aware'
    BY <1>1, <2>1, <2>2 DEF LinkTypes, Aware
  <2>4. OneSocket'
    BY <1>1, <2>1 DEF OneSocket
  <2>5. QED
    BY <2>3, <2>4 DEF Link
<1>7. CASE OnDisconnected
  <2>1. /\ net = "connected" /\ net' = "unconnected" /\ connected' = FALSE
        /\ stage[sock] = "over" /\ sock \in Conn
        /\ open' = [open EXCEPT ![sock] = FALSE]
        /\ UNCHANGED <<up, stage, sent, launches, launching, timer, sock, crashed>>
        /\ needsLaunch' = (needsLaunch \/ (~launching /\ ~connected))
    BY <1>1, <1>7 DEF OnDisconnected, Close, ClientError, LinkTypes
  <2>2. needsLaunch' = needsLaunch
    BY <1>1, <2>1 DEF Aware, LinkTypes
  <2>3. LinkTypes' /\ Aware'
    BY <1>1, <2>1, <2>2 DEF LinkTypes, Aware
  <2>4. OneSocket'
    <3>1. ~open'[sock] /\ \A c \in Conn : c # sock => open'[c] = open[c]
      BY <1>2, <2>1
    <3>2. QED
      BY <1>1, <2>1, <3>1 DEF OneSocket
  <2>5. QED
    BY <2>3, <2>4 DEF Link
<1>8. QED
  BY <1>3, <1>4, <1>5, <1>6, <1>7 DEF EventLoop

LEMMA ServeLink == ASSUME Inv, Link, ServerRuns PROVE Link'
<1>1. LinkTypes /\ OneSocket /\ Aware
  BY DEF Link
<1>2. /\ stage \in [Conn -> {"unused", "queued", "served", "over"}]
      /\ backlog \in Seq(Conn) /\ OneAtATime
  BY DEF Inv, TypeInvariant
<1>3. UNCHANGED <<net, sock, launches, needsLaunch, launching, timer, connected, crashed>>
  BY DEF ServerRuns, viewerVars, launchVars, linkVars
<1>4. LinkTypes'
  BY <1>1, <1>3 DEF LinkTypes
<1>5. CASE Start
  <2>1. /\ \A c \in Conn : stage[c] \notin {"queued", "served"}
        /\ UNCHANGED <<stage, open, sent>>
    BY <1>1, <1>5 DEF Start, OneSocket
  <2>2. QED
    BY <1>1, <1>3, <1>4, <2>1 DEF Link, OneSocket, Aware
<1>6. CASE Accept
  <2> DEFINE c == Head(backlog)
  <2>1. /\ up = "listening" /\ stage' = [stage EXCEPT ![c] = "served"]
        /\ UNCHANGED <<up, open, sent>>
        /\ c \in Conn /\ c = backlog[1] /\ 1 \in DOMAIN backlog
    BY <1>2, <1>6 DEF Accept
  <2>2. stage[c] = "queued"
    BY <1>2, <2>1 DEF OneAtATime
  <2> HIDE DEF c
  <2>3. c = sock /\ net = "connected" /\ open[c]
    BY <1>1, <2>1, <2>2 DEF OneSocket
  <2>4. /\ stage'[c] = "served"
        /\ \A d \in Conn : d # c => stage'[d] = stage[d]
    BY <1>2, <2>1
  <2>5. Aware'
    BY <1>1, <1>3, <2>3, <2>4 DEF Aware
  <2>6. OneSocket'
    <3>1. \A d \in Conn : d > sock => d # sock
      BY <1>1, ConnAssumption DEF LinkTypes
    <3>2. QED
      BY <1>1, <1>3, <2>1, <2>3, <2>4, <3>1 DEF OneSocket
  <2>7. QED
    BY <1>4, <2>5, <2>6 DEF Link
<1>7. ASSUME NEW c \in Conn, Handle(c) \/ Write(c)
      PROVE  Link'
  <2>1. UNCHANGED <<up, stage, open, sent>>
    BY <1>7 DEF Handle, HandleStep, HandleStatus, HandleReset, HandleInvalid, Write
  <2>2. QED
    BY <1>1, <1>3, <1>4, <2>1 DEF Link, OneSocket, Aware
<1>8. ASSUME NEW c \in Conn, WriteToNobody(c) \/ EndOfInput(c)
      PROVE  FALSE
  BY <1>1, <1>8 DEF OneSocket, WriteToNobody, EndOfInput, Served
<1>9. QED
  BY <1>5, <1>6, <1>7, <1>8 DEF ServerRuns, Serve

LEMMA CrashLink == ASSUME Inv, Link, Crash PROVE Link'
<1>1. LinkTypes /\ OneSocket /\ Aware
  BY DEF Link
<1>2. /\ EndProcess /\ crashed' = TRUE
      /\ UNCHANGED <<launches, needsLaunch, launching, timer, connected, net, sock>>
  BY DEF Crash, AcceptFails, launchVars, linkVars
<1>3. OneSocket'
  BY <1>1, <1>2, EndLink
<1>4. LinkTypes' /\ Aware'
  BY <1>1, <1>2 DEF LinkTypes, Aware
<1>5. QED
  BY <1>3, <1>4 DEF Link

LEMMA LinkKept == ASSUME Inv, Link, [ViewerNext]_vars PROVE Link'
<1>1. CASE UNCHANGED vars
  BY <1>1 DEF Link, LinkTypes, OneSocket, Aware, vars, serverVars, viewerVars, launchVars, linkVars
<1>2. QED
  BY <1>1, UserLink, EventLink, ServeLink, CrashLink DEF ViewerNext

LEMMA Linked == ViewerSpec => [](Inv /\ Link)
<1>1. ViewerInit => Inv /\ Link
  <2> SUFFICES ASSUME ViewerInit PROVE Inv /\ Link
    OBVIOUS
  <2>1. Inv
    BY InitInv DEF ViewerInit
  <2>2. LinkTypes
    <3>1. /\ launches = 0 /\ sock = 0 /\ timer = FALSE /\ needsLaunch = TRUE
          /\ launching = FALSE /\ connected = FALSE /\ crashed = FALSE /\ net = "unconnected"
      BY DEF ViewerInit
    <3>2. launches \in Nat /\ sock \in Nat /\ sock <= launches
      BY <3>1
    <3>3. QED
      BY <3>1, <3>2, Zenon DEF LinkTypes
  <2>3. OneSocket
    BY DEF ViewerInit, InitAs, OneSocket
  <2>4. Aware
    BY DEF ViewerInit, Aware
  <2>5. QED
    BY <2>1, <2>2, <2>3, <2>4 DEF Link
<1>2. Inv /\ Link /\ [ViewerNext]_vars => (Inv /\ Link)'
  BY ServerKept, LinkKept DEF Link
<1>3. QED
  BY <1>1, <1>2, PTL DEF ViewerSpec

\* Unless its server died by itself, the viewer has a connection, or one on its
\* way, or a launch under way, or the overlay to launch from (SimController keeps
\* the three in flags and the socket in a fourth place).
THEOREM NobodyStranded == ViewerSpec => []NotStranded
<1>1. Inv /\ Link => NotStranded
  BY DEF Link, Aware, NotStranded
<1>2. QED
  BY <1>1, Linked, PTL

-----------------------------------------------------------------------------
(* The wire.                                                               *)

LEMMA LinesPrefix ==
    ASSUME NEW o \in Seq(Piece), NEW w \in Seq(Piece), NEW cmds, NEW n, Lines(o, cmds, n),
           n \in Nat, Len(w) <= Len(o), \A i \in 1..Len(w) : w[i] = o[i]
    PROVE  Lines(w, cmds, n)
<1>1. Len(w) \in Nat /\ Len(o) \in Nat /\ \A i \in 1..Len(w) : i \in 1..Len(o)
  OBVIOUS
<1>2. w # <<>> => o # <<>> /\ w[1] = o[1]
  OBVIOUS
<1>3. Len(w) <= 2 * n
  BY <1>1 DEF Lines
<1>4. \A i \in 1..Len(w) : w[i] = Newline <=> i % 2 = 0
  BY <1>1 DEF Lines
<1>5. "reset" \notin Faults => /\ w # <<>> => FirstReply(cmds[1], w[1])
                              /\ \A i \in 1..Len(w) : i % 2 = 1 => w[i].what = "snapshot"
  BY <1>1, <1>2 DEF Lines
<1>6. QED
  BY <1>3, <1>4, <1>5 DEF Lines

LEMMA LinesLonger ==
    ASSUME NEW w \in Seq(Piece), NEW cmds, NEW n \in Nat, Alternates(w, n), Lines(w, cmds, n),
           NEW p \in Piece, p # Newline,
           "reset" \notin Faults => p.what = "snapshot" /\ (n = 0 => FirstReply(cmds[1], p))
    PROVE  Lines(w \o <<p, Newline>>, cmds, n + 1)
<1> DEFINE t == w \o <<p, Newline>>
<1>1. /\ t \in Seq(Piece) /\ Alternates(t, n + 1) /\ t[2 * n + 1] = p
      /\ \A i \in 1..Len(w) : t[i] = w[i]
  BY NewlineType, Longer
<1>2. Len(w) = 2 * n
  BY DEF Alternates
<1> HIDE DEF t
<1>3. Len(t) = 2 * (n + 1) /\ \A i \in 1..Len(t) : t[i] = Newline <=> i % 2 = 0
  BY <1>1 DEF Alternates
<1>4. ASSUME "reset" \notin Faults
      PROVE  FirstReply(cmds[1], t[1])
  <2>1. CASE n = 0
    BY <1>1, <1>4, <2>1
  <2>2. CASE n # 0
    <3>1. 1 \in 1..Len(w) /\ w # <<>>
      BY <1>2, <2>2
    <3>2. QED
      BY <1>1, <1>4, <3>1 DEF Lines
  <2>3. QED
    BY <2>1, <2>2
<1>5. ASSUME "reset" \notin Faults, NEW i \in 1..Len(t), i % 2 = 1
      PROVE  t[i].what = "snapshot"
  <2>1. CASE i \in 1..Len(w)
    BY <1>1, <1>5, <2>1 DEF Lines
  <2>2. CASE i = 2 * n + 1
    BY <1>1, <1>5, <2>2
  <2>3. i # 2 * n + 2
    BY <1>5
  <2>4. QED
    BY <1>2, <1>3, <2>1, <2>2, <2>3
<1>6. Lines(t, cmds, n + 1)
  <2>1. Len(t) <= 2 * (n + 1)
    BY <1>3
  <2>2. QED
    BY <1>3, <1>4, <1>5, <2>1 DEF Lines
<1>7. QED
  BY <1>6 DEF t

\* Without a failed reset every reply to the viewer's commands is a snapshot.
LEMMA HandleSnapshot ==
    ASSUME "reset" \notin Faults, NEW c \in Conn, Handle(c),
           sent[c][read[c] + 1] \in {"step", "reset"}
    PROVE  /\ out'[1].what = "snapshot"
           /\ sim' = IF sent[c][read[c] + 1] = "step" THEN Stepped(sim) ELSE Fresh(sim)
<1>1. CASE HandleStep(c)
  BY <1>1 DEF HandleStep, NextLine, Reply
<1>2. CASE HandleReset(c)
  BY <1>2 DEF HandleReset, NextLine, Reply
<1>3. CASE HandleStatus(c) \/ HandleInvalid(c)
  BY <1>3 DEF HandleStatus, HandleInvalid, NextLine
<1>4. QED
  BY <1>1, <1>2, <1>3 DEF Handle

\* What leaves the lines read and the outputs as they are.
LEMMA LinesQuiet ==
    ASSUME Inv, Wire, read' = read,
           \A d \in Conn : open'[d] =>
               \/ Output(d)' = <<>>
               \/ /\ open[d] /\ Output(d)' = Output(d)
                  /\ Len(sent[d]) > 0 => sent'[d][1] = sent[d][1]
    PROVE  \A d \in Conn : open'[d] => Lines(Output(d)', sent'[d], read'[d])
<1> SUFFICES ASSUME NEW d \in Conn, open'[d]
             PROVE  Lines(Output(d)', sent'[d], read'[d])
  OBVIOUS
<1>1. read[d] \in Nat /\ read[d] <= Len(sent[d]) /\ sent[d] \in Seq(Command)
  BY DEF Inv, TypeInvariant, Heard
<1>2. CASE Output(d)' = <<>>
  BY <1>1, <1>2 DEF Lines
<1>3. CASE /\ open[d] /\ Output(d)' = Output(d)
           /\ Len(sent[d]) > 0 => sent'[d][1] = sent[d][1]
  <2> DEFINE o == Output(d)
  <2>1. Lines(o, sent[d], read[d]) /\ o \in Seq(Piece)
    BY <1>3, WroteFirst DEF Wire, Inv
  <2> HIDE DEF o
  <2>2. o # <<>> => sent'[d][1] = sent[d][1]
    <3>1. o # <<>> => Len(o) > 0
      BY <2>1
    <3>2. Len(o) <= 2 * read[d]
      BY <2>1 DEF Lines
    <3>3. QED
      BY <1>1, <1>3, <2>1, <3>1, <3>2
  <2>3. Lines(o, sent'[d], read[d])
    BY <2>1, <2>2 DEF Lines
  <2>4. QED
    BY <1>3, <2>3 DEF o
<1>4. QED
  BY <1>2, <1>3

LEMMA WrittenWire ==
    ASSUME Inv, Wire, NEW c \in Conn, NEW cmd \in {"step", "reset"}, cmd \in Command, Written(c, cmd)
    PROVE  Wire'
<1>1. /\ sent \in [Conn -> Seq(Command)] /\ sent' = [sent EXCEPT ![c] = Append(sent[c], cmd)]
      /\ UNCHANGED <<up, sim, stage, open, backlog, out, read, wrote, taken>>
  BY DEF Written, Inv, TypeInvariant
<1>2. ASSUME NEW d \in Conn
      PROVE  /\ Output(d)' = Output(d) /\ (Len(sent[d]) > 0 => sent'[d][1] = sent[d][1])
             /\ \A j \in 1..Len(sent'[d]) : sent'[d][j] \in {"step", "reset"}
  <2>1. sent[d] \in Seq(Command) /\ sent'[d] \in {sent[d], Append(sent[d], cmd)}
    BY <1>1
  <2>2. \A j \in 1..Len(sent[d]) : sent[d][j] \in {"step", "reset"}
    BY DEF Wire
  <2>3. Output(d)' = Output(d)
    BY <1>1 DEF Output, Served
  <2>4. CASE sent'[d] = sent[d]
    BY <2>2, <2>3, <2>4
  <2>5. CASE sent'[d] = Append(sent[d], cmd)
    <3>1. Len(sent[d]) \in Nat /\ Len(sent'[d]) = Len(sent[d]) + 1
      BY <2>1, <2>5
    <3>2. \A j \in 1..Len(sent[d]) : sent'[d][j] = sent[d][j]
      BY <2>1, <2>5
    <3>3. sent'[d][Len(sent[d]) + 1] = cmd
      BY <2>1, <2>5
    <3>4. \A j \in 1..Len(sent'[d]) : j \in 1..Len(sent[d]) \/ j = Len(sent[d]) + 1
      BY <3>1
    <3>5. QED
      BY <2>2, <2>3, <3>1, <3>2, <3>3, <3>4
  <2>6. QED
    BY <2>1, <2>4, <2>5
<1>3. \A d \in Conn : open'[d] => Lines(Output(d)', sent'[d], read'[d])
  BY <1>1, <1>2, LinesQuiet
<1>4. QED
  BY <1>1, <1>2, <1>3 DEF Wire, Served

LEMMA EndWire ==
    ASSUME Inv, Wire, EndProcess, up' # "listening"
    PROVE  Wire'
<1>1. UNCHANGED <<open, sent, read, wrote, taken>> /\ out' = <<>>
  BY DEF EndProcess
<1>2. ASSUME NEW d \in Conn, open[d] PROVE Lines(Output(d)', sent[d], read[d])
  <2>1. /\ wrote[d] \in Seq(Piece) /\ Output(d) \in Seq(Piece) /\ read[d] \in Nat
        /\ Len(wrote[d]) <= Len(Output(d))
        /\ \A i \in 1..Len(wrote[d]) : wrote[d][i] = Output(d)[i]
    BY WroteFirst DEF Inv, TypeInvariant
  <2>2. Lines(wrote[d], sent[d], read[d])
    BY <1>2, <2>1, LinesPrefix DEF Wire
  <2>3. Output(d)' = wrote[d] \o <<>>
    BY <1>1 DEF Output
  <2>4. QED
    BY <2>1, <2>2, <2>3
<1>3. QED
  BY <1>1, <1>2 DEF Wire

LEMMA ConnectWire == ASSUME Inv, Wire, NEW c \in Conn, Connect(c) PROVE Wire'
<1>1. /\ stage[c] = "unused" /\ stage' = [stage EXCEPT ![c] = "queued"]
      /\ stage \in [Conn -> {"unused", "queued", "served", "over"}]
      /\ open' = [open EXCEPT ![c] = TRUE] /\ open \in [Conn -> BOOLEAN]
      /\ wrote[c] = <<>> /\ UNCHANGED <<up, sim, out, sent, read, wrote, taken>>
  BY DEF Connect, Inv, TypeInvariant, Unheard
<1>2. \A d \in Conn : (Served(d)' <=> Served(d)) /\ Output(d)' = Output(d)
  BY <1>1 DEF Served, Output
<1>3. \A d \in Conn : d # c => open'[d] = open[d]
  BY <1>1
<1>4. Output(c)' = <<>>
  BY <1>1, <1>2 DEF Output, Served
<1>5. \A d \in Conn : open'[d] => Lines(Output(d)', sent'[d], read'[d])
  BY <1>1, <1>2, <1>3, <1>4, LinesQuiet
<1>6. QED
  BY <1>1, <1>2, <1>5 DEF Wire

LEMMA ReceiveWire == ASSUME Inv, Wire, NEW c \in Conn, Receive(c) PROVE Wire'
<1>1. /\ taken \in [Conn -> Nat] /\ \A d \in Conn : wrote[d] \in Seq(Piece)
      /\ taken' = [taken EXCEPT ![c] = @ + 1] /\ taken[c] < Len(wrote[c])
      /\ UNCHANGED <<up, sim, stage, open, backlog, out, sent, read, wrote>>
  BY DEF Receive, Inv, TypeInvariant
<1>2. \A d \in Conn : (Served(d)' <=> Served(d)) /\ Output(d)' = Output(d)
  BY <1>1 DEF Served, Output
<1>3. \A d \in Conn : open'[d] => Lines(Output(d)', sent'[d], read'[d])
  BY <1>1, <1>2, LinesQuiet
<1>4. \A d \in Conn : taken'[d] <= Len(wrote'[d])
  BY <1>1 DEF Wire
<1>5. QED
  BY <1>1, <1>2, <1>3, <1>4 DEF Wire

LEMMA CloseWire == ASSUME Inv, Wire, NEW c \in Conn, Close(c) PROVE Wire'
<1>1. /\ open \in [Conn -> BOOLEAN] /\ open' = [open EXCEPT ![c] = FALSE]
      /\ UNCHANGED <<up, sim, stage, backlog, out, sent, read, wrote, taken>>
  BY DEF Close, Inv, TypeInvariant
<1>2. \A d \in Conn : (Served(d)' <=> Served(d)) /\ Output(d)' = Output(d) /\ (open'[d] => open[d])
  BY <1>1 DEF Served, Output
<1>3. \A d \in Conn : open'[d] => Lines(Output(d)', sent'[d], read'[d])
  BY <1>1, <1>2, LinesQuiet
<1>4. QED
  BY <1>1, <1>2, <1>3 DEF Wire

LEMMA HandleWire ==
    ASSUME Inv, Link, Wire, NEW c \in Conn, Handle(c)
    PROVE  Wire'
<1>1. PICK p \in Piece : Answered(c, p)
  BY HandleAnswers DEF Inv
<1> DEFINE w == wrote[c]
           n == read[c]
<1>2. /\ Served(c) /\ out = <<>> /\ n < Len(sent[c]) /\ n \in Nat /\ w \in Seq(Piece)
      /\ read' = [read EXCEPT ![c] = n + 1] /\ read \in [Conn -> Nat]
      /\ p # Newline /\ out' = <<p, Newline>> /\ p.sim = sim' /\ sim \in Run
      /\ sent[c] \in Seq(Command)
      /\ UNCHANGED <<up, stage, open, backlog, sent, wrote, taken>>
  BY <1>1 DEF Answered, Inv, TypeInvariant
<1>3. open[c]
  BY <1>2 DEF Served, Link, OneSocket
<1>4. Output(c) = w /\ Output(c)' = w \o <<p, Newline>>
  <2>1. Output(c) = w \o <<>>
    BY <1>2 DEF Output
  <2>2. QED
    BY <1>2, <2>1 DEF Output, Served
<1>5. Alternates(w, n) /\ Lines(w, sent[c], n)
  BY <1>2, <1>3, <1>4 DEF Inv, Session, Wire
<1>6. ASSUME "reset" \notin Faults
      PROVE  p.what = "snapshot" /\ (n = 0 => FirstReply(sent[c][1], p))
  <2>1. sent[c][n + 1] \in {"step", "reset"}
    <3>1. n + 1 \in 1..Len(sent[c])
      BY <1>2
    <3>2. QED
      BY <3>1 DEF Wire
  <2>2. /\ p.what = "snapshot"
        /\ sim' = IF sent[c][n + 1] = "step" THEN Stepped(sim) ELSE Fresh(sim)
    BY <1>2, <1>6, <2>1, HandleSnapshot
  <2>3. ASSUME n = 0 PROVE FirstReply(sent[c][1], p)
    <3>1. sim.tick = 0
      <4>1. up = "listening"
        BY <1>2 DEF Inv, IdleServer, Busy
      <4>2. \A d \in Conn : Served(d) => d = c
        BY <1>2 DEF Inv, OneAtATime
      <4>3. QED
        BY <2>3, <4>1, <4>2 DEF Wire
    <3>2. Stepped(sim).tick = 1 /\ Fresh(sim).tick = 0
      BY <1>2, <3>1, LengthAssumption DEF Stepped, Fresh, Done, Run
    <3>3. sent[c][1] = sent[c][n + 1]
      BY <2>3
    <3>4. QED
      BY <1>2, <2>2, <3>2, <3>3 DEF FirstReply
  <2>4. QED
    BY <2>2, <2>3
<1>7. Lines(Output(c)', sent[c], n + 1)
  BY <1>2, <1>4, <1>5, <1>6, LinesLonger
<1>8. ASSUME NEW d \in Conn, open[d] PROVE Lines(Output(d)', sent[d], read'[d])
  <2>1. d = c
    BY <1>2, <1>8 DEF Served, Link, OneSocket
  <2>2. QED
    BY <1>2, <1>7, <2>1
<1>9. Served(c)' /\ read'[c] > 0
  BY <1>2 DEF Served
<1>10. QED
  BY <1>2, <1>8, <1>9 DEF Wire

LEMMA ServeWire ==
    ASSUME Inv, Link, Wire, ServerRuns
    PROVE  Wire'
<1>1. CASE Start
  <2>1. /\ \A d \in Conn : ~Served(d)
        /\ UNCHANGED <<stage, open, backlog, out, sent, read, wrote, taken>>
        /\ up' = "listening" => sim'.tick = 0
    BY <1>1 DEF Start, Inv, IdleServer, Busy, Fresh
  <2>2. \A d \in Conn : Output(d)' = Output(d)
    BY <2>1 DEF Output, Served
  <2>3. \A d \in Conn : open'[d] => Lines(Output(d)', sent'[d], read'[d])
    BY <2>1, <2>2, LinesQuiet
  <2>4. QED
    BY <2>1, <2>3 DEF Wire
<1>2. CASE Accept
  <2>1. /\ \A d \in Conn : ~Served(d)
        /\ out = <<>> /\ UNCHANGED <<up, sim, open, out, sent, read, wrote, taken>>
        /\ \A d \in Conn : wrote[d] \in Seq(Piece)
    BY <1>2 DEF Accept, Busy, Inv, IdleServer, TypeInvariant
  <2>2. \A d \in Conn : Output(d)' = Output(d)
    <3>1. \A d \in Conn : Output(d) = wrote[d] \o <<>> /\ Output(d)' = wrote[d] \o <<>>
      BY <2>1 DEF Output
    <3>2. QED
      BY <3>1
  <2>3. \A d \in Conn : open'[d] => Lines(Output(d)', sent'[d], read'[d])
    BY <2>1, <2>2, LinesQuiet
  <2>4. QED
    BY <2>1, <2>3 DEF Wire
<1>3. ASSUME NEW c \in Conn, Handle(c) PROVE Wire'
  BY <1>3, HandleWire
<1>4. ASSUME NEW c \in Conn, Write(c) PROVE Wire'
  <2>1. /\ Served(c) /\ out # <<>> /\ out \in Seq(Piece)
        /\ wrote \in [Conn -> Seq(Piece)] /\ taken \in [Conn -> Nat]
        /\ wrote' = [wrote EXCEPT ![c] = Append(wrote[c], Head(out))] /\ out' = Tail(out)
        /\ UNCHANGED <<up, sim, stage, open, backlog, sent, read, taken>>
    BY <1>4 DEF Write, Inv, TypeInvariant
  <2>2. ASSUME NEW d \in Conn PROVE Output(d)' = Output(d) /\ taken[d] <= Len(wrote'[d])
    <3>1. CASE d = c
      <4>1. wrote'[c] = Append(wrote[c], Head(out)) /\ wrote[c] \in Seq(Piece)
        BY <2>1
      <4>2. Append(wrote[c], Head(out)) \o Tail(out) = wrote[c] \o out
        BY <2>1, <4>1, Moved
      <4>3. Output(c)' = Output(c)
        BY <2>1, <4>1, <4>2 DEF Output, Served
      <4>4. taken[c] <= Len(wrote[c]) /\ Len(wrote'[c]) = Len(wrote[c]) + 1
        BY <4>1 DEF Wire
      <4>5. QED
        BY <2>1, <3>1, <4>1, <4>3, <4>4
    <3>2. CASE d # c
      <4>1. wrote'[d] = wrote[d] /\ ~Served(d)
        BY <2>1, <3>2 DEF Inv, OneAtATime
      <4>2. QED
        BY <2>1, <4>1 DEF Output, Served, Wire
    <3>3. QED
      BY <3>1, <3>2
  <2>3. \A d \in Conn : open'[d] => Lines(Output(d)', sent'[d], read'[d])
    BY <2>1, <2>2, LinesQuiet
  <2>4. QED
    BY <2>1, <2>2, <2>3 DEF Wire, Served
<1>5. ASSUME NEW c \in Conn, WriteToNobody(c) \/ EndOfInput(c)
      PROVE  FALSE
  BY <1>5 DEF Link, OneSocket, WriteToNobody, EndOfInput, Served
<1>6. QED
  BY <1>1, <1>2, <1>3, <1>4, <1>5 DEF ServerRuns, Serve

LEMMA StutterWire == ASSUME Inv, Wire, UNCHANGED serverVars PROVE Wire'
<1>1. \A d \in Conn : (Served(d)' <=> Served(d)) /\ Output(d)' = Output(d)
  BY DEF Served, Output, serverVars
<1>2. \A d \in Conn : open'[d] => Lines(Output(d)', sent'[d], read'[d])
  BY <1>1, LinesQuiet DEF serverVars
<1>3. QED
  BY <1>1, <1>2 DEF Wire, serverVars

LEMMA WireKept == ASSUME Inv, Link, Wire, [ViewerNext]_vars PROVE Wire'
<1>1. net # "unconnected" => sock \in Conn
  BY DEF Link, LinkTypes
<1>2. ASSUME NEW cmd \in {"step", "reset"}, SendLine(cmd) PROVE Wire'
  BY <1>1, <1>2, WrittenWire, StutterWire DEF SendLine
<1>3. CASE User
  <2>1. CASE UserStep \/ UserReset
    BY <1>2, <2>1 DEF UserStep, UserReset
  <2>2. CASE UserReconfigure \/ UserLaunch
    BY <2>2, EndWire DEF UserReconfigure, UserLaunch
  <2>3. QED
    BY <1>3, <2>1, <2>2 DEF User
<1>4. CASE EventLoop
  <2>1. CASE Timeout \/ OnRefused
    BY <2>1, StutterWire DEF Timeout, OnRefused
  <2>2. CASE OnConnected
    BY <1>1, <2>2, ConnectWire DEF OnConnected
  <2>3. CASE ReadBody \/ ReadLine \/ ReadGarbledLine
    BY <1>1, <2>3, ReceiveWire DEF ReadBody, ReadLine, ReadGarbledLine, Readable
  <2>4. CASE OnDisconnected
    BY <1>1, <2>4, CloseWire DEF OnDisconnected
  <2>5. QED
    BY <1>4, <2>1, <2>2, <2>3, <2>4 DEF EventLoop
<1>5. CASE ServerRuns
  BY <1>5, ServeWire
<1>6. CASE Crash
  BY <1>6, EndWire DEF Crash, AcceptFails
<1>7. CASE UNCHANGED vars
  BY <1>7, StutterWire DEF vars
<1>8. QED
  BY <1>3, <1>4, <1>5, <1>6, <1>7 DEF ViewerNext


-----------------------------------------------------------------------------
(* The histories.                                                          *)

\* The history of the run up to s.
HistoryOf(s) ==
    LET n == IF s.tick < MaxHistory THEN s.tick ELSE MaxHistory
    IN  [i \in 1 .. n |-> [s EXCEPT !.tick = @ - n + i]]

LEMMA SameSequence ==
    ASSUME NEW S, NEW a \in Seq(S), NEW b \in Seq(S), Len(a) = Len(b),
           \A i \in 1..Len(b) : a[i] = b[i]
    PROVE  a = b
OBVIOUS

\* The history, by its length and its entries.
LEMMA HistoryEntries ==
    ASSUME NEW s \in Run
    PROVE  LET n == IF s.tick < MaxHistory THEN s.tick ELSE MaxHistory
           IN  /\ HistoryOf(s) \in Seq([run : Nat, tick : Int])
               /\ Len(HistoryOf(s)) = n
               /\ \A i \in 1..n :
                      HistoryOf(s)[i] = [run |-> s.run, tick |-> s.tick - n + i]
<1> DEFINE n == IF s.tick < MaxHistory THEN s.tick ELSE MaxHistory
           at(x) == [run |-> s.run, tick |-> x]
<1>1. s.run \in Nat /\ s.tick \in Nat /\ n \in Nat
  BY HistoryAssumption DEF Run
<1>2. \A x : [s EXCEPT !.tick = x] = at(x)
  BY DEF Run
<1>3. HistoryOf(s) = [i \in 1..n |-> at(s.tick - n + i)]
  BY <1>2 DEF HistoryOf
<1>4. \A x \in Int : at(x) \in [run : Nat, tick : Int]
  BY <1>1
<1> HIDE DEF n, at
<1>5. \A i \in 1..n : at(s.tick - n + i) \in [run : Nat, tick : Int]
  BY <1>1, <1>4
<1>6. /\ HistoryOf(s) \in Seq([run : Nat, tick : Int]) /\ Len(HistoryOf(s)) = n
      /\ \A i \in 1..n : HistoryOf(s)[i] = at(s.tick - n + i)
  BY <1>1, <1>3, <1>5
<1>7. QED
  BY <1>6 DEF n, at

\* A tick more, with or without room for it.
LEMMA Grows ==
    ASSUME NEW s \in Run, ~Done(s)
    PROVE  AppendCapped(HistoryOf(s), Stepped(s)) = HistoryOf(Stepped(s))
<1> DEFINE H == [run : Nat, tick : Int]
           t == s.tick
           r == Stepped(s)
           n == IF t < MaxHistory THEN t ELSE MaxHistory
           m == IF t + 1 < MaxHistory THEN t + 1 ELSE MaxHistory
           at(x) == [run |-> s.run, tick |-> x]
           h == HistoryOf(s)
           g == HistoryOf(r)
           a == Append(h, r)
<1>1. t \in Nat /\ MaxHistory \in Nat /\ MaxHistory > 0 /\ n \in Nat /\ m \in Nat
  BY HistoryAssumption DEF Run
<1>2. r \in Run /\ r = at(t + 1) /\ r \in H /\ r.run = s.run /\ r.tick = t + 1
  BY RunTypes DEF Run, Stepped
<1>3. h \in Seq(H) /\ Len(h) = n /\ \A i \in 1..n : h[i] = at(t - n + i)
  BY HistoryEntries
<1>4. g \in Seq(H) /\ Len(g) = m /\ \A i \in 1..m : g[i] = at(t + 1 - m + i)
  <2> HIDE DEF r
  <2> PICK k \in Nat : k = m
    BY <1>1
  <2>1. /\ g \in Seq(H) /\ Len(g) = k
        /\ \A i \in 1..k : g[i] = [run |-> r.run, tick |-> r.tick - k + i]
    BY <1>2, HistoryEntries
  <2> HIDE DEF g, H, m
  <2>2. ASSUME NEW i \in 1..k PROVE g[i] = at(t + 1 - k + i)
    <3>1. r.run = s.run /\ r.tick - k + i = t + 1 - k + i
      BY <1>1, <1>2
    <3>2. QED
      BY <2>1, <2>2, <3>1
  <2>3. QED
    BY <2>1, <2>2
<1> HIDE DEF h, g, r, n, m, at
<1>5. /\ a \in Seq(H) /\ Len(a) = n + 1 /\ a[n + 1] = at(t + 1)
      /\ \A i \in 1..n : a[i] = at(t - n + i)
  BY <1>1, <1>2, <1>3
<1> HIDE DEF a, H
<1>6. CASE t < MaxHistory
  <2>1. n = t /\ m = n + 1 /\ n + 1 <= MaxHistory
    BY <1>1, <1>6 DEF n, m
  <2>2. ASSUME NEW i \in 1..m PROVE a[i] = g[i]
    <3>1. t - n + i = i /\ t + 1 - m + i = i /\ (i = n + 1 => t + 1 = i) /\ (i \in 1..n \/ i = n + 1)
      BY <1>1, <2>1
    <3>2. QED
      BY <1>4, <1>5, <3>1
  <2>3. a = g
    BY <1>4, <1>5, <2>1, <2>2, SameSequence
  <2>4. QED
    BY <1>1, <1>5, <2>1, <2>3 DEF AppendCapped, a, h, g, r
<1>7. CASE ~(t < MaxHistory)
  <2>1. n = MaxHistory /\ m = n /\ n + 1 > MaxHistory
    BY <1>1, <1>7 DEF n, m
  <2>2. Tail(a) \in Seq(H) /\ Len(Tail(a)) = n /\ \A i \in 1..n : Tail(a)[i] = a[i + 1]
    BY <1>1, <1>5
  <2>3. ASSUME NEW i \in 1..m PROVE Tail(a)[i] = g[i]
    <3>1. /\ t - n + (i + 1) = t + 1 - m + i /\ (i = n => t + 1 - m + i = t + 1)
          /\ i + 1 \in 1..n \/ i = n
      BY <1>1, <2>1
    <3>2. i + 1 \in 1..n => a[i + 1] = at(t - n + (i + 1))
      BY <1>5
    <3>3. QED
      BY <1>4, <1>5, <2>1, <2>2, <3>1, <3>2
  <2>4. Tail(a) = g
    BY <1>4, <2>1, <2>2, <2>3, SameSequence
  <2>5. QED
    BY <1>1, <1>5, <2>1, <2>4 DEF AppendCapped, a, h, g, r
<1>8. QED
  BY <1>6, <1>7

LEMMA EmptyHistory == ASSUME NEW s, s.tick = 0 PROVE HistoryOf(s) = <<>>
BY HistoryAssumption DEF HistoryOf

-----------------------------------------------------------------------------
(* What a reader of the wire can rely on.                                  *)

LEMMA Bodies ==
    ASSUME Inv, Wire, NEW c \in Conn, open[c], NEW i \in 1..Len(wrote[c])
    PROVE  wrote[c][i] = Newline <=> i % 2 = 0
<1>1. wrote[c][i] = Output(c)[i] /\ i \in 1..Len(Output(c))
  BY WroteFirst DEF Inv
<1>2. QED
  BY <1>1 DEF Wire, Lines

\* Reply k answers line k, and follows from the reply before it.
LEMMA NextReply ==
    ASSUME "reset" \notin Faults, Inv, Wire, NEW c \in Conn, open[c],
           NEW k \in Nat \ {0}, 2 * k - 1 <= Len(wrote[c])
    PROVE  LET cmd == sent[c][k]
               r == wrote[c][2 * k - 1]
               before == wrote[c][2 * k - 3].sim
           IN  /\ k \in 1..Len(sent[c]) /\ cmd \in {"step", "reset"}
               /\ r.what = "snapshot" /\ r.sim \in Run
               /\ k = 1 => FirstReply(cmd, r)
               /\ k > 1 => before \in Run /\ r.sim = IF cmd = "step" THEN Stepped(before)
                                                     ELSE Fresh(before)
<1> DEFINE w == wrote[c]
           o == Output(c)
           n == read[c]
<1>1. /\ w \in Seq(Piece) /\ o \in Seq(Piece) /\ Len(w) <= Len(o)
      /\ \A i \in 1..Len(w) : o[i] = w[i]
  BY WroteFirst DEF Inv
<1>2. Lines(o, sent[c], n) /\ Follows(o, sent[c], n)
  BY DEF Wire, Inv, Replies
<1>3. n \in Nat /\ n <= Len(sent[c]) /\ sent[c] \in Seq(Command)
  BY DEF Inv, TypeInvariant, Heard
<1>4. /\ \A j \in 1..Len(sent[c]) : sent[c][j] \in {"step", "reset"}
      /\ \A i \in 1..Len(w) : w[i].sim \in Run
  <2>1. \A i \in 1..Len(w) : w[i] \in Piece
    BY <1>1
  <2>2. \A x \in Piece : x.sim \in Run
    BY DEF Piece
  <2>3. QED
    BY <2>1, <2>2 DEF Wire
<1> HIDE DEF w, o, n
<1>5. 2 * k - 1 \in 1..Len(w)
  BY <1>1 DEF w
<1>6. k <= n
  BY <1>1, <1>2, <1>3, <1>5 DEF Lines
<1>7. (2 * k - 1) % 2 = 1
  OBVIOUS
<1>8. o[2 * k - 1] = w[2 * k - 1] /\ w[2 * k - 1].what = "snapshot"
  BY <1>1, <1>2, <1>5, <1>7 DEF Lines
<1>9. k = 1 => FirstReply(sent[c][k], w[2 * k - 1])
  BY <1>1, <1>2, <1>5, <1>8 DEF Lines
<1>10. ASSUME k > 1
       PROVE  /\ w[2 * k - 3].sim \in Run
              /\ w[2 * k - 1].sim = IF sent[c][k] = "step" THEN Stepped(w[2 * k - 3].sim)
                                    ELSE Fresh(w[2 * k - 3].sim)
  <2>1. k \in 2..n /\ 2 * k - 3 \in 1..Len(w) /\ 2 * k - 1 <= Len(o)
    BY <1>1, <1>3, <1>5, <1>6, <1>10
  <2>2. Answers(sent[c][k], w[2 * k - 3].sim, w[2 * k - 1])
    BY <1>1, <1>2, <1>8, <2>1 DEF Follows
  <2>3. sent[c][k] \in {"step", "reset"}
    BY <1>3, <1>4, <1>6
  <2>4. QED
    BY <1>4, <1>8, <2>1, <2>2, <2>3 DEF Answers
<1>11. QED
  BY <1>3, <1>4, <1>5, <1>6, <1>8, <1>9, <1>10 DEF w

\* Who has read all the replies to what was sent has nothing left to read.
LEMMA NothingLeft ==
    ASSUME Inv, Link, Wire, net = "connected", Settled
    PROVE  ~(taken[sock] < Len(wrote[sock]))
<1>1. sock \in Conn /\ open[sock]
  BY DEF Link, LinkTypes, OneSocket
<1>2. /\ Len(wrote[sock]) <= Len(Output(sock)) /\ Len(Output(sock)) <= 2 * read[sock]
      /\ wrote[sock] \in Seq(Piece) /\ Output(sock) \in Seq(Piece)
  BY <1>1, WroteFirst DEF Inv, Wire, Lines
<1>3. read[sock] <= Len(sent[sock]) /\ read[sock] \in Nat /\ sent[sock] \in Seq(Command)
  BY <1>1 DEF Inv, Heard, TypeInvariant
<1>4. taken[sock] = 2 * Len(sent[sock]) /\ taken[sock] \in Nat
  BY <1>1 DEF Settled, Inv, TypeInvariant
<1>5. QED
  BY <1>2, <1>3, <1>4

-----------------------------------------------------------------------------
(* The screen.                                                             *)

LEMMA Halves ==
    ASSUME NEW k \in Nat
    PROVE  /\ (2 * k) \div 2 = k /\ (2 * k) % 2 = 0
           /\ (2 * k + 1) \div 2 = k /\ (2 * k + 1) % 2 = 1
OBVIOUS

LEMMA Parity ==
    ASSUME NEW t \in Nat
    PROVE  \E k \in Nat : t = 2 * k \/ t = 2 * k + 1
<1>1. t \div 2 \in Nat /\ (t = 2 * (t \div 2) \/ t = 2 * (t \div 2) + 1)
  OBVIOUS
<1>2. QED
  BY <1>1

\* An empty screen is a run that has not started.
LEMMA BlankShows ==
    ASSUME shown' = NoSnapshot, prev' = NoSnapshot, history' = NoHistory
    PROVE  Blank' /\ HistoryIsRun' /\ PrevIsTickBefore'
<1>1. NoSnapshot.tick = 0 /\ ~(NoSnapshot.tick > 1)
  BY DEF NoSnapshot
<1>2. \A h \in History : history'[h] = HistoryOf(shown')
  BY <1>1, EmptyHistory DEF NoHistory
<1>3. HistoryIsRun'
  BY <1>2 DEF HistoryIsRun, HistoryOf
<1>4. PrevIsTickBefore' /\ Blank'
  BY <1>1 DEF PrevIsTickBefore, Blank
<1>5. QED
  BY <1>3, <1>4

\* Steps of others.
LEMMA ScreenQuiet ==
    ASSUME Inv, Link, Screen,
           UNCHANGED <<net, sock, timer, needsLaunch, buffer, screenVars, overtaken, sent, taken>>,
           \A c \in Conn : stage[c] = "over" => stage'[c] = "over",
           \A c \in Conn : \A i \in 1..taken[c] : wrote'[c][i] = wrote[c][i]
    PROVE  Screen'
<1> SUFFICES ASSUME ~overtaken PROVE Screen'
  BY DEF Screen
<1>1. OnScreen /\ HistoryIsRun /\ PrevIsTickBefore
  BY DEF Screen
<1>2. UNCHANGED <<shown, prev, history>>
  BY DEF screenVars
<1>3. HistoryIsRun' /\ PrevIsTickBefore' /\ (Blank' <=> Blank) /\ (Settled' <=> Settled)
  BY <1>1, <1>2 DEF HistoryIsRun, PrevIsTickBefore, Blank, Settled
<1>4. sock \in Conn => taken[sock] \in Nat
  BY DEF Inv, TypeInvariant
<1>5. Buffered'
  <2>1. sock \in Conn /\ taken[sock] % 2 = 1 => taken[sock] \in 1..taken[sock]
    BY <1>4
  <2>2. QED
    BY <1>1, <2>1 DEF OnScreen, Buffered
<1>6. net = "connected" => sock \in Conn
  BY DEF Link, LinkTypes
<1>7. ASSUME NEW k, k = taken[sock] \div 2, net = "connected", Showing(k) PROVE Showing(k)'
  <2>1. k # 0 => 2 * k - 1 \in 1..taken[sock]
    BY <1>4, <1>6, <1>7
  <2>2. k # 0 => wrote'[sock][2 * k - 1] = wrote[sock][2 * k - 1]
    BY <1>6, <1>7, <2>1
  <2>3. QED
    BY <1>2, <1>7, <2>2 DEF Showing, LastRead
<1>8. QED
  BY <1>1, <1>3, <1>5, <1>6, <1>7 DEF Screen, OnScreen

\* The screen is cleared as the process ends, with nothing on its way.
LEMMA ClearEnd ==
    ASSUME Inv, Link, Screen, Clear, EndProcess, needsLaunch' = TRUE,
           UNCHANGED <<net, sock, buffer>>
    PROVE  Screen'
<1> SUFFICES ASSUME ~overtaken' PROVE Screen'
  BY DEF Screen
<1>1. ~overtaken /\ Settled /\ OnScreen
  BY DEF Clear, Screen
<1>2. Blank' /\ HistoryIsRun' /\ PrevIsTickBefore'
  BY BlankShows DEF Clear, ClearState
<1>3. Settled' /\ Buffered'
  BY <1>1 DEF OnScreen, Settled, Buffered, EndProcess
<1>4. net = "connected" => stage'[sock] = "over"
  BY DEF Link, LinkTypes, OneSocket, EndProcess, Inv, TypeInvariant
<1>5. net = "connecting" => sent'[sock] = <<>>
  BY <1>1 DEF OnScreen, EndProcess
<1>6. QED
  BY <1>2, <1>3, <1>4, <1>5 DEF Screen, OnScreen

LEMMA UserScreen == ASSUME Inv, Link, Wire, Screen, User PROVE Screen'
<1>1. /\ net = "connected" => sock \in Conn
      /\ connected <=> net = "connected"
      /\ timer => needsLaunch
  BY DEF Link, LinkTypes, Aware
<1>2. sock \in Conn => taken[sock] \in Nat /\ sent[sock] \in Seq(Command)
  BY DEF Inv, TypeInvariant
<1>3. CASE UserStep /\ ~overtaken
  <2>1. /\ net = "connected" /\ ~needsLaunch /\ Written(sock, "step")
        /\ UNCHANGED <<net, sock, timer, needsLaunch, buffer, shown, prev, history, overtaken>>
    BY <1>1, <1>3 DEF UserStep, CanRun, SendLine, viewerVars, launchVars, linkVars, screenVars
  <2>2. OnScreen /\ HistoryIsRun /\ PrevIsTickBefore
    BY <1>3 DEF Screen
  <2>3. /\ sent'[sock] = Append(sent[sock], "step") /\ UNCHANGED <<taken, wrote>>
        /\ sent[sock] \in Seq(Command) /\ taken[sock] \in Nat
    BY <1>1, <1>2, <2>1 DEF Written, Inv, TypeInvariant
  <2>4. PICK k \in Nat : k = taken[sock] \div 2
    BY <2>3
  <2>5. Showing(k)
    BY <2>1, <2>2, <2>4 DEF OnScreen
  <2>6. Showing(k)'
    <3> DEFINE s == sent[sock]
               u == sent'[sock]
    <3>1. Len(u) = Len(s) + 1 /\ u[Len(s) + 1] = "step" /\ \A j \in 1..Len(s) : u[j] = s[j]
      BY <2>3
    <3>2. Len(s) \in Nat
      BY <2>3
    <3>3. (k < Len(s) /\ s[k + 1] = "reset") <=> (k < Len(u) /\ u[k + 1] = "reset")
      <4>1. CASE k < Len(s)
        <5>1. k + 1 \in 1..Len(s) /\ k < Len(u)
          BY <3>1, <3>2, <4>1
        <5>2. QED
          BY <3>1, <4>1, <5>1
      <4>2. CASE ~(k < Len(s))
        BY <3>1, <3>2, <4>2
      <4>3. QED
        BY <4>1, <4>2
    <3>4. ASSUME NEW j \in 1..Len(u), j >= k + 2 PROVE u[j] = "step"
      <4>1. j \in 1..Len(s) => s[j] = "step"
        BY <2>5, <3>4 DEF Showing
      <4>2. j \in 1..Len(s) \/ j = Len(s) + 1
        BY <3>1, <3>2
      <4>3. QED
        BY <3>1, <4>1, <4>2
    <3> HIDE DEF s, u
    <3>5. LastRead(k)' = LastRead(k)
      BY <2>1, <2>3, <3>3 DEF LastRead, s, u
    <3>6. QED
      BY <2>1, <2>5, <3>4, <3>5 DEF Showing, u
  <2>7. Buffered' /\ HistoryIsRun' /\ PrevIsTickBefore'
    BY <2>1, <2>2, <2>3 DEF OnScreen, Buffered, HistoryIsRun, PrevIsTickBefore
  <2>8. QED
    BY <1>1, <2>1, <2>3, <2>4, <2>6, <2>7 DEF Screen, OnScreen
<1>4. CASE UserReset /\ ~overtaken'
  <2>1. /\ ~overtaken /\ Settled /\ ~needsLaunch /\ ~timer
        /\ (connected \/ Done(shown)) /\ SendLine("reset")
        /\ UNCHANGED <<net, sock, timer, needsLaunch, buffer>>
    BY <1>1, <1>4 DEF UserReset, Clear, CanReconfig, launchVars, linkVars
  <2>2. Blank' /\ HistoryIsRun' /\ PrevIsTickBefore'
    BY <1>4, BlankShows DEF UserReset, Clear, ClearState
  <2>3. OnScreen
    BY <2>1 DEF Screen
  <2>4. net # "connecting"
    <3>1. ~Done(NoSnapshot)
      BY LengthAssumption DEF Done, NoSnapshot
    <3>2. QED
      BY <1>1, <2>1, <2>3, <3>1 DEF OnScreen, Blank
  <2>5. CASE net = "unconnected"
    <3>1. UNCHANGED <<sent, taken, wrote>>
      BY <1>4, <2>5 DEF UserReset, SendLine, serverVars
    <3>2. QED
      BY <2>1, <2>2, <2>3, <2>5, <3>1 DEF Screen, OnScreen, Buffered
  <2>6. CASE net = "connected"
    <3>1. /\ sent'[sock] = Append(sent[sock], "reset") /\ UNCHANGED <<taken, wrote>>
          /\ sent[sock] \in Seq(Command) /\ taken[sock] = 2 * Len(sent[sock])
      BY <1>1, <1>2, <1>4, <2>1, <2>6 DEF UserReset, SendLine, Written, Settled, Inv, TypeInvariant
    <3>2. PICK k \in Nat : k = Len(sent[sock]) /\ taken[sock] = 2 * k
      BY <3>1
    <3>3. taken[sock] \div 2 = k
      BY <3>2, Halves
    <3>4. /\ Len(sent'[sock]) = k + 1 /\ sent'[sock][k + 1] = "reset" /\ k < k + 1
      BY <3>1, <3>2
    <3>5. LastRead(k)' = NoSnapshot
      BY <2>1, <3>4 DEF LastRead
    <3>6. Showing(k)'
      BY <2>1, <2>2, <3>2, <3>4, <3>5 DEF Showing, Blank
    <3>7. Buffered'
      BY <2>1, <2>3, <3>1 DEF OnScreen, Buffered
    <3>8. QED
      BY <2>1, <2>2, <2>6, <3>1, <3>3, <3>6, <3>7 DEF Screen, OnScreen
  <2>7. QED
    BY <2>4, <2>5, <2>6 DEF Link, LinkTypes
<1>5. CASE UserReconfigure
  BY <1>5, ClearEnd DEF UserReconfigure, linkVars
<1>6. CASE UserLaunch
  BY <1>6, ClearEnd DEF UserLaunch, linkVars, Link, LinkTypes
<1>7. overtaken' => Screen'
  BY DEF Screen
<1>8. UserStep => overtaken' = overtaken
  BY DEF UserStep, viewerVars
<1>9. QED
  BY <1>3, <1>4, <1>5, <1>6, <1>7, <1>8 DEF User

\* Handlers that read nothing.
LEMMA LinkScreen ==
    ASSUME Inv, Link, Wire, Screen, Timeout \/ OnConnected \/ OnRefused \/ OnDisconnected
    PROVE  Screen'
<1> SUFFICES ASSUME ~overtaken PROVE Screen'
  BY DEF Screen, Timeout, OnConnected, OnRefused, OnDisconnected
<1>1. OnScreen /\ HistoryIsRun /\ PrevIsTickBefore
  BY DEF Screen
<1>2. /\ UNCHANGED <<shown, prev, history, overtaken, buffer, sent, wrote, taken>>
      /\ HistoryIsRun' /\ PrevIsTickBefore' /\ (Blank' <=> Blank)
  <2>1. UNCHANGED <<shown, prev, history, overtaken, buffer, sent, wrote, taken>>
    BY DEF Timeout, OnConnected, OnRefused, OnDisconnected, Connect, Close, serverVars, screenVars
  <2>2. QED
    BY <1>1, <2>1 DEF HistoryIsRun, PrevIsTickBefore, Blank
<1>3. ASSUME NEW c \in Conn, stage[c] = "unused"
      PROVE  taken[c] = 0
  <2>1. wrote[c] = <<>> /\ taken[c] \in Nat /\ taken[c] <= Len(wrote[c])
    BY <1>3 DEF Inv, Unheard, TypeInvariant, Wire
  <2>2. QED
    BY <2>1
<1>4. CASE Timeout
  <2>1. /\ timer /\ ~timer' /\ net' = "connecting" /\ sock' = launches /\ launches \in Conn
        /\ sock < launches
    BY <1>4 DEF Timeout, Link, LinkTypes, Aware
  <2>2. Blank /\ Settled /\ Buffered
    BY <1>1, <2>1 DEF OnScreen
  <2>3. buffer = <<>>
    <3>1. ASSUME sock \in Conn PROVE taken[sock] % 2 = 0
      <4>1. PICK k \in Nat : taken[sock] = 2 * k
        BY <2>2, <3>1 DEF Settled, Inv, TypeInvariant
      <4>2. QED
        BY <4>1, Halves
    <3>2. QED
      BY <2>2, <3>1 DEF Buffered
  <2>4. sent[sock'] = <<>> /\ taken[sock'] = 0
    BY <1>3, <2>1 DEF Link, OneSocket
  <2>5. Buffered'
    BY <1>2, <2>3, <2>4 DEF Buffered
  <2>6. QED
    BY <1>2, <2>1, <2>2, <2>4, <2>5 DEF Screen, OnScreen
<1>5. CASE OnConnected
  <2>1. /\ net = "connecting" /\ net' = "connected" /\ sock \in Conn /\ UNCHANGED sock
        /\ ~timer /\ ~timer' /\ stage[sock] = "unused"
    BY <1>5 DEF OnConnected, Connect, Link, LinkTypes, Aware
  <2>2. Blank /\ sent[sock] = <<>> /\ taken[sock] = 0
    BY <1>1, <1>3, <2>1 DEF OnScreen
  <2>3. Showing(0)'
    BY <1>2, <2>1, <2>2 DEF Showing, LastRead, Blank
  <2>4. taken'[sock'] \div 2 = 0
    BY <1>2, <2>1, <2>2
  <2>5. Buffered'
    BY <1>1, <1>2, <2>1 DEF OnScreen, Buffered
  <2>6. QED
    BY <1>2, <2>1, <2>3, <2>4, <2>5 DEF Screen, OnScreen
<1>6. CASE OnRefused \/ OnDisconnected
  <2>1. net' = "unconnected" /\ UNCHANGED <<sock, timer>>
    BY <1>6 DEF OnRefused, OnDisconnected
  <2>2. Buffered' /\ (Settled' <=> Settled)
    BY <1>1, <1>2, <2>1 DEF OnScreen, Buffered, Settled
  <2>3. QED
    BY <1>1, <1>2, <2>1, <2>2 DEF Screen, OnScreen
<1>7. QED
  BY <1>4, <1>5, <1>6

\* Whoever reads has a live connection and a screen that follows it.
LEMMA Reads ==
    ASSUME Inv, Link, Wire, OnScreen, Readable
    PROVE  /\ sock \in Conn /\ net = "connected" /\ open[sock] /\ ~timer
           /\ taken[sock] \in Nat /\ taken[sock] + 1 \in 1..Len(wrote[sock])
           /\ taken' = [taken EXCEPT ![sock] = taken[sock] + 1]
           /\ taken'[sock] = taken[sock] + 1
           /\ UNCHANGED <<sent, wrote, stage>>
           /\ Buffered /\ Showing(taken[sock] \div 2)
           /\ wrote[sock] \in Seq(Piece) /\ sent[sock] \in Seq(Command)
<1>1. /\ sock \in Conn /\ net = "connected" /\ open[sock] /\ taken[sock] < Len(wrote[sock])
      /\ taken \in [Conn -> Nat] /\ wrote[sock] \in Seq(Piece) /\ sent[sock] \in Seq(Command)
      /\ taken' = [taken EXCEPT ![sock] = taken[sock] + 1]
      /\ UNCHANGED <<sent, wrote, stage>>
  BY DEF Readable, Receive, Link, LinkTypes, Inv, TypeInvariant
<1>2. ~Settled
  BY <1>1, NothingLeft
<1>3. QED
  BY <1>1, <1>2 DEF OnScreen

\* Half a line is no news.
LEMMA BodyScreen ==
    ASSUME Inv, Link, Wire, Screen, ReadBody
    PROVE  Screen'
<1> SUFFICES ASSUME ~overtaken PROVE Screen'
  BY DEF Screen, ReadBody
<1> DEFINE t == taken[sock]
<1>1. OnScreen /\ HistoryIsRun /\ PrevIsTickBefore
  BY DEF Screen
<1>2. /\ sock \in Conn /\ net = "connected" /\ open[sock] /\ ~timer
      /\ t \in Nat /\ t + 1 \in 1..Len(wrote[sock]) /\ taken'[sock] = t + 1
      /\ UNCHANGED <<sent, wrote, stage>>
      /\ Buffered /\ Showing(t \div 2) /\ wrote[sock] \in Seq(Piece)
  BY <1>1, Reads DEF ReadBody
<1>3. /\ UNCHANGED <<shown, prev, history, overtaken, sock, net, timer>>
      /\ buffer' = Append(buffer, wrote[sock][t + 1]) /\ wrote[sock][t + 1] # Newline
  BY DEF ReadBody, NextPiece, screenVars, launchVars, linkVars
<1>4. (t + 1) % 2 # 0
  BY <1>2, <1>3, Bodies
<1>5. PICK k \in Nat : t = 2 * k
  <2>1. PICK k \in Nat : t = 2 * k \/ t = 2 * k + 1
    BY <1>2, Parity
  <2>2. t # 2 * k + 1
    <3>1. (2 * (k + 1)) % 2 = 0
      BY Halves
    <3>2. t = 2 * k + 1 => t + 1 = 2 * (k + 1)
      OBVIOUS
    <3>3. QED
      BY <1>4, <3>1, <3>2
  <2>3. QED
    BY <2>1, <2>2
<1> HIDE DEF t
<1>6. t % 2 = 0 /\ t \div 2 = k /\ (t + 1) \div 2 = k /\ (t + 1) % 2 = 1
  BY <1>5, Halves
<1>7. buffer' = <<wrote[sock][t + 1]>>
  <2>1. buffer = <<>>
    BY <1>2, <1>6 DEF Buffered, t
  <2>2. QED
    BY <1>3, <2>1
<1>8. Buffered'
  BY <1>2, <1>3, <1>6, <1>7 DEF Buffered
<1>9. Showing(k)'
  BY <1>2, <1>3, <1>6 DEF Showing, LastRead
<1>10. HistoryIsRun' /\ PrevIsTickBefore'
  BY <1>1, <1>3 DEF HistoryIsRun, PrevIsTickBefore
<1>11. QED
  BY <1>2, <1>3, <1>6, <1>8, <1>9, <1>10 DEF Screen, OnScreen


\* The three kinds of news: the tick after the one on the screen, the same again
\* from a run that is done, and the first of a run on an empty screen.
LEMMA NextTick ==
    ASSUME HistoryIsRun, PrevIsTickBefore, ~overtaken, ~overtaken',
           shown \in Run, NEW s, s = Stepped(shown), OnSnapshot(s)
    PROVE  HistoryIsRun' /\ PrevIsTickBefore'
<1>1. \A h \in History : history[h] = HistoryOf(shown)
  BY DEF HistoryIsRun, HistoryOf
<1>2. CASE Done(shown)
  <2>1. s = shown /\ shown # NoSnapshot
    BY <1>2, LengthAssumption DEF Stepped, Done, NoSnapshot
  <2>2. UNCHANGED <<shown, prev, history>>
    BY <2>1 DEF OnSnapshot
  <2>3. QED
    BY <2>2 DEF HistoryIsRun, PrevIsTickBefore
<1>3. CASE ~Done(shown)
  <2> DEFINE at(x) == [run |-> shown.run, tick |-> x]
  <2>1. /\ shown.tick \in Nat /\ shown = at(shown.tick)
        /\ s = at(shown.tick + 1) /\ s.tick = shown.tick + 1
    BY <1>3 DEF Stepped, Run
  <2>2. shown' = s /\ prev' = shown
        /\ \A h \in History : history'[h] = AppendCapped(history[h], s)
    BY <2>1 DEF OnSnapshot, Recorded
  <2>3. \A h \in History : history'[h] = HistoryOf(shown')
    BY <1>1, <1>3, <2>2, Grows
  <2>4. HistoryIsRun'
    BY <2>3 DEF HistoryIsRun, HistoryOf
  <2>5. PrevIsTickBefore'
    <3>1. \A x : [s EXCEPT !.tick = x] = at(x)
      BY <2>1
    <3>2. s.tick - 1 = shown.tick /\ (s.tick <= 1 => shown.tick = 0)
      BY <2>1
    <3> HIDE DEF at
    <3>3. [s EXCEPT !.tick = @ - 1] = at(shown.tick) /\ [s EXCEPT !.tick = 0] = at(0)
      BY <3>1, <3>2
    <3>4. QED
      BY <2>1, <2>2, <3>2, <3>3 DEF PrevIsTickBefore
  <2>6. QED
    BY <2>4, <2>5
<1>4. QED
  BY <1>2, <1>3

LEMMA FirstTick ==
    ASSUME HistoryIsRun, ~overtaken, ~overtaken', shown = NoSnapshot,
           NEW s \in Run, s.tick \in {0, 1}, OnSnapshot(s)
    PROVE  HistoryIsRun' /\ PrevIsTickBefore'
<1>1. \A h \in History : history[h] = <<>>
  <2>1. \A h \in History : history[h] = HistoryOf(shown)
    BY DEF HistoryIsRun, HistoryOf
  <2>2. QED
    BY <2>1, EmptyHistory DEF NoSnapshot
<1>2. /\ shown' = s /\ prev' = NoSnapshot
      /\ \A h \in History :
             history'[h] = IF s.tick > 0 THEN AppendCapped(<<>>, s) ELSE <<>>
  BY <1>1 DEF OnSnapshot, Recorded
<1>3. \A h \in History : history'[h] = HistoryOf(s)
  <2>1. CASE s.tick = 0
    BY <1>2, <2>1, EmptyHistory
  <2>2. CASE s.tick = 1
    <3> DEFINE r == [run |-> s.run, tick |-> 0]
    <3>1. r \in Run /\ ~Done(r) /\ Stepped(r) = s /\ r.tick = 0
      <4>1. s = [run |-> s.run, tick |-> 1] /\ s.run \in Nat
        BY <2>2 DEF Run
      <4>2. ~Done(r)
        BY LengthAssumption DEF Done
      <4>3. Stepped(r) = [run |-> s.run, tick |-> 1]
        BY <4>2 DEF Stepped
      <4>4. QED
        BY <4>1, <4>2, <4>3, LengthAssumption DEF Run
    <3> HIDE DEF r
    <3>2. HistoryOf(r) = <<>>
      BY <3>1, EmptyHistory
    <3>3. QED
      BY <1>2, <2>2, <3>1, <3>2, Grows
  <2>3. QED
    BY <2>1, <2>2
<1>4. HistoryIsRun'
  BY <1>2, <1>3 DEF HistoryIsRun, HistoryOf
<1>5. PrevIsTickBefore'
  BY <1>2 DEF PrevIsTickBefore
<1>6. QED
  BY <1>4, <1>5

\* A line that is complete is the reply to the next command.
LEMMA LineScreen ==
    ASSUME "reset" \notin Faults, Inv, Link, Wire, Screen, ReadLine
    PROVE  Screen'
<1> SUFFICES ASSUME ~overtaken PROVE Screen'
  BY DEF Screen, ReadLine
<1> DEFINE t == taken[sock]
           w == wrote[sock]
           s == sent[sock]
<1>1. OnScreen /\ HistoryIsRun /\ PrevIsTickBefore
  BY DEF Screen
<1>2. /\ sock \in Conn /\ net = "connected" /\ open[sock] /\ ~timer
      /\ t \in Nat /\ t + 1 \in 1..Len(w) /\ taken'[sock] = t + 1
      /\ UNCHANGED <<sent, wrote, stage>>
      /\ Buffered /\ Showing(t \div 2) /\ w \in Seq(Piece) /\ s \in Seq(Command)
  <2>1. OnScreen /\ Readable
    BY <1>1 DEF ReadLine
  <2>2. QED
    BY <2>1, Reads
<1>3. /\ UNCHANGED <<overtaken, sock, net, timer>>
      /\ buffer' = <<>> /\ w[t + 1] = Newline /\ OnSnapshot(Parsed(buffer[1]))
  BY DEF ReadLine, NextPiece, launchVars, linkVars
<1>4. (t + 1) % 2 = 0
  BY <1>2, <1>3, Bodies
<1>5. PICK k \in Nat : t = 2 * k + 1
  <2>1. PICK k \in Nat : t = 2 * k \/ t = 2 * k + 1
    BY <1>2, Parity
  <2>2. t # 2 * k
    BY <1>4, Halves
  <2>3. QED
    BY <2>1, <2>2
<1> DEFINE r == w[2 * (k + 1) - 1]
<1> HIDE DEF t
<1>6. t % 2 = 1 /\ t \div 2 = k /\ 2 * (k + 1) - 1 = t /\ t + 1 = 2 * (k + 1)
      /\ (t + 1) \div 2 = k + 1 /\ (t + 1) % 2 = 0
  <2>1. 2 * (k + 1) - 1 = t /\ t + 1 = 2 * (k + 1)
    BY <1>5
  <2>2. QED
    BY <1>5, <2>1, Halves
<1>7. buffer[1] = r
  <2>1. buffer = <<w[t]>>
    BY <1>2, <1>6 DEF Buffered, t
  <2>2. buffer[1] = w[t]
    BY <2>1
  <2>3. QED
    BY <1>6, <2>2
<1>8. /\ k + 1 \in 1..Len(s) /\ s[k + 1] \in {"step", "reset"}
      /\ r.what = "snapshot" /\ r.sim \in Run
      /\ k = 0 => FirstReply(s[k + 1], r)
      /\ k > 0 => w[2 * k - 1].sim \in Run
                  /\ r.sim = IF s[k + 1] = "step" THEN Stepped(w[2 * k - 1].sim)
                             ELSE Fresh(w[2 * k - 1].sim)
  <2> PICK m \in Nat \ {0} : m = k + 1
    OBVIOUS
  <2>1. 2 * m - 1 = t /\ 2 * m - 1 <= Len(w) /\ 2 * m - 3 = 2 * k - 1
    <3>1. t <= Len(w)
      BY <1>2
    <3>2. 2 * m - 1 = 2 * (k + 1) - 1 /\ 2 * m - 3 = 2 * k - 1
      OBVIOUS
    <3>3. QED
      BY <1>6, <3>1, <3>2
  <2> DEFINE cmd == s[m]
             x == w[2 * m - 1]
             before == w[2 * m - 3].sim
  <2>2. /\ m \in 1..Len(s) /\ cmd \in {"step", "reset"}
        /\ x.what = "snapshot" /\ x.sim \in Run
        /\ m = 1 => FirstReply(cmd, x)
        /\ m > 1 => before \in Run /\ x.sim = IF cmd = "step" THEN Stepped(before)
                                              ELSE Fresh(before)
    BY <1>2, <2>1, NextReply
  <2> HIDE DEF cmd, x, before
  <2>3. cmd = s[k + 1] /\ x = r
    BY <1>7, <2>1 DEF cmd, x
  <2>4. before = w[2 * k - 1].sim
    BY <2>1 DEF before
  <2>5. (k = 0 => m = 1) /\ (k > 0 => m > 1) /\ m = k + 1
    OBVIOUS
  <2>6. /\ k + 1 \in 1..Len(s) /\ s[k + 1] \in {"step", "reset"}
        /\ r.what = "snapshot" /\ r.sim \in Run
    BY <2>2, <2>3, <2>5
  <2>7. k = 0 => FirstReply(s[k + 1], r)
    BY <2>2, <2>3, <2>5
  <2>8. k > 0 => /\ before \in Run
                 /\ r.sim = IF s[k + 1] = "step" THEN Stepped(before) ELSE Fresh(before)
    BY <2>2, <2>3, <2>5
  <2>9. QED
    BY <2>4, <2>6, <2>7, <2>8
<1>9. OnSnapshot(r.sim)
  BY <1>3, <1>7, <1>8 DEF Parsed
<1>10. /\ shown = LastRead(k) /\ Len(s) \in Nat
       /\ \A j \in 1..Len(s) : j >= k + 2 => s[j] = "step"
  <2>1. Showing(k)
    BY <1>2, <1>6 DEF t
  <2>2. QED
    BY <1>2, <2>1 DEF Showing
<1>11. HistoryIsRun' /\ PrevIsTickBefore'
  <2>1. CASE s[k + 1] = "reset"
    <3>1. shown = NoSnapshot
      BY <1>8, <1>10, <2>1 DEF LastRead
    <3>2. r.sim.tick = 0
      BY <1>8, <2>1 DEF FirstReply, Fresh
    <3>3. QED
      BY <1>1, <1>3, <1>8, <1>9, <3>1, <3>2, FirstTick
  <2>2. CASE s[k + 1] = "step" /\ k = 0
    <3>1. shown = NoSnapshot /\ r.sim.tick = 1
      BY <1>8, <1>10, <2>2 DEF LastRead, FirstReply
    <3>2. QED
      BY <1>1, <1>3, <1>8, <1>9, <3>1, FirstTick
  <2>3. CASE s[k + 1] = "step" /\ k > 0
    <3>1. shown = w[2 * k - 1].sim
      BY <1>10, <2>3 DEF LastRead
    <3>2. QED
      BY <1>1, <1>3, <1>8, <1>9, <2>3, <3>1, NextTick
  <2>4. (s[k + 1] = "step" \/ s[k + 1] = "reset") /\ (k = 0 \/ k > 0)
    BY <1>8
  <2>5. QED
    BY <2>1, <2>2, <2>3, <2>4
<1>12. Showing(k + 1)'
  <2>1. ~(k + 1 < Len(s) /\ s[(k + 1) + 1] = "reset")
    <3>1. k + 1 < Len(s) => (k + 1) + 1 \in 1..Len(s) /\ (k + 1) + 1 >= k + 2
      BY <1>10
    <3>2. k + 1 < Len(s) => s[(k + 1) + 1] = "step"
      BY <1>10, <3>1
    <3>3. QED
      BY <3>2
  <2>2. LastRead(k + 1)' = r.sim
    BY <1>2, <1>3, <2>1 DEF LastRead
  <2>3. shown' = r.sim
    BY <1>9 DEF OnSnapshot
  <2>4. \A j \in 1..Len(s) : j >= (k + 1) + 2 => s[j] = "step"
    <3>1. \A j \in 1..Len(s) : j >= (k + 1) + 2 => j >= k + 2
      OBVIOUS
    <3>2. QED
      BY <1>10, <3>1
  <2>5. QED
    BY <1>2, <1>3, <2>2, <2>3, <2>4 DEF Showing
<1>13. Buffered'
  BY <1>2, <1>3, <1>6 DEF Buffered
<1>14. QED
  BY <1>2, <1>3, <1>6, <1>11, <1>12, <1>13 DEF Screen, OnScreen

LEMMA ScreenKept ==
    ASSUME "reset" \notin Faults, Inv, Link, Wire, Screen, [ViewerNext]_vars
    PROVE  Screen'
<1>1. CASE User
  BY <1>1, UserScreen
<1>2. CASE EventLoop
  <2>1. CASE ReadGarbledLine
    <3>1. Len(buffer) > 1 /\ UNCHANGED overtaken
      BY <2>1 DEF ReadGarbledLine
    <3>2. ASSUME ~overtaken PROVE FALSE
      <4>1. buffer = <<>> \/ buffer = <<wrote[sock][taken[sock]]>>
        BY <3>2 DEF Screen, OnScreen, Buffered
      <4>2. Len(<<>>) = 0 /\ Len(<<wrote[sock][taken[sock]]>>) = 1 /\ ~(0 > 1) /\ ~(1 > 1)
        OBVIOUS
      <4>3. CASE buffer = <<>>
        BY <3>1, <4>2, <4>3
      <4>4. CASE buffer = <<wrote[sock][taken[sock]]>>
        BY <3>1, <4>2, <4>4
      <4>5. QED
        BY <4>1, <4>3, <4>4
    <3>3. QED
      BY <3>1, <3>2 DEF Screen
  <2>2. QED
    BY <1>2, <2>1, LinkScreen, BodyScreen, LineScreen DEF EventLoop
<1>3. CASE ServerRuns
  <2>1. UNCHANGED <<net, sock, timer, needsLaunch, buffer, screenVars, overtaken, sent, taken>>
    BY <1>3 DEF ServerRuns, viewerVars, launchVars, linkVars, Serve, Start, Accept, Handle,
                HandleStep, HandleStatus, HandleReset, HandleInvalid, Write,
                WriteToNobody, EndOfInput, HangUp
  <2>2. \A c \in Conn : stage[c] = "over" => stage'[c] = "over"
    <3>1. CASE Accept
      <4>1. Head(backlog) \in Conn /\ stage[Head(backlog)] = "queued"
        <5>1. backlog \in Seq(Conn) /\ backlog # <<>>
          BY <3>1 DEF Accept, Inv, TypeInvariant
        <5>2. 1 \in DOMAIN backlog /\ backlog[1] = Head(backlog) /\ Head(backlog) \in Conn
          BY <5>1
        <5>3. QED
          BY <5>2 DEF Inv, OneAtATime
      <4>2. QED
        BY <3>1, <4>1 DEF Accept, Inv, TypeInvariant
    <3>2. CASE ~Accept
      BY <1>3, <3>2 DEF ServerRuns, Serve, Start, Handle, HandleStep, HandleStatus, HandleReset,
             HandleInvalid, Write, WriteToNobody, EndOfInput, HangUp, Inv, TypeInvariant
    <3>3. QED
      BY <3>1, <3>2
  <2>3. \A c \in Conn : \A i \in 1..taken[c] : wrote'[c][i] = wrote[c][i]
    <3>1. ASSUME NEW d \in Conn, Write(d), NEW c \in Conn, NEW i \in 1..taken[c]
          PROVE  wrote'[c][i] = wrote[c][i]
      <4>1. /\ wrote \in [Conn -> Seq(Piece)] /\ taken[c] <= Len(wrote[c]) /\ taken[c] \in Nat
            /\ out \in Seq(Piece) /\ out # <<>>
            /\ wrote' = [wrote EXCEPT ![d] = Append(@, Head(out))]
        BY <3>1 DEF Write, Inv, TypeInvariant, Wire
      <4>2. i \in 1..Len(wrote[c])
        BY <4>1
      <4>3. QED
        BY <4>1, <4>2
    <3>2. wrote' = wrote \/ \E d \in Conn : Write(d)
      BY <1>3 DEF ServerRuns, Serve, Start, Accept, Handle, HandleStep, HandleStatus, HandleReset,
                  HandleInvalid, WriteToNobody, EndOfInput, HangUp
    <3>3. QED
      BY <3>1, <3>2
  <2>4. QED
    BY <2>1, <2>2, <2>3, ScreenQuiet
<1>4. CASE Crash
  <2>1. /\ EndProcess
        /\ UNCHANGED <<net, sock, timer, needsLaunch, buffer, screenVars, overtaken>>
    BY <1>4 DEF Crash, AcceptFails, launchVars, linkVars
  <2>2. /\ UNCHANGED <<sent, taken, wrote>>
        /\ \A c \in Conn : stage[c] = "over" => stage'[c] = "over"
    BY <2>1 DEF EndProcess
  <2>3. QED
    BY <2>1, <2>2, ScreenQuiet
<1>5. CASE UNCHANGED vars
  BY <1>5, ScreenQuiet DEF vars, serverVars, viewerVars, launchVars, linkVars
<1>6. QED
  BY <1>1, <1>2, <1>3, <1>4, <1>5 DEF ViewerNext

-----------------------------------------------------------------------------
(* The theorems.  A reset that fails is answered by an error, which the    *)
(* viewer takes for the state before the first tick.                       *)

LEMMA ScreenFollows ==
    ASSUME "reset" \notin Faults
    PROVE  ViewerSpec => [](Inv /\ Link /\ Wire /\ Screen)
<1>1. ViewerInit => Wire /\ Screen
  <2> SUFFICES ASSUME ViewerInit PROVE Wire /\ Screen
    OBVIOUS
  <2>1. /\ \A c \in Conn : sent[c] = <<>> /\ wrote[c] = <<>> /\ taken[c] = 0 /\ ~open[c]
        /\ up = "exited" /\ sock = 0 /\ buffer = <<>> /\ ~timer /\ net = "unconnected"
        /\ shown = NoSnapshot /\ prev = NoSnapshot /\ history = NoHistory
    BY DEF ViewerInit, InitAs
  <2>2. Wire
    BY <2>1 DEF Wire
  <2>3. Buffered
    BY <2>1, ConnAssumption DEF Buffered
  <2>4. NoSnapshot.tick = 0
    BY DEF NoSnapshot
  <2>5. HistoryIsRun
    BY <2>1, <2>4, EmptyHistory DEF HistoryIsRun, HistoryOf, NoHistory
  <2>6. PrevIsTickBefore
    BY <2>1, <2>4 DEF PrevIsTickBefore
  <2>7. QED
    BY <2>1, <2>2, <2>3, <2>5, <2>6 DEF Screen, OnScreen
<1>2. Inv /\ Link /\ Wire /\ Screen /\ [ViewerNext]_vars => (Wire /\ Screen)'
  BY WireKept, ScreenKept
<1>3. QED
  BY <1>1, <1>2, Linked, PTL DEF ViewerSpec

\* The histories are the run on the screen, without gap, repetition or phantom
\* tick, however often it was reset, launched again or cut off by a crash
\* (onSnapshot, which goes by the number of the tick alone).
THEOREM HistoryKept ==
    ASSUME "reset" \notin Faults PROVE ViewerSpec => []HistoryIsRun
<1>1. Screen => HistoryIsRun
  BY DEF Screen, HistoryIsRun
<1>2. QED
  BY <1>1, ScreenFollows, PTL

\* The events kept from the tick before are those of the tick before.
THEOREM PrevKept ==
    ASSUME "reset" \notin Faults PROVE ViewerSpec => []PrevIsTickBefore
<1>1. Screen => PrevIsTickBefore
  BY DEF Screen, PrevIsTickBefore
<1>2. QED
  BY <1>1, ScreenFollows, PTL

\* With every command answered the screen shows the state of the simulation, and
\* an empty screen is connected to one that has not started.
THEOREM ScreenKeptCurrent ==
    ASSUME "reset" \notin Faults PROVE ViewerSpec => []ScreenIsCurrent
<1>1. Inv /\ Link /\ Wire /\ Screen => ScreenIsCurrent
  <2> SUFFICES ASSUME Inv, Link, Wire, Screen,
                      ~overtaken, connected, Settled, stage[sock] # "over"
               PROVE  shown.tick = sim.tick /\ (shown # NoSnapshot => shown = sim)
    BY DEF ScreenIsCurrent
  <2> DEFINE c == sock
             n == read[c]
             w == wrote[c]
             o == Output(c)
  <2>1. /\ c \in Conn /\ net = "connected" /\ open[c] /\ stage[c] \in {"queued", "served"}
        /\ up = "listening"
    BY DEF Link, LinkTypes, OneSocket, Aware, Inv, TypeInvariant
  <2>2. /\ n \in Nat /\ n <= Len(sent[c]) /\ sent[c] \in Seq(Command)
        /\ taken[c] = 2 * Len(sent[c]) /\ taken[c] <= Len(w)
    BY <2>1 DEF Inv, TypeInvariant, Heard, Settled, Wire
  <2>3. /\ w \in Seq(Piece) /\ o \in Seq(Piece) /\ Len(w) <= Len(o) /\ Len(o) <= 2 * n
        /\ \A i \in 1..Len(w) : o[i] = w[i]
    BY <2>1, WroteFirst DEF Inv, Wire, Lines
  <2>4. n = Len(sent[c]) /\ Len(w) = 2 * n /\ taken[c] \div 2 = n
    <3>1. n = Len(sent[c]) /\ Len(w) = 2 * n
      BY <2>2, <2>3
    <3>2. QED
      BY <2>2, <3>1, Halves
  <2>5. shown = LastRead(n)
    BY <2>1, <2>4 DEF Screen, OnScreen, Showing
  <2>6. CASE n = 0
    <3>1. shown = NoSnapshot /\ shown.tick = 0
      BY <2>5, <2>6 DEF LastRead, NoSnapshot
    <3>2. ASSUME NEW d \in Conn, Served(d) PROVE read[d] = 0
      BY <2>6, <3>2 DEF Link, OneSocket, Served
    <3>3. sim.tick = 0
      BY <2>1, <3>2 DEF Wire
    <3>4. QED
      BY <3>1, <3>3
  <2>7. CASE n # 0
    <3>1. Served(c)
      BY <2>1, <2>7 DEF Inv, Unheard, Served
    <3>2. o[2 * n - 1].sim = sim
      BY <2>1, <2>2, <2>7, <3>1 DEF Inv, Session, Current
    <3>3. shown = w[2 * n - 1].sim /\ 2 * n - 1 \in 1..Len(w)
      BY <2>2, <2>4, <2>5, <2>7 DEF LastRead
    <3>4. QED
      BY <2>3, <3>2, <3>3
  <2>8. QED
    BY <2>6, <2>7
<1>2. QED
  BY <1>1, ScreenFollows, PTL

=============================================================================
