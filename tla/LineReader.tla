----------------------------- MODULE LineReader -----------------------------
(***************************************************************************)
(* How the server of emit_tcp.c makes commands out of bytes: recv_line,    *)
(* one byte per step, and tcp_cmd_parse with single_token.                 *)
(*                                                                         *)
(* TcpServer takes for granted that a command is what a client put on one  *)
(* line, and that each newline ends one: this module checks it.            *)
(***************************************************************************)
EXTENDS Integers, Sequences, SequencesExt

CONSTANTS
    Letter, Space,          \* bytes that are part of a word, and those of isspace
    Nul, Eol,               \* the NUL byte, and newline
    Name,                   \* command names, sequences of letters
    LineCap,                \* TCP_LINE_MAX, 256 in the code
    WordCap,                \* room for a word in tcp_cmd_parse, 16 in the code
    MaxInput                \* bound: bytes read

ASSUME ByteAssumption ==
    Letter \cap Space = {} /\ {Nul, Eol} \cap (Letter \cup Space) = {} /\ Nul # Eol
ASSUME CapAssumption == LineCap \in Nat \ {0} /\ WordCap \in Nat \ {0}
ASSUME NameAssumption ==
    \A w \in Name : w \in Seq(Letter) /\ w # <<>> /\ Len(w) + 1 < WordCap

VARIABLES
    got,        \* every byte read on the connection
    buf,        \* the line being assembled
    lines,      \* the lines returned so far
    over        \* the peer is gone

vars == <<got, buf, lines, over>>

Init ==
    /\ got = <<>>
    /\ buf = <<>>
    /\ lines = <<>>
    /\ over = FALSE

\* A byte for which there is no room is dropped; a NUL is stored like any other.
Stored(b) == IF Len(buf) + 1 < LineCap THEN Append(buf, b) ELSE buf

ReadByte(b) ==
    /\ ~over
    /\ Len(got) < MaxInput
    /\ b # Eol
    /\ got' = Append(got, b)
    /\ buf' = Stored(b)
    /\ UNCHANGED <<lines, over>>

ReadEol ==
    /\ ~over
    /\ Len(got) < MaxInput
    /\ got' = Append(got, Eol)
    /\ lines' = Append(lines, buf)
    /\ buf' = <<>>
    /\ UNCHANGED over

\* What there is of an unfinished line is forgotten.
EndOfFile ==
    /\ ~over
    /\ over' = TRUE
    /\ UNCHANGED <<got, buf, lines>>

Next == (\E b \in Letter \cup Space \cup {Nul} : ReadByte(b)) \/ ReadEol \/ EndOfFile

Spec == Init /\ [][Next]_vars

-----------------------------------------------------------------------------

\* The first place from p on of a byte that is in S, or the end.
Find(line, p, S) ==
    CHOOSE i \in p .. Len(line) + 1 :
        /\ \A j \in p .. i - 1 : line[j] \notin S
        /\ i <= Len(line) => line[i] \in S

\* The string in the buffer ends at its first NUL.
CString(line) == SubSeq(line, 1, Find(line, 1, {Nul}) - 1)

\* Slip: what follows the first word is not looked at.
FirstToken(line) ==
    LET first == Find(line, 1, Letter)
        after == Find(line, first, Space)
    IN  SubSeq(line, first, IF after < first + WordCap THEN after - 1 ELSE first + WordCap - 2)

\* The only word of the line, cut to the room there is; none if there are several.
SingleToken(line) ==
    LET first == Find(line, 1, Letter)
        after == Find(line, first, Space)
    IN  IF Find(line, after, Letter) <= Len(line)
        THEN <<>>
        ELSE SubSeq(line, first,
                    IF after < first + WordCap THEN after - 1 ELSE first + WordCap - 2)

\* The name of the command on the line, or <<>> if it is invalid.
Parse(line) ==
    LET word == SingleToken(CString(line)) IN IF word \in Name THEN word ELSE <<>>

-----------------------------------------------------------------------------

\* A name with nothing but space around it.
Alone(text, name) ==
    \E i \in 1 .. Len(text) - Len(name) + 1 :
        /\ SubSeq(text, i, i + Len(name) - 1) = name
        /\ \A j \in DOMAIN text : (j < i \/ j >= i + Len(name)) => text[j] \in Space

\* What a line says: a name that is all there is, up to the end or to a NUL.
Says(line, name) ==
    \E h \in 1 .. Len(line) + 1 :
        /\ h <= Len(line) => line[h] = Nul
        /\ Alone(SubSeq(line, 1, h - 1), name)

Eols == {i \in DOMAIN got : got[i] = Eol}
LineNumber(e) == Cardinality({i \in Eols : i <= e})
\* The line that ends at e, cut at the buffer's boundary.
LineAt(e) ==
    LET start == CHOOSE s \in 1 .. e : (s = 1 \/ s - 1 \in Eols) /\ \A i \in s .. e - 1 : i \notin Eols
    IN  SubSeq(got, start, IF e < start + LineCap THEN e - 1 ELSE start + LineCap - 2)

\* Every newline yields one command, that of its own line up to a NUL, however the
\* lines before it were: a long, empty or malformed line, or one that a NUL cuts
\* short, shifts nothing (a client counts its replies by its lines).
CommandOfItsLine ==
    /\ Len(lines) = Cardinality(Eols)
    /\ \A e \in Eols : \A w \in Name :
           Parse(lines[LineNumber(e)]) = w <=> Says(LineAt(e), w)

=============================================================================
