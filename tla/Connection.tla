----------------------------- MODULE Connection -----------------------------
(***************************************************************************)
(* One file connection of conn.c: the reader of lines with its three       *)
(* newline conventions, threads that block in the middle of a line and are *)
(* resumed by the pass over block_q, and what the peer and other threads   *)
(* do meanwhile.  MoveThreads has the same connection as idle, ready or    *)
(* closed; here is what is read.                                           *)
(*                                                                         *)
(* An ordinary character is the number of its place in the input, so that  *)
(* a character that is lost, doubled or moved can be told.                 *)
(***************************************************************************)
EXTENDS Integers, Sequences, FiniteSets, SequencesExt

CONSTANTS
    Readers,        \* threads that read from the connection
    LineMax,        \* longest line: 1023 characters in the build
    MaxSent         \* bound: length of the input

ASSUME ConnectionAssumption == LineMax \in Nat \ {0} /\ MaxSent \in Nat

VARIABLES
    convention,     \* how the peer ends its lines
    sent,           \* the input so far
    taken,          \* how many of it read() has returned
    fate,           \* open, or shut or reset by the peer
    isFile,         \* CO_TYPE: CONN_FILE, or CONN_NONE
    eatNl,          \* CO_UNGETC: -2 ("eat next nl."), or -1
    blocked,        \* readers in block_q
    part,           \* what each of them has of its line (buf and offs)
    got,            \* lines returned by read-from, in order
    crossed         \* a line has been shared by readers, or lost with one

cvars == <<convention, sent, taken, fate, isFile, eatNl, blocked, part, got, crossed>>
peer == <<convention, sent, fate>>

\* As signed characters 0xFF and 0xFE are CONN_RET_ERROR and CONN_RET_BLOCK.
CR == -1
NL == -2
FF == -3
FE == -4
High == {FF, FE}
Newlines == {CR, NL}

Unread == Len(sent) - taken

ConnInit ==
    /\ convention \in {"unix", "mac", "dos"} /\ sent = << >> /\ taken = 0
    /\ fate = "open" /\ isFile = TRUE /\ eatNl = FALSE
    /\ blocked = {} /\ part = [r \in Readers |-> << >>] /\ got = << >>
    /\ crossed = FALSE

-----------------------------------------------------------------------------
(* The reader: fileconn_getter in the loop of conn_gets.                   *)

\* Mutant: a newline is eaten by the call of conn_gets that saw the return only.
EatsNl_sameCall(s) == s.eatNl /\ s.line # << >>

\* The newline after a return is dropped, whichever thread comes to read it.
EatsNl(s) == s.eatNl

Full(line) == Len(line) = LineMax

\* One character.  Nothing clears eatNl but the newline it waits for.
GetChar(s, b) ==
    LET t == [s EXCEPT !.taken = @ + 1] IN
    IF s.end # "no" THEN s ELSE
    CASE b = NL /\ EatsNl(s)     -> [t EXCEPT !.eatNl = FALSE]
      [] b = NL /\ ~EatsNl(s)    -> [t EXCEPT !.end = "line"]
      [] b = CR                  -> [t EXCEPT !.end = "line", !.eatNl = TRUE]
      [] b = FF                  -> [t EXCEPT !.end = "error"]
      [] b = FE                  -> [t EXCEPT !.end = "block"]
      [] OTHER -> [t EXCEPT !.line = Append(@, b),
                            !.end = IF Full(Append(s.line, b)) THEN "line" ELSE "no"]

\* Mutant: the end of the input is taken for a pause.
NoMore_blocks == IF fate = "reset" THEN "error" ELSE "block"

\* What read() makes of an input that has been read to its end.
NoMore == CASE fate = "open" -> "block" [] fate = "shut" -> "eof" [] fate = "reset" -> "error"

\* The reader after each of the characters that there are.
Reading(line) ==
    LET after[i \in 0..Unread] ==
            IF i = 0 THEN [line |-> line, eatNl |-> eatNl, taken |-> taken, end |-> "no"]
                     ELSE GetChar(after[i - 1], sent[taken + i])
    IN  after

\* conn_gets, called with the line as far as it is known.
Gets(line) ==
    LET s == Reading(line)[Unread]
    IN  IF s.end # "no" THEN s ELSE [s EXCEPT !.end = NoMore]

\* Mutant: there is one line buffer for all who read the connection.
Context_shared(r) ==
    part[CHOOSE p \in Readers : \A o \in Readers : Len(part[o]) <= Len(part[p])]

\* The context of a blocked reader: its buffer, filled as far as it is.
Context(r) == part[r]

\* conn_resume_readline, on a connection that is closed and on one that is not.
ResumeClosed(r) ==
    /\ ~isFile
    /\ blocked' = blocked \ {r} /\ part' = [part EXCEPT ![r] = << >>]
    /\ UNCHANGED <<peer, taken, isFile, eatNl, got, crossed>>

ResumeOpen(r, line) ==
    /\ isFile
    /\ \E s \in {Gets(line)} :
        /\ taken' = s.taken /\ eatNl' = s.eatNl
        /\ isFile' = (s.end # "eof")
        /\ fate' = IF s.end = "error" /\ fate = "reset" THEN "shut" ELSE fate
        /\ blocked' = IF s.end = "block" THEN blocked \cup {r} ELSE blocked \ {r}
        /\ part' = [part EXCEPT ![r] = IF s.end = "block" THEN s.line ELSE << >>]
        /\ got' = IF s.end = "line" THEN Append(got, [by |-> r, line |-> s.line]) ELSE got
    /\ crossed' = (crossed \/ \E p \in Readers \ {r} : part[p] # << >>)
    /\ UNCHANGED <<convention, sent>>

ResumeReadline(r, line) == ResumeClosed(r) \/ ResumeOpen(r, line)

\* The primitive read-from.
ReadFrom(r) == r \notin blocked /\ ResumeReadline(r, << >>)

\* The pass over block_q.
Resume(r) == r \in blocked /\ ResumeReadline(r, Context(r))

-----------------------------------------------------------------------------
(* Other threads, and the peer.                                            *)

\* kill unblocks the reader; its line goes with the context.
Kill(r) ==
    /\ r \in blocked /\ blocked' = blocked \ {r}
    /\ part' = [part EXCEPT ![r] = << >>]
    /\ crossed' = (crossed \/ part[r] # << >>)
    /\ UNCHANGED <<peer, taken, isFile, eatNl, got>>

\* conn_close.
Close ==
    /\ isFile /\ isFile' = FALSE
    /\ UNCHANGED <<peer, taken, eatNl, blocked, part, got, crossed>>

AfterReturn == sent # << >> /\ Last(sent) = CR

\* A peer keeps to its convention.
Sends(b) ==
    CASE convention = "unix" -> b # CR
      [] convention = "mac"  -> b # NL
      [] convention = "dos"  -> b = NL <=> AfterReturn

\* What is sent to a connection the server has closed is of no consequence.
Send ==
    /\ fate = "open" /\ isFile /\ Len(sent) < MaxSent
    /\ \E b \in Newlines \cup High \cup {Len(sent) + 1} :
        Sends(b) /\ sent' = Append(sent, b)
    /\ UNCHANGED <<convention, taken, fate, isFile, eatNl, blocked, part, got, crossed>>

\* A reset discards what has not been read.
PeerEnds ==
    /\ fate = "open" /\ isFile
    /\ \/ fate' = "shut" /\ UNCHANGED sent
       \/ fate' = "reset" /\ sent' = SubSeq(sent, 1, taken)
    /\ UNCHANGED <<convention, taken, isFile, eatNl, blocked, part, got, crossed>>

ConnNext ==
    \/ \E r \in Readers : ReadFrom(r) \/ Resume(r) \/ Kill(r)
    \/ Close \/ Send \/ PeerEnds

ConnSpec == ConnInit /\ [][ConnNext]_cvars

\* Every round of the main loop retries every blocked reader.
FairConnSpec == ConnSpec /\ \A r \in Readers : WF_cvars(Resume(r))

-----------------------------------------------------------------------------
(* The lines of the input, whatever its convention.                        *)

Plain(in) == \A i \in DOMAIN in : in[i] \notin High

\* A newline in this place is an end of its own.
Alone(in, i) == ~(i > 1 /\ in[i - 1] = CR)

Ends(in) == {i \in DOMAIN in : in[i] = CR \/ (in[i] = NL /\ Alone(in, i))}

Characters(in) == {i \in DOMAIN in : in[i] \notin Newlines}

\* The place of a character in its line.
Column(in, i) ==
    Cardinality({j \in Characters(in) : j <= i /\ \A e \in Ends(in) : ~(j < e /\ e < i)})

\* A long line is cut; what is over comes as a line of its own.
Breaks(in) == Ends(in) \cup {i \in Characters(in) : Column(in, i) % LineMax = 0}

\* The line that ends at the break b, and how manieth it is.
LineAt(in, b) == {i \in Characters(in) : i <= b /\ \A c \in Breaks(in) : ~(i <= c /\ c < b)}
Rank(in, b) == Cardinality({c \in Breaks(in) : c <= b})

\* The input that has been read.
Input == SubSeq(sent, 1, taken)

\* An end of a line has arrived that has not been read, or nothing more will.
SomethingToGet ==
    \/ \E i \in (taken + 1)..Len(sent) :
        sent[i] = CR \/ (sent[i] = NL /\ Alone(sent, i))
    \/ fate # "open" \/ ~isFile

-----------------------------------------------------------------------------
\* However the input is cut into packets, and whichever threads read it in
\* turn, read-from returns the lines of the input in order: none is lost,
\* doubled, torn or merged, with any of the three conventions, as long as no
\* thread reads while another is in the middle of a line and none is killed there.
\* Even if readers cross, each end of a line ends one line: a return and a
\* newline read by different threads are one end, not two.
LinesInOrder ==
    Plain(Input) =>
        /\ ~crossed => /\ Len(got) = Cardinality(Breaks(Input))
                       /\ \A b \in Breaks(Input) :
                            ToSet(got[Rank(Input, b)].line) = LineAt(Input, b)
        /\ Cardinality({i \in DOMAIN got : Len(got[i].line) < LineMax}) = Cardinality(Ends(Input))

\* What r has been given: its lines, and the part it has of the next one.
Given(r) == [n \in 1..(Len(got) + 1) |->
                IF n > Len(got) THEN part[r] ELSE IF got[n].by = r THEN got[n].line ELSE << >>]

\* No character is given out twice, nor to one thread out of order.
CharsOnce ==
    \A r, p \in Readers : \A m, n \in 1..(Len(got) + 1) :
       \A i \in DOMAIN Given(r)[m], j \in DOMAIN Given(p)[n] :
          /\ r = p /\ (m < n \/ (m = n /\ i < j)) => Given(r)[m][i] < Given(r)[n][j]
          /\ r # p => Given(r)[m][i] # Given(p)[n][j]

\* A thread that waits for a line is released once there is one, or the
\* connection has ended or been closed, unless another thread takes the line.
ReaderReleased ==
    \A r \in Readers : (r \in blocked /\ SomethingToGet) ~> (r \notin blocked \/ ~SomethingToGet)
-----------------------------------------------------------------------------
(* What keeps LinesInOrder and CharsOnce.                                  *)

ConnTypes ==
    /\ convention \in {"unix", "mac", "dos"} /\ fate \in {"open", "shut", "reset"}
    /\ sent \in Seq(Int) /\ taken \in 0..Len(sent)
    /\ \A i \in DOMAIN sent : sent[i] \in Newlines \cup High \cup {i}
    /\ isFile \in BOOLEAN /\ eatNl \in BOOLEAN /\ crossed \in BOOLEAN
    /\ blocked \subseteq Readers /\ part \in [Readers -> Seq(Nat)]
    /\ got \in Seq([by : Readers, line : Seq(Nat)])

\* The peer keeps to its convention.
ConventionInv ==
    /\ convention = "unix" => \A i \in DOMAIN sent : sent[i] # CR
    /\ convention = "mac"  => \A i \in DOMAIN sent : sent[i] # NL
    /\ convention = "dos"  => \A i \in DOMAIN sent : sent[i] = NL <=> ~Alone(sent, i)

\* Whether the next newline is to be eaten, when `in' has been read.  What eatNl is
\* for a peer that sends no newlines does not matter.
EatsRight(in, eats) ==
    /\ convention = "unix" => ~eats
    /\ convention = "dos"  => (eats <=> ~Alone(in, Len(in) + 1))

\* A thread has a part of a line only while it waits, and never a whole one.
PartsInv ==
    /\ \A r \in Readers : Len(part[r]) < LineMax /\ (r \notin blocked => part[r] = << >>)
    /\ \A r \in Readers : \A n \in 1..(Len(got) + 1) :
         \A i \in DOMAIN Given(r)[n] : Given(r)[n][i] \in 1..taken

\* The line that `in' ends in the middle of.
Begun(in) == {i \in Characters(in) : \A c \in Breaks(in) : c < i}

\* How many characters there are after the last end of a line.
Width(in) == Cardinality({i \in Characters(in) : \A e \in Ends(in) : e < i})

IsBegun(in, line) == ToSet(line) = Begun(in) /\ Len(line) = Width(in) % LineMax

\* There may be more to read.
MoreToCome == isFile /\ (fate = "open" \/ taken < Len(sent))

\* While readers do not cross, one has the part of the line that has been read.
BegunInv ==
    Plain(Input) /\ ~crossed =>
        /\ \A r, p \in Readers : r # p /\ part[r] # << >> => part[p] = << >>
        /\ MoreToCome => \A r \in Readers :
             (\A p \in Readers \ {r} : part[p] = << >>) => IsBegun(Input, part[r])

ConnInv ==
    /\ ConnTypes /\ ConventionInv /\ EatsRight(Input, eatNl)
    /\ PartsInv /\ CharsOnce /\ BegunInv /\ LinesInOrder
=============================================================================
