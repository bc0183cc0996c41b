------------------------------ MODULE CliInput ------------------------------
(***************************************************************************)
(* The input of the command line in src/main.cpp: read_char and read_line  *)
(* on one buffer, the prompt loop of main and the pager cli_page, which    *)
(* also reads from it.  The terminal (or the other end of a pipe), Ctrl+C  *)
(* and the program take turns in any order.                                *)
(*                                                                         *)
(* A line comes in one piece, or in two: the first part of it is there     *)
(* before the rest, by Ctrl+D in the middle of a line or because a pipe is *)
(* written in parts.                                                       *)
(***************************************************************************)
EXTENDS Integers, Sequences, SequencesExt

CONSTANTS
  MaxLines,  \* bound: the lines that are typed
  Pages,     \* bound: the prompts of the pager for one file
  Liberties  \* what the surroundings may do beyond what the code is ready for:
             \* "midline": a signal may come when a part of a line was read

Kinds == {"command", "more", "exit", "q", "enter"}

VARIABLES
  tty,    \* isatty(stdin)
  kind,   \* the lines typed so far
  fate,   \* of each: "waiting", "run", "dropped" (by Ctrl+C, or an
          \* answer to the pager), or "wrong"
  edit,   \* the line whose rest is still to be typed, or 0
  queue,  \* what read(2) may return, in order
  inbuf,  \* g_inbuf from g_inbuf_pos on
  out,    \* what read_line has of its line
  caller, \* who called read_char: "line", "pager", or "rest", the pager's inner loop
  pages,  \* pages left to show
  quit,   \* the answer to --More-- is q
  pc      \* "read_char"; "read" in the system call; "EINTR"; "run";
          \* "exiting"; "done"

surroundings == <<kind, edit, queue>>
program == <<inbuf, out, caller, pages, quit, pc>>
vars == <<tty, fate, surroundings, program>>

Line == 1 .. Len(kind)

\* A piece of a line; the piece Eof is what makes read(2) return 0.
Piece(k, first, eol) == [line |-> k, first |-> first, eol |-> eol]
Eof == Piece(0, TRUE, TRUE)

LinesOf(pieces) == {pieces[i].line : i \in 1 .. Len(pieces)} \ {0}

\* The fate of the lines of a set is settled; to run a line whose fate was
\* settled before is "wrong".
Settle(lines, what) ==
  fate' = [k \in DOMAIN fate |->
             IF k \notin lines THEN fate[k]
             ELSE IF fate[k] = "waiting" THEN what
             ELSE IF what = "run" THEN "wrong" ELSE fate[k]]

Init ==
  /\ tty \in BOOLEAN
  /\ kind = << >> /\ fate = << >> /\ edit = 0
  /\ queue = << >> /\ inbuf = << >> /\ out = << >>
  /\ caller = "line" /\ pages = 0 /\ quit = FALSE
  /\ pc = "read_char"
-----------------------------------------------------------------------------
Closed == queue # << >> /\ Last(queue) = Eof

Open == pc # "done" /\ (tty \/ ~Closed)

\* A line, or the first part of it.
Type(what, whole) ==
  /\ Open /\ edit = 0 /\ Len(kind) < MaxLines
  /\ kind' = Append(kind, what) /\ fate' = Append(fate, "waiting")
  /\ queue' = Append(queue, Piece(Len(kind'), TRUE, whole))
  /\ edit' = IF whole THEN 0 ELSE Len(kind')
  /\ UNCHANGED <<tty, program>>

TypeRest ==
  /\ Open /\ edit # 0
  /\ queue' = Append(queue, Piece(edit, FALSE, TRUE))
  /\ edit' = 0
  /\ UNCHANGED <<tty, kind, fate, program>>

\* Ctrl+D with nothing after it; the end of the pipe.
TypeEof ==
  /\ Open /\ ~Closed
  /\ queue' = Append(queue, Eof)
  /\ edit' = 0
  /\ UNCHANGED <<tty, kind, fate, program>>

\* A part of a line was read, and the rest is still to come.
Midline ==
  /\ caller = "line" /\ pc \in {"read_char", "read", "EINTR"}
  /\ out \o inbuf # << >> /\ ~Last(out \o inbuf).eol

\* Ctrl+C: a terminal drops what was typed and not read, and a system call that
\* waits is interrupted; a flag that is set at another time changes nothing.
CtrlC ==
  /\ pc # "done"
  /\ Midline => (tty /\ pc = "read") \/ "midline" \in Liberties
  /\ IF tty
     THEN queue' = << >> /\ edit' = 0 /\ Settle(LinesOf(queue) \cup {edit}, "dropped")
     ELSE UNCHANGED <<queue, edit, fate>>
  /\ pc' = IF pc = "read" /\ queue' = << >> THEN "EINTR" ELSE pc
  /\ UNCHANGED <<tty, kind, inbuf, out, caller, pages, quit>>

Surroundings ==
  \/ \E what \in Kinds : Type(what, TRUE)
  \/ \E what \in Kinds \ {"enter"} : Type(what, FALSE)
  \/ TypeRest \/ TypeEof \/ CtrlC
-----------------------------------------------------------------------------
\* Back to the prompt of main, and read_line's out.clear().
ToPrompt ==
  /\ pc' = "read_char" /\ caller' = "line" /\ out' = << >>
  /\ pages' = 0 /\ quit' = FALSE

\* Mistake: read(2) is called with something in the buffer.
Read_early ==
  /\ pc = "read_char"
  /\ pc' = "read"
  /\ UNCHANGED <<tty, fate, surroundings, inbuf, out, caller, pages, quit>>

\* Nothing is left in the buffer: read(2) is called.
Read ==
  /\ pc = "read_char" /\ inbuf = << >>
  /\ pc' = "read"
  /\ UNCHANGED <<tty, fate, surroundings, inbuf, out, caller, pages, quit>>

\* Mistake: of several lines that came at once only the first is kept.
Fill_first ==
  /\ pc = "read" /\ queue # << >> /\ Head(queue) # Eof
  /\ \E n \in 1 .. Len(queue) :
       /\ \A i \in 1 .. n : queue[i] # Eof
       /\ tty => n = 1
       /\ inbuf' = <<Head(queue)>>
       /\ queue' = SubSeq(queue, n + 1, Len(queue))
  /\ pc' = "read_char"
  /\ UNCHANGED <<tty, fate, kind, edit, out, caller, pages, quit>>

\* read(2) returns: one piece of a terminal, any number of a pipe.
Fill ==
  /\ pc = "read" /\ queue # << >> /\ Head(queue) # Eof
  /\ \E n \in 1 .. Len(queue) :
       /\ \A i \in 1 .. n : queue[i] # Eof
       /\ tty => n = 1
       /\ inbuf' = SubSeq(queue, 1, n)
       /\ queue' = SubSeq(queue, n + 1, Len(queue))
  /\ pc' = "read_char"
  /\ UNCHANGED <<tty, fate, kind, edit, out, caller, pages, quit>>

\* read_line takes what read_char returns.
TakePiece ==
  /\ pc = "read_char" /\ caller = "line" /\ inbuf # << >>
  /\ out' = Append(out, Head(inbuf)) /\ inbuf' = Tail(inbuf)
  /\ IF Head(inbuf).eol
     THEN pc' = "run" /\ Settle(LinesOf(out'), "run")
     ELSE UNCHANGED <<pc, fate>>
  /\ UNCHANGED <<tty, surroundings, caller, pages, quit>>

\* read(2) returned 0.  A terminal goes on after that, a pipe does not.
AtEof == pc = "read" /\ queue # << >> /\ Head(queue) = Eof

AfterEof == IF tty THEN Tail(queue) ELSE queue

\* Mistake: the end of the input is waited for again.
TakeEof_again ==
  /\ AtEof /\ caller = "line"
  /\ queue' = AfterEof
  /\ IF out = << >>
     THEN ToPrompt /\ UNCHANGED fate
     ELSE pc' = "run" /\ Settle(LinesOf(out), "run") /\ UNCHANGED <<out, caller, pages, quit>>
  /\ UNCHANGED <<tty, kind, edit, inbuf>>

TakeEof ==
  /\ AtEof /\ caller = "line"
  /\ queue' = AfterEof
  /\ IF out = << >>
     THEN pc' = "exiting" /\ UNCHANGED fate
     ELSE pc' = "run" /\ Settle(LinesOf(out), "run")
  /\ UNCHANGED <<tty, kind, edit, inbuf, out, caller, pages, quit>>

\* Mistake: what was read of the line is kept.
TakeSignal_kept ==
  /\ pc = "EINTR" /\ caller = "line"
  /\ Settle(LinesOf(out), "dropped")
  /\ pc' = "read_char"
  /\ UNCHANGED <<tty, surroundings, inbuf, out, caller, pages, quit>>

\* EINTR: the only handler is that of Ctrl+C, so g_sigint is set, and the line
\* is canceled.
TakeSignal ==
  /\ pc = "EINTR" /\ caller = "line"
  /\ Settle(LinesOf(out), "dropped")
  /\ ToPrompt
  /\ UNCHANGED <<tty, surroundings, inbuf>>

\* The line is carried out.  more opens the pager on a terminal.
Run ==
  /\ pc = "run"
  /\ LET what == kind[Last(out).line]
     IN  CASE what = "exit" -> pc' = "exiting" /\ UNCHANGED <<out, caller, pages, quit>>
           [] what = "more" /\ tty ->
                /\ pc' = "read_char" /\ caller' = "pager" /\ pages' = Pages
                /\ out' = << >> /\ UNCHANGED quit
           [] OTHER -> ToPrompt
  /\ UNCHANGED <<tty, fate, surroundings, inbuf>>

\* The answer to --More-- is in: on to the next page, or back to the prompt.
NextPage(q) ==
  IF q \/ pages = 1
  THEN ToPrompt
  ELSE /\ pc' = "read_char" /\ caller' = "pager" /\ pages' = pages - 1
       /\ quit' = FALSE /\ UNCHANGED out

\* The pager reads a key, then the rest of its line.
PagerKey ==
  /\ pc = "read_char" /\ caller = "pager" /\ inbuf # << >>
  /\ inbuf' = Tail(inbuf)
  /\ Settle({Head(inbuf).line}, "dropped")
  /\ LET q == kind[Head(inbuf).line] = "q"
     IN  IF Head(inbuf).eol
         THEN NextPage(q)
         ELSE caller' = "rest" /\ quit' = q /\ UNCHANGED <<pc, pages, out>>
  /\ UNCHANGED <<tty, surroundings>>

PagerRest ==
  /\ pc = "read_char" /\ caller = "rest" /\ inbuf # << >>
  /\ inbuf' = Tail(inbuf)
  /\ Settle({Head(inbuf).line}, "dropped")
  /\ IF Head(inbuf).eol THEN NextPage(quit) ELSE UNCHANGED <<pc, caller, pages, quit, out>>
  /\ UNCHANGED <<tty, surroundings>>

\* The end of the input or Ctrl+C ends the pager, not the program; in the
\* inner loop it ends only that loop.
PagerEof ==
  /\ AtEof /\ caller \in {"pager", "rest"}
  /\ queue' = AfterEof
  /\ IF caller = "pager" THEN ToPrompt ELSE NextPage(quit)
  /\ UNCHANGED <<tty, fate, kind, edit, inbuf>>

PagerSignal ==
  /\ pc = "EINTR" /\ caller \in {"pager", "rest"}
  /\ IF caller = "pager" THEN ToPrompt ELSE NextPage(quit)
  /\ UNCHANGED <<tty, fate, surroundings, inbuf>>

\* fs_unmount and save_to_file.
Exit ==
  /\ pc = "exiting"
  /\ pc' = "done"
  /\ UNCHANGED <<tty, fate, surroundings, inbuf, out, caller, pages, quit>>

Program ==
  \/ Read \/ Fill
  \/ TakePiece \/ TakeEof \/ TakeSignal
  \/ Run
  \/ PagerKey \/ PagerRest \/ PagerEof \/ PagerSignal
  \/ Exit

Next == Surroundings \/ Program

\* The program is scheduled; nobody has to type, to end the input or to stop
\* pressing Ctrl+C.
Spec == Init /\ [][Next]_vars /\ WF_vars(Program)
-----------------------------------------------------------------------------
\* What is carried out is one line as it was typed, from its beginning, and for
\* the first time: no part of another line is in it, nothing that was canceled
\* and no answer to the pager.
RunsOneLine ==
  pc = "run" =>
    /\ out[1].first
    /\ \A i \in 1 .. Len(out) : out[i].line = out[1].line
    /\ fate[out[1].line] = "run"

\* Lines are run in the order in which they were typed: those before one that
\* was run are not waiting any more.
InOrder ==
  \A k \in Line : fate[k] = "run" => \A j \in 1 .. k - 1 : fate[j] # "waiting"

\* A whole line that was typed is run, canceled or given to the pager, unless
\* the program ends before.
LineTaken ==
  \A k \in 1 .. MaxLines :
    (k \in Line /\ edit # k)
      ~> (pc = "done" \/ k \in {j \in Line : fate[j] # "waiting"})

\* exit and the end of a pipe end the program, and the disk is saved.
Ends ==
  /\ (\E k \in Line : kind[k] = "exit" /\ pc = "run" /\ k = Last(out).line) ~> (pc = "done")
  /\ (~tty /\ Closed) ~> (pc = "done")
=============================================================================
