------------------------------ MODULE Console -------------------------------
(***************************************************************************)
(* The console in use: the command line of the radar (process_user_input   *)
(* of app/radar/src/main.c) on the system call read and its ring buffer.   *)
(* The user thread polls: it reads what fits behind the characters it has  *)
(* kept, looks for carriage returns, handles each line, and moves the rest *)
(* to the front.  While it handles "calibrate" it reads one character at a *)
(* time past the characters it has not looked at yet.                      *)
(*                                                                         *)
(* What else a command does is modelled in Radar.  That the buffer is      *)
(* lower-cased and that a carriage return becomes a terminator is left     *)
(* out: lines are compared as they are.                                    *)
(***************************************************************************)
EXTENDS Rtt

CONSTANTS
  user,       \* the thread of user_thread, the only reader
  CR,         \* '\r'
  Calibrate,  \* the line that is the command calibrate
  LineSize    \* COMMAND_BUFFER_SIZE

ASSUME ConsoleAssumption ==
  /\ Readers = {user} /\ user \notin Writers
  /\ CR \in Bytes
  /\ LineSize \in 1 .. MaxLen

VARIABLES
  at,                \* where user_thread is
  command_buffer,    \* its used part: kept, then what this call has read
  scan,              \* index; command_index until the search begins
  last_command_end,
  entered,           \* temp_buffer holds a carriage return
  handled            \* the last argument of handle_user_command

lineVars == <<at, command_buffer, scan, last_command_end, entered, handled>>
allVars == <<vars, lineVars>>

ConsoleInit ==
  /\ Init
  /\ at = "poll" /\ command_buffer = <<>> /\ scan = 0 /\ last_command_end = 0
  /\ entered = FALSE /\ handled = <<>>

-----------------------------------------------------------------------------
(* process_user_input. *)

\* What is moved to the front.  (Mutant: one character too few.)
RestShort == SubSeq(command_buffer, last_command_end + 2, Len(command_buffer))
Rest == SubSeq(command_buffer, last_command_end + 1, Len(command_buffer))

\* The buffer is full.  (Mutant: notices it one character too late.)
FullLate == Len(command_buffer) > LineSize
Full == Len(command_buffer) >= LineSize

Poll ==
  /\ at = "poll" /\ ReadEnter(user, LineSize - Len(command_buffer))
  /\ at' = "reading"
  /\ UNCHANGED <<command_buffer, scan, last_command_end, entered, handled>>

\* A piece of the call of read under way; rtt_read stores to the buffer of its
\* caller.
Reading ==
  /\ at \in {"reading", "waiting"} /\ Read(user)
  /\ IF At(user, "copy")
     THEN IF at = "reading"
          THEN /\ command_buffer' = Append(command_buffer, CharAt(user))
               /\ UNCHANGED entered
          ELSE /\ entered' = (CharAt(user) = CR)
               /\ UNCHANGED command_buffer
     ELSE UNCHANGED <<command_buffer, entered>>
  /\ UNCHANGED <<at, scan, last_command_end, handled>>

\* read has returned and the search goes on.  (When bytes_read is 0 there is
\* nothing to search, and the buffer is not full: Keep.)
Searching == at = "reading" /\ At(user, "user")

SearchOn ==
  /\ Searching /\ scan < Len(command_buffer)
  /\ command_buffer[scan + 1] # CR
  /\ scan' = scan + 1
  /\ UNCHANGED <<vars, at, command_buffer, last_command_end, entered, handled>>

\* sscanf leaves cmd_word as it was on the stack when the line is empty: any
\* command may be taken for it, calibrate among them.
HandleLine ==
  /\ Searching /\ scan < Len(command_buffer)
  /\ command_buffer[scan + 1] = CR
  /\ handled' = SubSeq(command_buffer, last_command_end + 1, scan)
  /\ \/ at' = at /\ handled' # Calibrate
     \/ at' = "calibrate" /\ handled' \in {Calibrate, <<>>}
  /\ scan' = scan + 1 /\ last_command_end' = scan + 1
  /\ entered' = FALSE
  /\ UNCHANGED <<vars, command_buffer>>

Shift ==
  /\ Searching /\ scan = Len(command_buffer) /\ last_command_end > 0
  /\ command_buffer' = Rest /\ scan' = Len(Rest) /\ last_command_end' = 0
  /\ at' = "poll"
  /\ UNCHANGED <<vars, entered, handled>>

DiscardInput ==
  /\ Searching /\ scan = Len(command_buffer) /\ last_command_end = 0 /\ Full
  /\ command_buffer' = <<>> /\ scan' = 0
  /\ at' = "poll"
  /\ UNCHANGED <<vars, last_command_end, entered, handled>>

Keep ==
  /\ Searching /\ scan = Len(command_buffer) /\ last_command_end = 0 /\ ~Full
  /\ at' = "poll"
  /\ UNCHANGED <<vars, command_buffer, scan, last_command_end, entered, handled>>

-----------------------------------------------------------------------------
(* The loop of calibrate: one character of the console at a time. *)

CalibrateRead ==
  /\ at = "calibrate" /\ ~entered /\ ReadEnter(user, 1)
  /\ at' = "waiting"
  /\ UNCHANGED <<command_buffer, scan, last_command_end, entered, handled>>

CalibrateCheck ==
  /\ at = "waiting" /\ At(user, "user")
  /\ at' = IF entered THEN "reading" ELSE "calibrate"
  /\ UNCHANGED <<vars, command_buffer, scan, last_command_end, entered, handled>>

-----------------------------------------------------------------------------

UserThread ==
  \/ Poll \/ Reading \/ SearchOn \/ HandleLine
  \/ Shift \/ DiscardInput \/ Keep \/ CalibrateRead \/ CalibrateCheck

\* The other threads write, and the debugger reads and types.
Others ==
  /\ \/ \E t \in Writers : Write(t) \/ \E n \in 1 .. MaxLen : WriteEnter(t, n)
     \/ HostTake \/ HostRelease \/ HostPublish
     \/ \E b \in Bytes : HostStore(b)
  /\ UNCHANGED lineVars

ConsoleNext == UserThread \/ Others

ConsoleSpec == ConsoleInit /\ [][ConsoleNext]_allVars

\* As in FairSpec; the user thread is a thread like the others.
FairConsole ==
  /\ ConsoleSpec
  /\ \A t \in Writers : WF_allVars(Write(t) /\ UNCHANGED lineVars)
  /\ WF_allVars(UserThread)
  /\ WF_allVars((HostTake \/ HostRelease) /\ UNCHANGED lineVars)

-----------------------------------------------------------------------------
(* Properties. *)

Lines == INSTANCE LineReader WITH
  Chars <- Bytes, Return <- CR, Size <- LineSize,
  unseen <- SubSeq(command_buffer, scan + 1, Len(command_buffer)),
  line <- SubSeq(command_buffer, last_command_end + 1, scan)

\* handle_user_command gets the lines of the input in order, each once and whole,
\* however read cuts it up, except that a line that fills the buffer is dropped
\* (process_user_input: the search, the shift and the discarding).
LinesAreInput == Lines!Spec

\* What the user has typed is read in the end: the command line never stops
\* reading because its buffer has no room left (the length passed to read).
InputConsumed == []<>(down_r_idx = down_w_idx \/ At(user, "release"))
=============================================================================
