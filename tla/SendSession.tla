------------------------------ MODULE SendSession ------------------------------
(***************************************************************************)
(* How a sending PC program gets its files into memory before it touches   *)
(* the line: YMODEMSession::readFiles, with the addFile it calls, over the *)
(* files the command line names.  What this module leaves in `files' is    *)
(* what the sender sends.                                                  *)
(***************************************************************************)
EXTENDS Integers, Sequences, FiniteSets

CONSTANTS
  Paths,       \* the paths a command line may name
  Basename(_), \* basename() of a path
  Content(_),  \* the bytes of the file at a path
  Unreadable,  \* those fopen fails on
  MaxArgs,     \* bound on the names on a command line
  MaxFiles,    \* YMODEM_MAXFILES
  HostFails,   \* whether fseek, malloc or fread may fail
  Uninit       \* a malloc'ed byte nobody wrote

ASSUME SessionAssumption ==
  /\ Unreadable \subseteq Paths
  /\ MaxArgs \in Nat \ {0} /\ MaxFiles \in Nat \ {0}
  /\ HostFails \in BOOLEAN
  /\ \A path \in Paths : Content(path) \in Seq(Nat)

VARIABLES
  pc,        \* "reading", "ready", "refused", "crashed"
  filenames, \* the command line
  n,         \* how many of them were read
  files,     \* the session
  spilled    \* fread has written past the end of a buffer

vars == <<pc, filenames, n, files, spilled>>

Init ==
  /\ pc = "reading"
  /\ \E k \in 1 .. MaxArgs : filenames \in [1 .. k -> Paths]
  /\ n = 0 /\ files = <<>> /\ spilled = FALSE

\* mutant: malloc is asked for a byte too few
MallocShort(size) == [i \in 1 .. (IF size = 0 THEN 0 ELSE size - 1) |-> Uninit]
Malloc(size) == [i \in 1 .. size |-> Uninit]

AddFile(filename, filesize) ==
  Append(files, [filename |-> filename, filesize |-> filesize, received |-> 0,
                 buffer |-> Malloc(filesize)])

\* `f' refers to files[_filecount] as it was before the loop: the first one.
Bound == 1

\* mutant: fread is asked for one item less
FreadShort(buffer, data) ==
  [i \in DOMAIN buffer |-> IF i < Len(data) THEN data[i] ELSE buffer[i]]
Fread(buffer, data) ==
  [i \in DOMAIN buffer |-> IF i <= Len(data) THEN data[i] ELSE buffer[i]]

Path == filenames[n + 1]

\* One turn of the loop.  Writing past a buffer may end the program; where the
\* surplus bytes go if it does not is left out.
ReadFile ==
  /\ pc = "reading" /\ n < Len(filenames)
  /\ Path \notin Unreadable
  /\ Len(files) < MaxFiles
  /\ LET data  == Content(Path)
         added == AddFile(Basename(Path), Len(data))
     IN  /\ files' = [added EXCEPT ![Bound].buffer = Fread(@, data),
                                   ![Bound].received = Len(data)]
         /\ spilled' = (spilled \/ Len(data) > Len(added[Bound].buffer))
  /\ n' = n + 1
  /\ pc' \in IF spilled' THEN {"reading", "crashed"} ELSE {"reading"}
  /\ UNCHANGED filenames

\* readFiles returns false and the program ends without having sent a byte.
Refuse ==
  /\ pc = "reading" /\ n < Len(filenames)
  /\ Path \in Unreadable \/ Len(files) = MaxFiles \/ HostFails
  /\ pc' = "refused"
  /\ UNCHANGED <<filenames, n, files, spilled>>

\* mutant: a file that cannot be opened ends the list instead of the program
ReadAllReadable ==
  /\ pc = "reading" /\ (n = Len(filenames) \/ Path \in Unreadable)
  /\ pc' = "ready"
  /\ UNCHANGED <<filenames, n, files, spilled>>

ReadAll ==
  /\ pc = "reading" /\ n = Len(filenames)
  /\ pc' = "ready"
  /\ UNCHANGED <<filenames, n, files, spilled>>

Next == ReadFile \/ Refuse \/ ReadAll

Spec == Init /\ [][Next]_vars

-----------------------------------------------------------------------------
(* Properties. *)

Held(i) == i \in DOMAIN files /\ files[i].buffer = Content(filenames[i])

\* What the usage text promises for one name or several: the session that is
\* about to be sent holds the bytes of every file named.
EveryFileHeld == pc = "ready" => \A i \in DOMAIN filenames : Held(i)

\* With one name it does, and the file is announced under its base name and
\* with its size.
OneFileHeld ==
  pc = "ready" /\ Len(filenames) = 1 =>
    /\ Held(1)
    /\ files[1].filename = Basename(filenames[1])
    /\ files[1].filesize = Len(Content(filenames[1]))

\* No read leaves its buffer as long as no later file is larger than the first
\* one, whose buffer takes them all.
NoSpillBehindLargest ==
  (\A i \in DOMAIN filenames : Len(Content(filenames[i])) <= Len(Content(filenames[1])))
    => ~spilled

\* Either all the files named are announced, in their order, each under its
\* base name and with its size, or the program refuses: a session that is full
\* or a file that cannot be read never leaves a shorter batch to be sent.
AllOrNothing ==
  pc = "ready" =>
    /\ Len(files) = Len(filenames)
    /\ \A i \in DOMAIN files :
         /\ filenames[i] \notin Unreadable
         /\ files[i].filename = Basename(filenames[i])
         /\ files[i].filesize = Len(Content(filenames[i]))
==============================================================================
