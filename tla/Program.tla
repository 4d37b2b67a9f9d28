-------------------------------- MODULE Program --------------------------------
(***************************************************************************)
(* The two utilities from their command line to the first byte on the      *)
(* line: main of the PC program, with the port it finds and opens and the  *)
(* session it reads its files into, and main of the Agon utility.          *)
(***************************************************************************)
EXTENDS SendSession, Getopt, SerialDetect, HeaderCodec

CONSTANTS
  Hosts,        \* some of "linux", "macos" (the PC program) and "agon"
  Words,        \* what a command line may be made of
  MaxWords,     \* bound on its length
  Directories,  \* the words that name a directory
  MaxNameLength,\* the longest name the Agon sends: MAXNAMELENGTH, 100
  Attachments,  \* the sequences of devices that may be attached
  Speeds        \* the line speeds serial_open knows

ASSUME ProgramAssumption ==
  /\ Hosts \subseteq {"linux", "macos", "agon"}
  /\ MaxWords \in Nat /\ MaxNameLength \in Nat /\ Directories \subseteq Words

\* Words are C strings, and any of them may name a file.
ASSUME WordsAssumption ==
  /\ Words \subseteq Paths /\ Words \subseteq Seq(STRING)
  /\ \A word \in Words : \A i \in DOMAIN word : word[i] # NUL

ASSUME AttachmentsAssumption == Attachments \subseteq Seq(Device)

VARIABLES
  host,      \* where the program runs
  typed,     \* the command line, as typed
  scan,      \* what getopt keeps of it
  phase,     \* where main is
  options,   \* main's mode, device and baud rate
  attached,  \* the devices found when looked for
  dir        \* the directory received files go to

session == <<pc, filenames, n, files, spilled>>
pvars == <<host, typed, scan, phase, options, attached, dir, session>>

\* What _getopt_initialize settles on in the getopt the Agon utility brings,
\* whatever the environment says; a PC uses its system's getopt.
AgonOrdering == "REQUIRE_ORDER"
SystemOrdering == IF host = "linux" THEN "PERMUTE" ELSE "REQUIRE_ORDER"
Ordering == IF host = "agon" THEN AgonOrdering ELSE SystemOrdering

AgonOptions == [c \in {"s", "r", "h"} |-> FALSE]
PcOptions == [c \in {"s", "r", "d", "b", "h"} |-> c \in {"d", "b"}]
Optstring == IF host = "agon" THEN AgonOptions ELSE PcOptions

\* libgen's basename, for paths that do not end in a slash.
AfterSlash(path) ==
  LET slashes == {i \in DOMAIN path : path[i] = "/"}
  IN  IF slashes = {} THEN path
      ELSE SubSeq(path, 1 + (CHOOSE i \in slashes : \A j \in slashes : i >= j), Len(path))

ASSUME BasenameAssumption == \A path \in Paths : Basename(path) = AfterSlash(path)

ProgramInit ==
  /\ host \in Hosts
  /\ \E k \in 0 .. MaxWords : typed \in [1 .. k -> Words]
  /\ scan = ScanStart(typed)
  /\ phase = "options" /\ attached = <<>> /\ dir = <<>>
  /\ options = [mode |-> "none", auto |-> TRUE, device |-> <<>>, baud |-> 115200]
  /\ pc = "idle" /\ filenames = <<>> /\ n = 0 /\ files = <<>> /\ spilled = FALSE

-----------------------------------------------------------------------------
(* The option loop: a call of getopt and what main does with its result.   *)

DeviceOption(s) ==
  /\ s.opt = "d"
  /\ options' = [options EXCEPT !.device = s.optarg, !.auto = FALSE]
  /\ UNCHANGED phase

BaudOption(s) ==
  /\ s.opt = "b"
  /\ options' = [options EXCEPT !.baud = Number(s.optarg)]
  /\ UNCHANGED phase

ModeOption(s) ==
  /\ s.opt \in {"s", "r"} /\ options.mode \in {"none", s.opt}
  /\ options' = [options EXCEPT !.mode = s.opt]
  /\ UNCHANGED phase

\* Help asked for, a letter that is none, or both modes.
Usage(s) ==
  /\ \/ s.opt \in {"h", "?"}
     \/ s.opt \in {"s", "r"} /\ options.mode \notin {"none", s.opt}
  /\ phase' = "ended"
  /\ UNCHANGED options

OptionsEnd(s) ==
  /\ s.opt = "end"
  /\ phase' = IF options.mode = "none" THEN "ended"
              ELSE IF host = "agon" THEN "files"
              ELSE IF options.auto THEN "detect" ELSE "open"
  /\ UNCHANGED options

Option ==
  /\ phase = "options"
  /\ \E s \in {GetoptCall(scan, Optstring, Ordering)} :
       /\ scan' = s
       /\ DeviceOption(s) \/ BaudOption(s) \/ ModeOption(s) \/ Usage(s) \/ OptionsEnd(s)
  /\ UNCHANGED <<host, typed, attached, dir, session>>

-----------------------------------------------------------------------------
(* The PC's port. *)

\* With one device found it is taken; with none, several or a failure of the
\* system the program ends.
Detect ==
  /\ phase = "detect"
  /\ attached' \in Attachments
  /\ LET found == SerialAutodetect(host, attached')
     IN  IF Len(found) = 1
         THEN options' = [options EXCEPT !.device = found[1].node] /\ phase' = "open"
         ELSE phase' = "ended" /\ UNCHANGED options
  /\ UNCHANGED <<host, typed, scan, dir, session>>

DetectFails ==
  /\ phase = "detect" /\ HostFails
  /\ phase' = "ended"
  /\ UNCHANGED <<host, typed, scan, options, attached, dir, session>>

SerialOpen ==
  /\ phase = "open" /\ options.baud \in Speeds
  /\ phase' = "files"
  /\ UNCHANGED <<host, typed, scan, options, attached, dir, session>>

\* A speed it does not know, or the system refuses: the port is closed again.
SerialOpenFails ==
  /\ phase = "open" /\ (options.baud \notin Speeds \/ HostFails)
  /\ phase' = "ended"
  /\ UNCHANGED <<host, typed, scan, options, attached, dir, session>>

-----------------------------------------------------------------------------
(* What the options have left over. *)

Remaining == SubSeq(scan.argv, scan.optind, Len(scan.argv))

AtFiles(mode) ==
  /\ phase = "files" /\ options.mode = mode
  /\ UNCHANGED <<host, typed, scan, options, attached, n, files, spilled>>

\* The PC program reads its files next.
StartSend ==
  /\ AtFiles("s") /\ host # "agon" /\ Remaining # <<>>
  /\ phase' = "sending" /\ filenames' = Remaining /\ pc' = "reading"
  /\ UNCHANGED dir

\* check_files of the Agon: each can be opened and has a name that fits.
CheckFiles ==
  \A i \in DOMAIN Remaining :
    Remaining[i] \notin Unreadable /\ Len(Remaining[i]) <= MaxNameLength

StartSendAgon ==
  /\ AtFiles("s") /\ host = "agon" /\ Remaining # <<>>
  /\ CheckFiles
  /\ phase' = "sending" /\ filenames' = Remaining
  /\ UNCHANGED <<dir, pc>>

SendRefused ==
  /\ AtFiles("s")
  /\ Remaining = <<>> \/ (host = "agon" /\ ~CheckFiles)
  /\ phase' = "ended"
  /\ UNCHANGED <<dir, filenames, pc>>

WithSlash(path) == IF path[Len(path)] = "/" THEN path ELSE Append(path, "/")

StartReceive ==
  /\ AtFiles("r")
  /\ \/ Remaining = <<>> /\ dir' = <<".", "/">>
     \/ Len(Remaining) = 1 /\ Remaining[1] \in Directories /\ dir' = WithSlash(Remaining[1])
  /\ phase' = "receiving"
  /\ UNCHANGED <<filenames, pc>>

\* Several directories, one that is none, or no memory for its name on a PC.
ReceiveRefused ==
  /\ AtFiles("r") /\ Remaining # <<>>
  /\ Len(Remaining) > 1 \/ Remaining[1] \notin Directories \/ (HostFails /\ host # "agon")
  /\ phase' = "ended"
  /\ UNCHANGED <<dir, filenames, pc>>

\* readFiles, a step at a time.
ReadFiles ==
  /\ phase = "sending" /\ Next
  /\ UNCHANGED <<host, typed, scan, phase, options, attached, dir>>

ProgramNext ==
  \/ Option \/ Detect \/ DetectFails \/ SerialOpen \/ SerialOpenFails
  \/ StartSend \/ StartSendAgon \/ SendRefused \/ StartReceive \/ ReceiveRefused
  \/ ReadFiles

ProgramSpec == ProgramInit /\ [][ProgramNext]_pvars

-----------------------------------------------------------------------------
(* Properties. *)

OptionsOver == phase \notin {"options", "ended"}

\* What getopt leaves behind its options is what a reader of the command line
\* takes for operands, in the order typed, however options, their arguments,
\* "--" and operands were mixed and exchanged: no file is skipped, repeated or
\* swapped with another, and no option's argument is taken for one.
FilesInOrder == OptionsOver => Remaining = Operands(typed, Optstring, Ordering)

\* What getopt.c says of itself: PERMUTE is the default, and at the end "the
\* ARGV-elements have been permuted so that those that are not options now
\* come last".
OperandsComeLast == scan.opt = "end" => Remaining = Operands(typed, Optstring, "PERMUTE")

\* A port nobody named is opened only when it is the one USB device among the
\* devices looked at, which are the first 64 that have a node: on a Linux whose
\* consoles alone are as many, that need not be all.
AutodetectedIsOnly ==
  phase \in {"open", "files", "sending", "receiving"} /\ host # "agon" /\ options.auto =>
    LET looked == FirstOf(NodesOf(attached), Scratch)
    IN  \E i \in looked :
          /\ options.device = attached[i].node
          /\ {j \in looked : IsUsb(attached[j])} = {i}

\* What a receiver reads in block 0 of each file is the base name of a file
\* typed, as far as a header has room, and the size of that file, if 32 bits
\* hold it.
HeaderArrives ==
  pc = "ready" =>
    \A i \in DOMAIN files :
      LET header == ParseHeader(Block0Text(files[i].filename, files[i].filesize))
          size   == Len(Content(filenames[i]))
      IN  /\ header.filename = Cut(AfterSlash(filenames[i]), NameMax)
          /\ size < SizeCount => header.filesize = size
==============================================================================
