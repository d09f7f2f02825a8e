------------------------------- MODULE Options -------------------------------
(***************************************************************************)
(* process_options, the same in sender.c and receiver.c: getopt() reads    *)
(* the options and moves them to the front of argv, then a second loop     *)
(* reads argv again by position.                                           *)
(***************************************************************************)
EXTENDS Integers, Sequences

CONSTANTS
  Attached,  \* the arguments of the form -fX, each with its X
  Unknown,   \* arguments with an option that is not -f
  Numbers    \* the words atoi() makes a number of, each with that number

ASSUME OptionsAssumption ==
  /\ \A a \in DOMAIN Numbers : Numbers[a] \in Int
  /\ ({"-f", "--"} \cup DOMAIN Attached) \cap (Unknown \cup DOMAIN Numbers) = {}
  /\ {"-f", "--"} \cap DOMAIN Attached = {}

\* The value of a global that no argument has set.
NULL == "NULL"

\* atoi() gives 0 for what does not begin with a number.
Atoi(word) == IF word \in DOMAIN Numbers THEN Numbers[word] ELSE 0

IsOption(a) == a \in {"-f", "--"} \cup DOMAIN Attached \cup Unknown

\* What getopt() has done with the arguments before this one; takes: the next
\* one is the argument of -f; ended: -- has been read.
Unread ==
  [options |-> <<>>, words |-> <<>>, file |-> NULL,
   takes |-> FALSE, ended |-> FALSE, refuses |-> FALSE]

Scanned(st, a) ==
  CASE st.takes ->
         [st EXCEPT !.options = Append(@, a), !.file = a, !.takes = FALSE]
    [] ~st.takes /\ (st.ended \/ ~IsOption(a)) ->
         [st EXCEPT !.words = Append(@, a)]
    [] ~st.takes /\ ~st.ended /\ a = "--" ->
         [st EXCEPT !.options = Append(@, a), !.ended = TRUE]
    [] ~st.takes /\ ~st.ended /\ a = "-f" ->
         [st EXCEPT !.options = Append(@, a), !.takes = TRUE]
    [] ~st.takes /\ ~st.ended /\ a \in DOMAIN Attached ->
         [st EXCEPT !.options = Append(@, a), !.file = Attached[a]]
    [] ~st.takes /\ ~st.ended /\ a \in Unknown ->
         [st EXCEPT !.refuses = TRUE]

Getopt(argv) ==
  LET done[n \in 0 .. Len(argv)] ==
        IF n = 0 THEN Unread ELSE Scanned(done[n - 1], argv[n])
  IN  done[Len(argv)]

\* What the second loop has done; skips: the argument follows a "-f".
Unset == [hostname |-> NULL, port |-> NULL, skips |-> FALSE, refuses |-> FALSE]

\* Faulty: the argument of -f is not skipped.
PlacedUnskipped(st, a) ==
  CASE a = "-f" -> st
    [] a # "-f" /\ st.hostname = NULL -> [st EXCEPT !.hostname = a]
    [] a # "-f" /\ st.hostname # NULL /\ st.port = NULL -> [st EXCEPT !.port = a]
    [] OTHER -> [st EXCEPT !.refuses = TRUE]

Placed(st, a) ==
  CASE st.skips -> [st EXCEPT !.skips = FALSE]
    [] ~st.skips /\ a = "-f" -> [st EXCEPT !.skips = TRUE]
    [] ~st.skips /\ a # "-f" /\ st.hostname = NULL -> [st EXCEPT !.hostname = a]
    [] ~st.skips /\ a # "-f" /\ st.hostname # NULL /\ st.port = NULL ->
         [st EXCEPT !.port = a]
    [] OTHER -> [st EXCEPT !.refuses = TRUE]

PlaceAll(argv) ==
  LET done[n \in 0 .. Len(argv)] ==
        IF n = 0 THEN Unset ELSE Placed(done[n - 1], argv[n])
  IN  done[Len(argv)]

\* The globals it sets, and what it returns.
process_options(argv) ==
  LET read   == Getopt(argv)
      placed == PlaceAll(read.options \o read.words)
  IN  [status |-> IF \/ read.refuses \/ read.takes
                     \/ placed.refuses \/ placed.port = NULL
                  THEN "EXIT_FAILURE" ELSE "EXIT_SUCCESS",
       hostname |-> placed.hostname,
       port |-> Atoi(placed.port),
       file |-> read.file]

=============================================================================
