---------------------------- MODULE ConfigParser ----------------------------
(***************************************************************************)
(* The command lines of the two programs: parse_publisher_args,            *)
(* parse_subscriber_args and what they call (config_parser.c), with        *)
(* getopt_long, which is external.                                         *)
(*                                                                         *)
(* An argument is a record of its text and, if it starts with dashes, of   *)
(* the option that getopt_long takes it for: "-bind" is the option b with  *)
(* the argument ind.                                                       *)
(***************************************************************************)
EXTENDS Integers, Sequences

CONSTANTS
  CommandLines,   \* per program: the command lines that it is started with
  Value,          \* what atoi and atoll read in a text; 0 if it is not here
  Width,          \* the numbers of size_t and uint64_t are those below it
  DefaultSize, DefaultCount, DefaultTarget,   \* of common_types.h
  MinSize,        \* MIN_MESSAGE_SIZE
  AeronDirs       \* values of AERON_DIR, and "" for none

ConfigAssumption ==
  /\ DOMAIN CommandLines = {"publisher", "subscriber"}
  /\ \A n \in {Width, DefaultSize, DefaultCount, DefaultTarget, MinSize} : n \in Nat
  /\ DefaultSize < Width /\ DefaultCount < Width /\ DefaultTarget < Width

VARIABLES
  program,   \* which of the programs is started
  args,      \* its command line, or NotRun
  config,    \* its config_t
  result,    \* what the parser returned
  env        \* AERON_DIR in the environment

vars == <<program, args, config, result, env>>

Program == {"publisher", "subscriber"}
NotRun == <<"not run">>

set_default_config ==
  [transport |-> "UDP", endpoint |-> "", aeron_dir |-> "", size |-> DefaultSize,
   count |-> DefaultCount, target |-> DefaultTarget]

load_config_from_env(c) ==
  [c EXCEPT !.aeron_dir = IF env # "" THEN env ELSE "/dev/shm/aeron"]

get_effective_channel(c) ==
  CASE c.transport = "IPC" -> <<"aeron:ipc?term-length=1048576">>
    [] c.transport \in {"UDP", "NETWORK_UDP"} /\ c.endpoint # "" -> <<"aeron:udp?endpoint=", c.endpoint>>
    [] OTHER -> <<"aeron:udp?endpoint=", "localhost">>

validate_config(c) ==
  IF \/ c.size < MinSize
     \/ c.count = 0 \/ c.target = 0
     \/ c.transport = "NETWORK_UDP" /\ c.endpoint = ""
  THEN "invalid" ELSE "success"

(* getopt_long: the letters that take an argument, and the long names.     *)
long_options(p) ==
  IF p = "publisher"
  THEN [size |-> "s", count |-> "c", transport |-> "t", bind |-> "b", listen |-> "l",
        endpoint |-> "e", ip |-> "i", help |-> "h"]
  ELSE [count |-> "c", transport |-> "t", connect |-> "o", endpoint |-> "e", ip |-> "i", help |-> "h"]

Letters(p) == { long_options(p)[n] : n \in DOMAIN long_options(p) }

(* The option at argument i of the line a: its letter ("?" if it is none   *)
(* or has no argument, "plain" if it is no option), its argument, and the  *)
(* next place.                                                             *)
getopt_long(p, a, i) ==
  LET arg == a[i]
      letter == CASE arg.form = "short" -> arg.opt
                  [] arg.form = "long" -> IF arg.opt \in DOMAIN long_options(p)
                                          THEN long_options(p)[arg.opt] ELSE "?"
                  [] OTHER -> "plain"
  IN CASE letter = "plain" -> [opt |-> "plain", arg |-> "", next |-> i + 1]
       [] letter = "h" -> [opt |-> "h", arg |-> "", next |-> i + 1]
       [] letter # "plain" /\ letter \notin Letters(p) -> [opt |-> "?", arg |-> "", next |-> i + 1]
       [] OTHER -> IF arg.rest # "" THEN [opt |-> letter, arg |-> arg.rest, next |-> i + 1]
                   ELSE IF i < Len(a) THEN [opt |-> letter, arg |-> a[i + 1].text, next |-> i + 2]
                   ELSE [opt |-> "?", arg |-> "", next |-> i + 1]

Read(text) == (IF text \in DOMAIN Value THEN Value[text] ELSE 0) % Width

Transports ==
  [UDP |-> "UDP", udp |-> "UDP", IPC |-> "IPC", ipc |-> "IPC",
   NETWORK_UDP |-> "NETWORK_UDP", network_udp |-> "NETWORK_UDP"]

(* One case of the switch: the configuration, and whether to go on. *)
OptionCase(p, c, o) ==
  CASE o.opt = "plain" -> [config |-> c, go |-> "on"]
    [] o.opt = "s" -> [config |-> [c EXCEPT !.size = Read(o.arg)], go |-> "on"]
    [] o.opt = "c" /\ p = "publisher" -> [config |-> [c EXCEPT !.count = Read(o.arg)], go |-> "on"]
    [] o.opt = "c" /\ p = "subscriber" -> [config |-> [c EXCEPT !.target = Read(o.arg)], go |-> "on"]
    [] o.opt = "t" -> IF o.arg \in DOMAIN Transports
                      THEN [config |-> [c EXCEPT !.transport = Transports[o.arg]], go |-> "on"]
                      ELSE [config |-> c, go |-> "invalid"]
    [] o.opt \in {"b", "l", "o", "e", "i"} -> [config |-> [c EXCEPT !.endpoint = o.arg], go |-> "on"]
    [] o.opt = "h" -> [config |-> c, go |-> "help"]
    [] OTHER -> [config |-> c, go |-> "invalid"]

Option_FirstWins(p, c, o) == \* Mutant: an endpoint that is set stays
  IF o.opt \in {"b", "l", "o", "e", "i"} /\ c.endpoint # "" THEN [config |-> c, go |-> "on"]
  ELSE OptionCase(p, c, o)

Option(p, c, o) == OptionCase(p, c, o)

(* The loop: where it is in the line, the configuration, and go. *)
Parsed(p, a) ==
  LET after[k \in 0..Len(a)] ==
        IF k = 0 THEN [i |-> 1, config |-> load_config_from_env(set_default_config), go |-> "on"]
        ELSE LET s == after[k - 1] IN
             IF s.go # "on" \/ s.i > Len(a) THEN s
             ELSE LET o == getopt_long(p, a, s.i)
                      r == Option(p, s.config, o)
                  IN [i |-> o.next, config |-> r.config, go |-> r.go]
  IN after[Len(a)]

Returned(a) ==
  LET s == Parsed(program, a) IN
  /\ args' = a
  /\ config' = s.config
  /\ result' = IF s.go = "on" THEN validate_config(s.config) ELSE s.go
  /\ UNCHANGED <<program, env>>

parse_publisher_args ==
  /\ program = "publisher" /\ result = "not run"
  /\ \E a \in CommandLines["publisher"] : Returned(a)

parse_subscriber_args ==
  /\ program = "subscriber" /\ result = "not run"
  /\ \E a \in CommandLines["subscriber"] : Returned(a)

Init ==
  /\ env \in AeronDirs /\ program \in Program
  /\ args = NotRun /\ config = set_default_config /\ result = "not run"

Next == parse_publisher_args \/ parse_subscriber_args

Spec == Init /\ [][Next]_vars

-----------------------------------------------------------------------------
(* What a user asks for: the argument after the last option of some names, *)
(* or Unasked.                                                             *)
Names == [endpoint |-> {"-b", "-l", "-o", "-e", "-i", "--bind", "--listen", "--connect", "--endpoint", "--ip",
                        "-bind", "-connect"},
          transport |-> {"-t", "--transport"}, count |-> {"-c", "--count"}, size |-> {"-s", "--size"}]
Unasked == "unasked"
Asked(a, what) ==
  LET at == { i \in 1..(Len(a) - 1) : a[i].text \in Names[what] } IN
  IF at = {} THEN Unasked ELSE a[(CHOOSE i \in at : \A j \in at : j <= i) + 1].text

(* A command line that is accepted means what it says: in any order and    *)
(* spelling, the last of the options for a thing decides, and what is not  *)
(* asked for is the default of common_types.h.                             *)
LastOneWins ==
  result = "success" =>
    LET Or(what, default) == IF Asked(args, what) = Unasked THEN default ELSE Asked(args, what)
        Number(what, default) == IF Asked(args, what) = Unasked THEN default ELSE Value[Asked(args, what)]
    IN /\ config.endpoint = Or("endpoint", "")
       /\ config.transport = Transports[Or("transport", "UDP")]
       /\ IF program = "publisher"
          THEN config.count = Number("count", DefaultCount) /\ config.size = Number("size", DefaultSize)
          ELSE config.target = Number("count", DefaultTarget)

(* The channel of an accepted command line names the endpoint that was     *)
(* asked for, and in NETWORK_UDP mode there is one, wherever it stands in  *)
(* the line.                                                               *)
ChannelNamesEndpoint ==
  result = "success" /\ config.transport # "IPC" =>
    LET asked == Asked(args, "endpoint") IN
    get_effective_channel(config) =
      <<"aeron:udp?endpoint=", IF asked = Unasked /\ config.transport = "UDP" THEN "localhost" ELSE asked>>

(* README.md starts the programs with "-connect 0.0.0.0 -c 50000000" and   *)
(* "-bind 192.168.0.106 -c 50000000 -s 1024": the endpoint is the one of   *)
(* the command.  getopt_long takes -connect for -c and -bind for -b.       *)
DocumentedEndpoint ==
  result # "not run" => result = "success" /\ config.endpoint = Asked(args, "endpoint")

(* README.md documents the counts that are not asked for as "默认:          *)
(* 10000000" for the publisher and "默认: 50000000" for the subscriber;     *)
(* common_types.h has 1000000 and 20000000.                                *)
DocumentedDefaults ==
  result = "success" /\ Asked(args, "count") = Unasked =>
    IF program = "publisher" THEN config.count = 10000000 ELSE config.target = 50000000

(* validate_config: the number of messages "must be greater than 0".  A    *)
(* negative one is converted to a large one and accepted.                  *)
CountIsPositive ==
  result = "success" /\ Asked(args, "count") # Unasked => Value[Asked(args, "count")] > 0
=============================================================================
