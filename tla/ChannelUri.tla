----------------------------- MODULE ChannelUri -----------------------------
(***************************************************************************)
(* Channel URIs: ChannelUriStringBuilder, which both programs' channels    *)
(* could be built with, and ChannelUri, which parses, edits and prints     *)
(* them (aeron-lib/include).  A text is a sequence of tokens: the          *)
(* delimiters ":", "?", "=", "|" and the words between them.               *)
(***************************************************************************)
EXTENDS Integers, Sequences, FiniteSets, SequencesExt

CONSTANTS
  Members,      \* the members of the builder that are used
  Texts,        \* what free strings are
  Numbers,      \* what numbers are
  IntMax,       \* the largest number of 32 bits
  Positions     \* arguments of initialPosition

UriAssumption ==
  /\ Members \subseteq STRING /\ Numbers \subseteq Int /\ Positions \subseteq Int
  /\ IntMax \in Nat

FRAME_ALIGNMENT == 2
TermLengths == {4, 8}     \* checkTermLength

VARIABLES
  prefix, media,   \* m_prefix, m_media
  member,          \* per member: what is set, or Unset
  tagged,          \* m_isSessionIdTagged
  uri              \* a ChannelUri, or None

vars == <<prefix, media, member, tagged, uri>>

Unset == <<"unset">>
None == [ok |-> FALSE]

(* The members that take a free string, a yes or no, and a number. *)
Strings ==
  {"endpoint", "interface", "control", "tags", "alias", "cc", "fc", "media-rcv-ts-offset",
   "channel-rcv-ts-offset", "channel-snd-ts-offset"}
Booleans == {"reliable", "sparse", "eos", "tether", "group", "rejoin", "ssc"}
Lengths == {"so-sndbuf", "so-rcvbuf", "rcv-wnd"}
Timeouts ==
  {"response-correlation-id", "nak-delay", "untethered-window-limit-timeout",
   "untethered-resting-timeout", "max-resend"}
Ids == {"init-term-id", "term-id", "session-id", "gtag", "ttl"}

(* The members with an overload for nullptr. *)
Resettable == {"reliable", "rejoin", "ssc"} \cup Lengths

Digit(n) ==
  CASE n < 0 -> "negative" [] n > IntMax -> "too large"
    [] OTHER -> <<"0", "1", "2", "3", "4", "5", "6", "7", "8", "9">>[n + 1]

(* What a call may set a member to: the values that it does not refuse.    *)
controlMode == {<<"manual">>, <<"dynamic">>, <<"response">>}
mtu == { <<Digit(n)>> : n \in { m \in Numbers : m >= FRAME_ALIGNMENT /\ m % FRAME_ALIGNMENT = 0 } }
termOffset == { <<Digit(n)>> : n \in { m \in Numbers : m >= 0 /\ m % FRAME_ALIGNMENT = 0 } }
linger == { <<Digit(n)>> : n \in { m \in Numbers : m >= 0 } }

Accepted(m) ==
  CASE m \in Strings -> Texts
    [] m \in Booleans -> {<<"true">>, <<"false">>}
    [] m \in Lengths \cup Timeouts \cup Ids -> { <<Digit(n)>> : n \in Numbers }
    [] m = "control-mode" -> controlMode
    [] m = "mtu" -> mtu
    [] m = "term-length" -> { <<Digit(n)>> : n \in TermLengths }
    [] m = "term-offset" -> termOffset
    [] m = "linger" -> linger

Init ==
  /\ prefix = <<>> /\ media = "udp" /\ member = [m \in Members |-> Unset] /\ tagged = FALSE
  /\ uri = None

-----------------------------------------------------------------------------
set(m) ==
  /\ uri = None
  /\ \E v \in Accepted(m) : member' = [member EXCEPT ![m] = v]
  /\ UNCHANGED <<prefix, media, tagged, uri>>

(* The overload for nullptr; that of rejoin resets m_reliable. *)
ResetBy(m) == IF m = "rejoin" THEN "reliable" ELSE m

reset(m) ==
  /\ uri = None /\ m \in Resettable
  /\ member' = [n \in Members |-> IF n = ResetBy(m) THEN Unset ELSE member[n]]
  /\ UNCHANGED <<prefix, media, tagged, uri>>

setPrefix ==
  /\ uri = None
  /\ \E p \in {<<>>, <<"aeron-spy">>} : prefix' = p
  /\ UNCHANGED <<media, member, tagged, uri>>

setMedia ==
  /\ uri = None
  /\ \E m \in {"udp", "ipc"} : media' = m
  /\ UNCHANGED <<prefix, member, tagged, uri>>

isSessionIdTagged ==
  /\ uri = None /\ tagged' = ~tagged /\ UNCHANGED <<prefix, media, member, uri>>

(* initialPosition: the four members that place a publication. *)
initialPosition ==
  /\ uri = None
  /\ {"term-length", "init-term-id", "term-id", "term-offset"} \subseteq Members
  /\ \E position \in { p \in Positions : p >= 0 /\ p % FRAME_ALIGNMENT = 0 },
        initial \in 0 .. IntMax, length \in TermLengths :
       member' = [m \in Members |->
             CASE m = "term-length" -> <<Digit(length)>>
               [] m = "init-term-id" -> <<Digit(initial)>>
               [] m = "term-id" -> <<Digit((position \div length) + initial)>>
               [] m = "term-offset" -> <<Digit(position % length)>>
               [] OTHER -> member[m]]
  /\ UNCHANGED <<prefix, media, tagged, uri>>

Cleared ==
  /\ prefix' = <<>> /\ media' = "udp" /\ tagged' = FALSE
  /\ member' = [m \in Members |-> Unset]

(* clear, and a media again: build needs one. *)
clear ==
  /\ uri = None /\ Cleared
  /\ UNCHANGED uri

-----------------------------------------------------------------------------
Flatten(seqs) == FoldLeft(LAMBDA a, b : a \o b, <<>>, seqs)

Tagged(m, v) == IF m = "session-id" /\ tagged THEN <<"tag", ":">> \o v ELSE v

(* Mutant: the delimiter after the last parameter stays. *)
Joined_Open(params) == Flatten([i \in 1 .. Len(params) |->
  <<params[i][1], "=">> \o params[i][2] \o <<"|">>])

(* name=value|name=value, without a delimiter at the end. *)
Joined(params) == Flatten([i \in 1 .. Len(params) |->
  (IF i = 1 THEN <<>> ELSE <<"|">>) \o <<params[i][1], "=">> \o params[i][2]])

Printed(p, m, params) ==
  (IF p = <<>> THEN <<>> ELSE p \o <<":">>) \o <<"aeron", ":", m>>
    \o (IF params = <<>> THEN <<>> ELSE <<"?">> \o Joined(params))

(* build: the members that are set, in a fixed order. *)
SetMembers == { m \in Members : member[m] # Unset }

build ==
  Printed(prefix, media, [i \in 1 .. Cardinality(SetMembers) |->
    LET m == SetToSeq(SetMembers)[i] IN <<m, Tagged(m, member[m])>>])

(* ChannelUri::toString: the parameters in any order. *)
toString(u, order) ==
  Printed(u.prefix, u.media, [i \in 1 .. Len(order) |-> <<order[i], u.params[order[i]]>>])

(* One token of parse: where it stands, the token in hand and what it has. *)
Fail == [state |-> "failed"]

Emplace(params, key, value) ==
  IF key \in DOMAIN params THEN params
  ELSE [k \in DOMAIN params \cup {key} |-> IF k = key THEN value ELSE params[k]]

parseToken(s, c) ==
  CASE s.state = "failed" -> Fail
    [] s.state = "MEDIA" ->
         CASE c = "?" -> [s EXCEPT !.state = "PARAMS_KEY", !.media = s.builder, !.builder = <<>>]
           [] c \in {":", "|", "="} -> Fail
           [] OTHER -> [s EXCEPT !.builder = Append(@, c)]
    [] s.state = "PARAMS_KEY" ->
         CASE c = "=" -> IF s.builder = <<>> THEN Fail
                         ELSE [s EXCEPT !.state = "PARAMS_VALUE", !.key = s.builder, !.builder = <<>>]
           [] c = "|" -> Fail
           [] OTHER -> [s EXCEPT !.builder = Append(@, c)]
    [] s.state = "PARAMS_VALUE" ->
         IF c = "|"
         THEN [s EXCEPT !.state = "PARAMS_KEY", !.builder = <<>>,
                        !.params = Emplace(@, s.key[1], s.builder)]
         ELSE [s EXCEPT !.builder = Append(@, c)]

(* The end of parse: the media of a channel without parameters is checked. *)
parseEnd(s, p) ==
  CASE s.state = "MEDIA" /\ s.builder \in {<<"udp">>, <<"ipc">>} ->
         [ok |-> TRUE, prefix |-> p, media |-> s.builder[1], params |-> s.params]
    [] s.state = "PARAMS_VALUE" ->
         [ok |-> TRUE, prefix |-> p, media |-> IF s.media = <<>> THEN "" ELSE s.media[1],
          params |-> Emplace(s.params, s.key[1], s.builder)]
    [] OTHER -> None

StartsWith(text, head) == Len(text) >= Len(head) /\ SubSeq(text, 1, Len(head)) = head

parse(text) ==
  LET spy == StartsWith(text, <<"aeron-spy", ":">>)
      rest == IF spy THEN SubSeq(text, 3, Len(text)) ELSE text
      first == [state |-> "MEDIA", builder |-> <<>>, media |-> <<>>, key |-> <<>>,
                params |-> [k \in {} |-> <<>>]]
  IN  IF ~StartsWith(rest, <<"aeron", ":">>) THEN None
      ELSE parseEnd(FoldLeft(parseToken, first, SubSeq(rest, 3, Len(rest))),
                    IF spy THEN <<"aeron-spy">> ELSE <<>>)

-----------------------------------------------------------------------------
(* A ChannelUri of what is built, or of a channel that someone wrote; the  *)
(* builder is not used further.                                            *)
parseBuilt ==
  /\ uri = None /\ uri' = parse(build) /\ Cleared

parseWritten ==
  /\ uri = None
  /\ \E text \in {<<"aeron", ":", "tcp", "?", "alias", "=", "x">>, <<"aeron", ":", "tcp">>,
                  <<"aeron", ":", "udp", "?", "alias", "=", "x", "|", "alias", "=", "y">>} :
       uri' = parse(text)
  /\ Cleared

put(k, v) ==
  /\ uri' = [uri EXCEPT !.params =
       [j \in DOMAIN uri.params \cup {k} |-> IF j = k THEN v ELSE uri.params[j]]]
  /\ UNCHANGED <<prefix, media, member, tagged>>

addSessionId == uri.ok /\ \E n \in Numbers : put("session-id", <<Digit(n)>>)

addAliasIfAbsent ==
  /\ uri.ok /\ "alias" \notin DOMAIN uri.params
  /\ \E alias \in Texts \ {<<>>} : put("alias", alias)

remove ==
  /\ uri.ok
  /\ \E k \in DOMAIN uri.params :
       uri' = [uri EXCEPT !.params = [j \in DOMAIN uri.params \ {k} |-> uri.params[j]]]
  /\ UNCHANGED <<prefix, media, member, tagged>>

Next ==
  \/ \E m \in Members : set(m) \/ reset(m)
  \/ setPrefix \/ setMedia \/ isSessionIdTagged \/ initialPosition \/ clear
  \/ parseBuilt \/ parseWritten \/ addSessionId \/ addAliasIfAbsent \/ remove

Spec == Init /\ [][Next]_vars

-----------------------------------------------------------------------------
(* What is built is parsed back to the members that are set, whatever was  *)
(* called before, as long as no text holds the delimiter "|": the setters  *)
(* take any string, and one with "|" is refused or read as a parameter     *)
(* (build, append, parse).                                                 *)
BuiltIsParsed ==
  LET u == parse(build)
  IN  /\ u.ok /\ u.prefix = prefix /\ u.media = media
      /\ DOMAIN u.params = SetMembers
      /\ \A m \in SetMembers : u.params[m] = Tagged(m, member[m])

(* A ChannelUri of a known media prints as a channel that parses to it, in *)
(* whatever order its map gives the parameters (toString, put, remove).    *)
PrintedIsParsed ==
  uri.ok /\ uri.media \in {"udp", "ipc"} =>
    \A order \in SetToSeqs(DOMAIN uri.params) : parse(toString(uri, order)) = uri

(* The overload of a member for nullptr unsets that member and no other. *)
ResetsItsOwn ==
  [][\A m \in Members : reset(m) => member' = [member EXCEPT ![m] = Unset]]_vars

(* The exception of parse: "unknown media". *)
MediaIsKnown == uri.ok => uri.media \in {"udp", "ipc"}

(* termId(std::int32_t): a term id is a number of 32 bits. *)
TermIdFits == "term-id" \in Members => member["term-id"] # <<"too large">>
=============================================================================
