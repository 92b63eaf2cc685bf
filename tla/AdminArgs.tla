------------------------------ MODULE AdminArgs ------------------------------
(***************************************************************************)
(* The arguments of Envoy: what ensureAdminAddress (envoy/runtime.go) adds *)
(* to those of the user, what config.FindAdminAddressFromArgs reads in     *)
(* them, and what internal/admin finds in the command line of a process.   *)
(* An argument is <<text>>, or <<flag, value>> when it is "flag=value".    *)
(***************************************************************************)
EXTENDS Integers, Sequences, SequencesExt

Separator == <<"--">>
Empty == <<"">>
AddressFlag == "--admin-address-path"
RunIdFlag == "--run-id"
PathFlags == {"-c", "--config-path"}  \* only the second is ever joined
YamlFlag == "--config-yaml"

NoValue == <<>>
DefaultPath == <<"admin-address.txt">>
Ephemeral == <<"ephemeral">>

IsFlag(arg, flags) == Len(arg) = 1 /\ arg[1] \in flags
IsJoined(arg, flags) == Len(arg) = 2 /\ arg[1] \in flags
Joined(arg) == <<arg[2]>>

-----------------------------------------------------------------------------
(* config.FindAdminAddressFromArgs.                                        *)

\* A configuration has an admin server, or none, or cannot be read.
HasAdmin(config) == config \in {Ephemeral, <<"admin">>}
Readable(config) == config \in {NoValue, Empty, Ephemeral, <<"admin">>, <<"plain">>}

Sources(args) ==
  FoldLeft(
    LAMBDA s, arg :
      IF s.awaits = "path" THEN [s EXCEPT !.awaits = "no", !.path = arg]
      ELSE IF s.awaits = "yaml" THEN [s EXCEPT !.awaits = "no", !.yaml = arg]
      ELSE IF s.awaits = "end" \/ arg = Separator THEN [s EXCEPT !.awaits = "end"]
      ELSE IF IsFlag(arg, PathFlags) THEN [s EXCEPT !.awaits = "path"]
      ELSE IF IsFlag(arg, {YamlFlag}) THEN [s EXCEPT !.awaits = "yaml"]
      ELSE IF IsJoined(arg, {"--config-path"}) THEN [s EXCEPT !.path = Joined(arg)]
      ELSE IF IsJoined(arg, {YamlFlag}) THEN [s EXCEPT !.yaml = Joined(arg)]
      ELSE s,
    [awaits |-> "no", path |-> NoValue, yaml |-> NoValue], args)

FaultFileIgnored(args) ==
  LET yaml == Sources(args).yaml
  IN  IF ~Readable(yaml) THEN "error" ELSE IF HasAdmin(yaml) THEN "found" ELSE "none"

\* The file and the inline configuration are merged; the last of each counts.
FindAdminAddressFromArgs(args) ==
  LET s == Sources(args)
  IN  IF ~Readable(s.path) \/ ~Readable(s.yaml) THEN "error"
      ELSE IF HasAdmin(s.path) \/ HasAdmin(s.yaml) THEN "found" ELSE "none"

-----------------------------------------------------------------------------
(* ensureAdminAddress.                                                     *)

\* The loop over the arguments: it stops at "--" and at a configuration whose
\* value is empty.
Scan(args) ==
  FoldLeft(
    LAMBDA s, arg :
      LET next == [s EXCEPT !.at = @ + 1, !.awaits = "no"]
          config(value) == IF value = Empty THEN [next EXCEPT !.awaits = "end"]
                                            ELSE [next EXCEPT !.hasConfig = TRUE]
          address(value) == IF value = Empty THEN [next EXCEPT !.awaits = "error"]
                                             ELSE [next EXCEPT !.path = value]
      IN  IF s.awaits \in {"end", "error"} THEN s
          ELSE IF s.awaits = "config" THEN config(arg)
          ELSE IF s.awaits = "address" THEN address(arg)
          ELSE IF arg = Separator THEN [next EXCEPT !.awaits = "end", !.insertAt = s.at]
          ELSE IF IsFlag(arg, PathFlags \cup {YamlFlag}) THEN [next EXCEPT !.awaits = "config"]
          ELSE IF IsJoined(arg, {"--config-path", YamlFlag}) THEN config(Joined(arg))
          ELSE IF IsFlag(arg, {AddressFlag}) THEN [next EXCEPT !.awaits = "address"]
          ELSE IF IsJoined(arg, {AddressFlag}) THEN address(Joined(arg))
          ELSE next,
    [awaits |-> "no", at |-> 0, hasConfig |-> FALSE, path |-> NoValue,
     insertAt |-> Len(args)], args)

InsertAfter(args, n, new) == SubSeq(args, 1, n) \o new \o SubSeq(args, n + 1, Len(args))

FaultAppended(args, n, new) == args \o new

Inserted(args, n, new) == InsertAfter(args, n, new)

\* The result: the error, or the path of the admin address and the arguments.
ensureAdminAddress(args) ==
  LET s == Scan(args)
      yaml == IF FindAdminAddressFromArgs(args) = "none"
                THEN << <<YamlFlag>>, Ephemeral >> ELSE <<>>
      path == IF s.path = NoValue
                THEN << <<AddressFlag>>, DefaultPath >> ELSE <<>>
  IN  IF s.awaits \in {"error", "address"}
        THEN [ok |-> FALSE, path |-> NoValue, args |-> args]
      ELSE IF ~s.hasConfig
        THEN [ok |-> TRUE, path |-> NoValue, args |-> args]
      ELSE [ok |-> TRUE, path |-> IF s.path = NoValue THEN DefaultPath ELSE s.path,
            args |-> Inserted(args, s.insertAt, yaml \o path)]

\* Runtime.Run tags the process after a separator of its own.
CommandLine(args, runID) ==
  << <<"envoy">> >> \o args \o << Separator, <<RunIdFlag>>, runID >>

-----------------------------------------------------------------------------
(* internal/admin: the flags of a process.                                 *)

Region(args, afterEnvoyArgs) ==
  LET i == SelectInSeq(args, LAMBDA arg : arg = Separator)
  IN  IF i = 0 THEN IF afterEnvoyArgs THEN <<>> ELSE args
      ELSE IF afterEnvoyArgs THEN SubSeq(args, i + 1, Len(args))
      ELSE SubSeq(args, 1, i - 1)

LastOf(args, flag, keepFirst) ==
  FoldLeft(
    LAMBDA s, arg :
      LET found(value) == IF keepFirst /\ s.value # NoValue THEN s.value ELSE value
      IN  IF s.awaits /\ arg # Empty THEN [awaits |-> FALSE, value |-> found(arg)]
          ELSE IF IsFlag(arg, {flag}) THEN [s EXCEPT !.awaits = TRUE]
          ELSE IF IsJoined(arg, {flag}) /\ Joined(arg) # Empty
            THEN [awaits |-> FALSE, value |-> found(Joined(arg))]
          ELSE [s EXCEPT !.awaits = FALSE],
    [awaits |-> FALSE, value |-> NoValue], args).value

FaultFirstWins(args, flag, afterEnvoyArgs) ==
  LastOf(Region(args, afterEnvoyArgs), flag, TRUE)

\* The last match counts, on its side of the first separator.
scanFlag(args, flag, afterEnvoyArgs) ==
  LastOf(Region(args, afterEnvoyArgs), flag, FALSE)

\* A shell's -c has the whole command in one argument, here a single word.
flagValue(cmdline, flag, afterEnvoyArgs) ==
  LET value == scanFlag(cmdline, flag, afterEnvoyArgs)
  IN  IF value = NoValue /\ Len(cmdline) >= 3 /\ cmdline[2] = <<"-c">>
        THEN scanFlag(<<cmdline[3]>>, flag, afterEnvoyArgs) ELSE value

extractAdminAddressPath(cmdline) == flagValue(cmdline, AddressFlag, FALSE)
extractRunID(cmdline) == flagValue(cmdline, RunIdFlag, TRUE)
=============================================================================
