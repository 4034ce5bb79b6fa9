---------------------------- MODULE Configuration ----------------------------
(***************************************************************************)
(* How a server gets its settings: the TOML file named by --config, the    *)
(* VELOCITY_ variables over it, a validation, and the command line over    *)
(* both.  An operator edits the three sources and starts and stops the     *)
(* server; a running server may save its configuration over the file.      *)
(*                                                                         *)
(* A source is a function from the settings it gives to their values.      *)
(* "none" is Option::None.  One language stands for the thirteen of        *)
(* [wasm_runtimes], which also holds the instruction limit.                *)
(***************************************************************************)
EXTENDS Naturals, FiniteSets, TLC

CONSTANT MaxSettings    \* edits of a behaviour

VARIABLES
  file, readable,   \* the configuration file, and whether it parses
  env, args,        \* the variables and the command line
  cfg,              \* the ServerConfig under construction
  live,             \* what the running server uses
  phase, edits

cfgVars == <<file, readable, env, args, cfg, live, phase, edits>>

Default == [mode |-> "stdio", addr |-> "a0", level |-> "info", csharp |-> "c0",
            key |-> "none", size |-> "10M", rate |-> "true", merkle |-> "true",
            limit |-> "10M", lua |-> "p0"]
Settings == DOMAIN Default

\* What an operator may write.  A blank is a string of white space only.
FileValues == [mode |-> {"http", "ftp"}, addr |-> {""}, level |-> {"loud"}, csharp |-> {"c1"},
               key |-> {"k", "blank"}, size |-> {"0", "5"}, rate |-> {"false"},
               merkle |-> {"false"}, limit |-> {"0", "7"}, lua |-> {"", "p1"}]
EnvValues == [mode |-> {"http", "shmem"}, addr |-> {"a1"}, level |-> {"debug"}, csharp |-> {"c2"},
              key |-> {"padded k", "blank"}, size |-> {"0", "padded 9", "junk"},
              rate |-> {"false", "junk"}, merkle |-> {"no", "junk"},
              limit |-> {"0", "padded 9", "junk"}]
ArgValues == [config |-> {"file"}, mode |-> {"http", "ftp"}, addr |-> {"a2"},
              cert |-> {"x"}, tlskey |-> {"y"}]

Numbers == {"0", "5", "7", "9", "10M"}
Trim(raw) == CASE raw = "padded k" -> "k" [] raw = "padded 9" -> "9" [] raw = "blank" -> ""
               [] OTHER -> raw

CfgInit ==
  /\ file = <<>> /\ env = <<>> /\ args = <<>>
  /\ readable = TRUE
  /\ cfg = Default /\ live = Default
  /\ phase = "down" /\ edits = 0

\* A source after a setting was written into it.
Assigned(source, s, v) == [x \in DOMAIN source \cup {s} |-> IF x = s THEN v ELSE source[x]]

\* The operator, while the server is down.
Edit ==
  /\ phase = "down" /\ edits < MaxSettings /\ edits' = edits + 1
  /\ \/ /\ \E s \in DOMAIN FileValues : \E v \in FileValues[s] : file' = Assigned(file, s, v)
        /\ UNCHANGED <<readable, env, args>>
     \/ /\ \E s \in DOMAIN EnvValues : \E v \in EnvValues[s] : env' = Assigned(env, s, v)
        /\ UNCHANGED <<file, readable, args>>
     \/ /\ \E s \in DOMAIN ArgValues : \E v \in ArgValues[s] : args' = Assigned(args, s, v)
        /\ UNCHANGED <<file, readable, env>>
     \/ readable' = FALSE /\ UNCHANGED <<file, env, args>>
  /\ UNCHANGED <<cfg, live, phase>>

(***************************************************************************)
(* from_file.  Every missing setting has a default of its own; a language  *)
(* missing from a [wasm_runtimes] table that is there has an empty path.   *)
(***************************************************************************)
FromFile(source) ==
  [s \in Settings |->
     IF s \in DOMAIN source THEN source[s]
     ELSE IF s = "lua" /\ "limit" \in DOMAIN source THEN ""
     ELSE Default[s]]

\* main: a file that cannot be read or parsed ends the program.
ReadConfig ==
  /\ phase = "down"
  /\ IF "config" \notin DOMAIN args THEN cfg' = Default /\ phase' = "read"
     ELSE IF readable THEN cfg' = FromFile(file) /\ phase' = "read"
     ELSE UNCHANGED <<cfg, phase>>
  /\ UNCHANGED <<file, readable, env, args, live, edits>>

normalize_api_key(raw) == IF Trim(raw) = "" THEN "none" ELSE Trim(raw)

\* A mutant of Override: what cannot be read is off.
OverrideLax(s, raw, old) ==
  CASE s = "rate" -> IF raw = "true" THEN "true" ELSE "false"
    [] s = "key" -> normalize_api_key(raw)
    [] s = "limit" -> IF raw \notin Numbers THEN old ELSE IF raw = "0" THEN "none" ELSE raw
    [] s = "size" -> IF raw \in Numbers THEN raw ELSE old
    [] s = "merkle" -> IF raw \in {"0", "false", "no"} THEN "false" ELSE "true"
    [] OTHER -> raw

\* One variable of apply_env_overrides.  Only the limit is trimmed.
Override(s, raw, old) ==
  CASE s = "key" -> normalize_api_key(raw)
    [] s = "size" -> IF raw \in Numbers THEN raw ELSE old
    [] s = "rate" -> IF raw \in {"true", "false"} THEN raw ELSE "true"
    [] s = "merkle" -> IF raw \in {"0", "false", "no"} THEN "false" ELSE "true"
    [] s = "limit" -> IF Trim(raw) \notin Numbers THEN old
                      ELSE IF Trim(raw) = "0" THEN "none" ELSE Trim(raw)
    [] OTHER -> raw

apply_env_overrides(c) ==
  [s \in Settings |-> IF s \in DOMAIN env THEN Override(s, env[s], c[s]) ELSE c[s]]

ApplyEnv ==
  /\ phase = "read"
  /\ cfg' = apply_env_overrides(cfg)
  /\ phase' = "merged"
  /\ UNCHANGED <<file, readable, env, args, live, edits>>

Valid(c) ==
  /\ c.mode \in {"stdio", "shmem", "http"}
  /\ c.level \in {"error", "warn", "info", "debug", "trace"}
  /\ c.mode = "http" => c.addr # "" /\ c.size # "0"

\* A mutant of Validate: the file alone is looked at.
ValidateFile ==
  /\ phase = "merged"
  /\ phase' = IF Valid(FromFile(file)) THEN "valid" ELSE "down"
  /\ UNCHANGED <<file, readable, env, args, cfg, live, edits>>

Validate ==
  /\ phase = "merged"
  /\ phase' = IF Valid(cfg) THEN "valid" ELSE "down"
  /\ UNCHANGED <<file, readable, env, args, cfg, live, edits>>

\* resolve_language: an empty path is the built-in one.
ResolveLanguage(c) == IF c.lua = "" THEN Default.lua ELSE c.lua

Given(s, value) == IF s \in DOMAIN args THEN args[s] ELSE value

\* A mutant of Effective: the key is taken as it was configured.
EffectiveRaw(c) ==
  [c EXCEPT !.mode = Given("mode", c.mode), !.addr = Given("addr", c.addr),
            !.csharp = IF "csharp" \in DOMAIN env THEN env.csharp ELSE Default.csharp,
            !.lua = ResolveLanguage(c)]

\* The command line is last, the key normalised once more; the engine's path
\* is looked up in the environment alone (resolve_csharp_path).
Effective(c) ==
  [c EXCEPT !.mode = Given("mode", c.mode), !.addr = Given("addr", c.addr),
            !.key = IF c.key = "none" THEN "none" ELSE normalize_api_key(c.key),
            !.csharp = IF "csharp" \in DOMAIN env THEN env.csharp ELSE Default.csharp,
            !.lua = ResolveLanguage(c)]

\* An unknown mode, or half of a TLS pair in http mode, ends the program.
Serve ==
  LET new == Effective(cfg)
      pair == ("cert" \in DOMAIN args) = ("tlskey" \in DOMAIN args)
  IN
  /\ phase = "valid"
  /\ IF \/ new.mode \in {"stdio", "shmem"}
        \/ new.mode = "http" /\ pair
     THEN live' = new /\ phase' = "running"
     ELSE phase' = "down" /\ UNCHANGED live
  /\ UNCHANGED <<file, readable, env, args, cfg, edits>>

\* A mutant of Saved: what is as the defaults have it is left out.
SavedSparse(c) == [s \in {s \in Settings : c[s] # Default[s]} |-> c[s]]

\* to_string_pretty: None has no TOML form and is left out.
Saved(c) == [s \in {s \in Settings : c[s] # "none"} |-> c[s]]

Save ==
  /\ phase = "running" /\ edits < MaxSettings /\ edits' = edits + 1
  /\ file' = Saved(cfg) /\ readable' = TRUE
  /\ UNCHANGED <<env, args, cfg, live, phase>>

StopServer ==
  /\ phase = "running"
  /\ phase' = "down"
  /\ UNCHANGED <<file, readable, env, args, cfg, live, edits>>

CfgNext == Edit \/ ReadConfig \/ ApplyEnv \/ Validate \/ Serve \/ Save \/ StopServer
CfgSpec == CfgInit /\ [][CfgNext]_cfgVars

-----------------------------------------------------------------------------
Using(s) == s \in DOMAIN file /\ "config" \in DOMAIN args
Readable(s) ==
  CASE s = "size" -> env.size \in Numbers
    [] s = "limit" -> Trim(env.limit) \in Numbers
    [] s = "rate" -> env.rate \in {"true", "false"}
    [] s = "merkle" -> env.merkle \in {"0", "false", "no", "true"}
    [] OTHER -> TRUE

\* A protection is off in a running server only because the highest source that
\* says something readable about it turned it off: a mistyped or half-written
\* variable, a partial table or a second start never disables the rate limit,
\* the Merkle check or metering, nor empties a language's path.
OffOnPurpose ==
  phase = "running" =>
    /\ \A s \in {"rate", "merkle"} : live[s] = "false" =>
         IF s \in DOMAIN env THEN Readable(s) /\ env[s] # "true" ELSE Using(s)
    /\ live.limit = "none" => "limit" \in DOMAIN env /\ env.limit = "0"
    /\ "limit" \in DOMAIN env /\ Readable("limit") /\ env.limit # "0" => live.limit = Trim(env.limit)
    /\ live.lua # ""

\* No server runs with a key that is blank or padded, whichever source gave it:
\* "`Some("")` would let any client through" (config.rs:84).
NoBlankKey == phase = "running" => live.key \in {"none", "k"}

\* What was validated is what runs, as long as the command line changes nothing
\* of it: no variable gets past the validation.
ServedIsValid ==
  phase = "running" /\ DOMAIN args \subseteq {"config", "cert", "tlskey"} => Valid(live)

\* A saved configuration reads back as the one that was saved, the partial
\* tables of the file it came from included, unless metering is off.
SavedReloads == cfg.limit # "none" => FromFile(Saved(cfg)) = cfg

\* What runs is what the highest readable source asked for: no protection is off, no key
\* blank and no value unvalidated by accident, and a saved file means the same.
SettingsHonest == OffOnPurpose /\ NoBlankKey /\ ServedIsValid /\ SavedReloads

-----------------------------------------------------------------------------
(* Claims that do not hold; the README's table says why. *)

\* "Max request size must be greater than 0" (config.rs:518), for every server.
ServedIsValidAlways == phase = "running" => Valid(live)

\* The same, metering off included.
SavedReloadsAlways == FromFile(Saved(cfg)) = cfg

\* "Configuration priority ... 2. Configuration file" (config.rs:8).
FileSetsEngine ==
  phase = "running" /\ Using("csharp") /\ "csharp" \notin DOMAIN env => live.csharp = file.csharp
=============================================================================
