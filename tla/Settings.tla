------------------------------ MODULE Settings ------------------------------
(***************************************************************************)
(* How the configuration comes about: defaults, the file, the environment  *)
(* with .env below it, and the command line (Config.cpp, Environment.cpp,  *)
(* buildConfig() of main.cpp).  One setting stands for each way a value is  *)
(* read; numbers are as wide as the file's, an int holds IntHalf of them    *)
(* on each side of zero.                                                   *)
(***************************************************************************)
EXTENDS Integers, Sequences

CONSTANT IntHalf        \* 2^31 for the int of the code; it holds the limits and what is just past them

ASSUME IntHalfAssumption == IntHalf \in Nat /\ IntHalf > 513

Absent == [type |-> "absent", value |-> 0]
Number(n) == [type |-> "number", value |-> n]
Text(t) == [type |-> "text", value |-> t]
Flag(b) == [type |-> "bool", value |-> b]

Levels == {"debug", "info", "error"}

Default == [workers |-> 0, timeout |-> 60, failFast |-> FALSE, level |-> "info",
            database |-> TRUE, path |-> "default.db"]

-----------------------------------------------------------------------------
(* The file                                                                *)

\* static_cast<int>
Narrow(wide) == ((wide + IntHalf) % (2 * IntHalf)) - IntHalf

\* A value of another type than expected is passed over.
Read(file, key, type, current) == IF file[key].type = type THEN file[key].value ELSE current

FromJson(file) ==
  [workers |-> Narrow(Read(file, "workers", "number", Default.workers)),
   timeout |-> Read(file, "timeout", "number", Default.timeout),
   failFast |-> Read(file, "failFast", "bool", Default.failFast),
   level |-> IF file.level.type = "text" /\ file.level.value \in Levels THEN file.level.value ELSE Default.level,
   database |-> Read(file, "database", "bool", Default.database),
   path |-> Read(file, "path", "text", Default.path)]

-----------------------------------------------------------------------------
(* The environment: Text("") is a variable set to nothing                  *)

\* Mutant: the file wins over what the process was started with.
BugDotEnvWins(environment, dotEnv) ==
  [key \in DOMAIN environment |-> IF dotEnv[key] = Absent THEN environment[key] ELSE dotEnv[key]]

LoadDotEnv(environment, dotEnv) ==
  [key \in DOMAIN environment |-> IF environment[key] # Absent THEN environment[key] ELSE dotEnv[key]]

\* getInt() and getBool() pass over what they cannot parse, getOr() nothing.
GetInt(env, key, fallback) == IF env[key].type = "number" THEN env[key].value ELSE fallback
GetBool(env, key, fallback) == IF env[key].type = "bool" THEN env[key].value ELSE fallback
GetOr(env, key, fallback) == IF env[key].type = "absent" THEN fallback ELSE env[key].value

ApplyEnvironmentOverrides(config, env) ==
  [workers |-> Narrow(GetInt(env, "workers", config.workers)),
   timeout |-> GetInt(env, "timeout", config.timeout),
   failFast |-> GetBool(env, "failFast", config.failFast),
   level |-> IF env.level.type = "text" /\ env.level.value \in Levels THEN env.level.value ELSE config.level,
   database |-> GetBool(env, "database", config.database),
   path |-> GetOr(env, "path", config.path)]

-----------------------------------------------------------------------------
(* The command line, and the result                                        *)

Failed == [error |-> TRUE, config |-> Default]

\* Config::validate()
IsValidConfig(config) ==
  /\ config.workers \in 0..512
  /\ config.timeout >= 0
  /\ config.database => config.path # ""

\* --no-db after --db, --quiet after --verbose; an unknown level or a timeout
\* that is no duration is an error.  A value of "" counts as not given, except
\* for --db.
ApplyFlags(config, flags) ==
  [config EXCEPT
     !.level = IF flags.quiet THEN "error" ELSE IF flags.verbose THEN "debug"
               ELSE IF flags.level \in Levels THEN flags.level ELSE @,
     !.timeout = IF flags.timeout.type = "number" THEN flags.timeout.value ELSE @,
     !.path = IF flags.db.type = "text" THEN flags.db.value ELSE @,
     !.database = ~flags.noDb /\ (@ \/ flags.db.type = "text")]

BuildConfig(file, environment, dotEnv, flags) ==
  LET env == LoadDotEnv(environment, dotEnv)
      config == ApplyFlags(ApplyEnvironmentOverrides(FromJson(file), env), flags)
  IN IF \/ flags.level \notin Levels \cup {""}
        \/ flags.timeout.type = "text"
        \/ flags.timeout.type = "number" /\ flags.timeout.value < 0
        \/ ~IsValidConfig(config)
     THEN Failed
     ELSE [error |-> FALSE, config |-> config]

\* effectiveWorkers(): zero leaves it to the hardware, if that is known.
EffectiveWorkers(config, hardware) ==
  IF config.workers > 0 THEN config.workers
  ELSE IF hardware = 0 THEN 4 ELSE IF hardware < 32 THEN hardware ELSE 32
=============================================================================
