--------------------------- MODULE CommandProofs ----------------------------
(***************************************************************************)
(* What the command line, the configuration and a request ask for, for     *)
(* every input: settings come from the highest layer that has one, routes  *)
(* hide none another, globs find every match, the shards of a run divide   *)
(* it, and a line that is accepted loses no word.                          *)
(***************************************************************************)
EXTENDS DecisionsProofs, FiniteSetTheorems

-----------------------------------------------------------------------------
(* Settings.                                                               *)

\* The settings one by one, each read in a way of its own.
Keys == {"workers", "timeout", "failFast", "level", "database", "path"}

LEMMA DefaultValues ==
  /\ DOMAIN Default = Keys
  /\ Default.workers = 0 /\ Default.timeout = 60 /\ Default.failFast = FALSE
  /\ Default.level = "info" /\ Default.database = TRUE /\ Default.path = "default.db"
<1>1. DOMAIN Default = Keys  BY DEF Default, Keys
<1>2. Default.workers = 0 /\ Default.timeout = 60  BY DEF Default
<1>3. Default.failFast = FALSE /\ Default.database = TRUE  BY Zenon DEF Default
<1>4. Default.level = "info" /\ Default.path = "default.db"  BY Zenon DEF Default
<1> QED BY <1>1, <1>2, <1>3, <1>4

\* What a layer gives for a setting: nothing, or a value of some type.
SoundGiven(g) ==
  /\ g.type = "absent" => g = Absent
  /\ g.type = "number" => g.value \in Int
  /\ g.type = "bool" => g.value \in BOOLEAN

\* The environment has a text for every path it gives.
SoundFile(layer) == DOMAIN layer = Keys /\ \A key \in Keys : SoundGiven(layer[key])
SoundEnvironment(layer) == SoundFile(layer) /\ layer["path"].type \in {"absent", "text"}

SoundFlags(flags) ==
  /\ flags.quiet \in BOOLEAN /\ flags.noDb \in BOOLEAN /\ flags.verbose \in BOOLEAN
  /\ SoundGiven(flags.timeout) /\ SoundGiven(flags.db) /\ flags.db.type \in {"absent", "text"}

\* The first usable of three layers.
Layered(key, a, b, c) ==
  IF Usable(key, a) THEN a.value
  ELSE IF Usable(key, b) THEN b.value
  ELSE IF Usable(key, c) THEN c.value ELSE Default[key]

LEMMA LeastOf ==
  ASSUME NEW U, U \subseteq 1..3, U # {}
  PROVE  (CHOOSE i \in U : \A j \in U : i <= j) = (IF 1 \in U THEN 1 ELSE IF 2 \in U THEN 2 ELSE 3)
<1> DEFINE m == CHOOSE i \in U : \A j \in U : i <= j
<1>1. \E i \in U : \A j \in U : i <= j
  <2>1. CASE 1 \in U  BY <2>1
  <2>2. CASE 1 \notin U /\ 2 \in U  BY <2>2
  <2>3. CASE 1 \notin U /\ 2 \notin U
    <3>1. \A j \in U : j = 3  BY <2>3
    <3>2. PICK i \in U : TRUE  OBVIOUS
    <3> QED BY <3>1, <3>2
  <2> QED BY <2>1, <2>2, <2>3
<1>2. m \in U /\ \A j \in U : m <= j  BY <1>1, Zenon
<1> HIDE DEF m
<1>3. m = (IF 1 \in U THEN 1 ELSE IF 2 \in U THEN 2 ELSE 3)  BY <1>2
<1> QED BY <1>3 DEF m

\* The layer with the least index is the one that comes first.
FirstOf(key, layers) ==
  LET usable == {i \in 1..3 : Usable(key, layers[i])}
  IN IF usable = {} THEN Default[key]
     ELSE layers[CHOOSE i \in usable : \A j \in usable : i <= j].value

LEMMA FirstLayer ==
  ASSUME NEW key, NEW a, NEW b, NEW c
  PROVE  FirstOf(key, <<a, b, c>>) = Layered(key, a, b, c)
<1> DEFINE layers == <<a, b, c>>
           U == {i \in 1..3 : Usable(key, layers[i])}
<1>0. FirstOf(key, layers) =
        IF U = {} THEN Default[key] ELSE layers[CHOOSE i \in U : \A j \in U : i <= j].value
  BY Zenon DEF FirstOf
<1>1. layers[1] = a /\ layers[2] = b /\ layers[3] = c  OBVIOUS
<1>2. \A i : i \in U <=> i \in 1..3 /\ Usable(key, layers[i])  BY Zenon
<1> HIDE DEF layers, U
<1>3. /\ 1 \in U <=> Usable(key, a)
      /\ 2 \in U <=> Usable(key, b)
      /\ 3 \in U <=> Usable(key, c)
  <2>1. 1 \in 1..3 /\ 2 \in 1..3 /\ 3 \in 1..3  OBVIOUS
  <2> QED BY <1>1, <1>2, <2>1, Zenon
<1>4. U \subseteq 1..3  BY <1>2, Zenon
<1>5. CASE U = {}
  BY <1>0, <1>3, <1>5, Zenon DEF Layered, layers
<1>6. CASE U # {}
  <2>1. (CHOOSE i \in U : \A j \in U : i <= j) = (IF 1 \in U THEN 1 ELSE IF 2 \in U THEN 2 ELSE 3)
    BY <1>4, <1>6, LeastOf
  <2> DEFINE m == CHOOSE i \in U : \A j \in U : i <= j
  <2>2. m = IF 1 \in U THEN 1 ELSE IF 2 \in U THEN 2 ELSE 3  BY <2>1
  <2> HIDE DEF m
  <2>3. 1 \notin U /\ 2 \notin U => 3 \in U
    <3>1. 1..3 = {1, 2, 3}  OBVIOUS
    <3> QED BY <1>4, <1>6, <3>1, Zenon
  <2>4. layers[m].value = Layered(key, a, b, c)
    <3>1. CASE Usable(key, a)  BY <1>1, <1>3, <2>2, <3>1, Zenon DEF Layered
    <3>2. CASE ~Usable(key, a) /\ Usable(key, b)  BY <1>1, <1>3, <2>2, <3>2, Zenon DEF Layered
    <3>3. CASE ~Usable(key, a) /\ ~Usable(key, b)  BY <1>1, <1>3, <2>2, <2>3, <3>3, Zenon DEF Layered
    <3> QED BY <3>1, <3>2, <3>3
  <2> QED BY <1>0, <1>6, <2>4, Zenon DEF m, layers
<1> QED BY <1>5, <1>6

\* A number that fits the int is not changed by the cast.
LEMMA NarrowFits ==
  ASSUME NEW n \in (-IntHalf)..(IntHalf - 1)
  PROVE  Narrow(n) = n
<1>1. IntHalf \in Nat /\ IntHalf > 513  BY IntHalfAssumption
<1>2. PICK w, h : w = n + IntHalf /\ h = 2 * IntHalf  OBVIOUS
<1>3. w \in Nat /\ h \in Nat /\ h > 0 /\ w < h  BY <1>1, <1>2
<1>4. w % h = w  BY <1>3
<1>5. Narrow(n) = (w % h) - IntHalf  BY <1>2 DEF Narrow
<1> QED BY <1>1, <1>2, <1>4, <1>5

\* What the cast returns fits.
LEMMA NarrowRange ==
  ASSUME NEW n \in Int
  PROVE  Narrow(n) \in (-IntHalf)..(IntHalf - 1) /\ Narrow(Narrow(n)) = Narrow(n)
<1>1. IntHalf \in Nat /\ IntHalf > 513  BY IntHalfAssumption
<1>2. PICK w, h : w = n + IntHalf /\ h = 2 * IntHalf  OBVIOUS
<1>3. w \in Int /\ h \in Nat /\ h > 0  BY <1>1, <1>2
<1>4. w % h \in 0..(h - 1)  BY <1>3
<1>5. PICK r : r = w % h  OBVIOUS
<1>6. Narrow(n) = r - IntHalf  BY <1>2, <1>5 DEF Narrow
<1>7. Narrow(n) \in (-IntHalf)..(IntHalf - 1)  BY <1>1, <1>2, <1>4, <1>5, <1>6
<1> QED BY <1>7, NarrowFits

\* How each setting of the result is read.
LEMMA FlaggedFields ==
  ASSUME NEW w, NEW t, NEW f, NEW l, NEW d, NEW p, NEW config, NEW flags,
         config = [workers |-> w, timeout |-> t, failFast |-> f, level |-> l, database |-> d, path |-> p]
  PROVE  /\ ApplyFlags(config, flags).workers = w
         /\ ApplyFlags(config, flags).failFast = f
         /\ ApplyFlags(config, flags).timeout = IF flags.timeout.type = "number" THEN flags.timeout.value ELSE t
         /\ ApplyFlags(config, flags).level = IF flags.quiet THEN "error" ELSE IF flags.verbose THEN "debug"
                                              ELSE IF flags.level \in Levels THEN flags.level ELSE l
         /\ ApplyFlags(config, flags).path = IF flags.db.type = "text" THEN flags.db.value ELSE p
         /\ ApplyFlags(config, flags).database = (~flags.noDb /\ (d \/ flags.db.type = "text"))
<1>1. config.level = l /\ config.timeout = t /\ config.path = p
  <2>1. config.level = l  BY Zenon
  <2>2. config.timeout = t  BY Zenon
  <2>3. config.path = p  BY Zenon
  <2> QED BY <2>1, <2>2, <2>3
<1>2. config.database = d  BY Zenon
<1> DEFINE level == IF flags.quiet THEN "error" ELSE IF flags.verbose THEN "debug"
                    ELSE IF flags.level \in Levels THEN flags.level ELSE config.level
           timeout == IF flags.timeout.type = "number" THEN flags.timeout.value ELSE config.timeout
           path == IF flags.db.type = "text" THEN flags.db.value ELSE config.path
           database == ~flags.noDb /\ (config.database \/ flags.db.type = "text")
<1>3. ApplyFlags(config, flags) =
        [[[[config EXCEPT !.level = level] EXCEPT !.timeout = timeout] EXCEPT !.path = path] EXCEPT !.database = database]
  BY Zenon DEF ApplyFlags
<1>4. PICK no : no = database  OBVIOUS
<1>5. level = (IF flags.quiet THEN "error" ELSE IF flags.verbose THEN "debug"
               ELSE IF flags.level \in Levels THEN flags.level ELSE l)
  BY <1>1, Zenon
<1>6. timeout = (IF flags.timeout.type = "number" THEN flags.timeout.value ELSE t)  BY <1>1, Zenon
<1>7. path = (IF flags.db.type = "text" THEN flags.db.value ELSE p)  BY <1>1, Zenon
<1>8. database = (~flags.noDb /\ (d \/ flags.db.type = "text"))  BY <1>2, Zenon
<1> HIDE DEF level, timeout, path, database
<1>9. ApplyFlags(config, flags) =
        [[[[config EXCEPT !.level = level] EXCEPT !.timeout = timeout] EXCEPT !.path = path] EXCEPT !.database = no]
  BY <1>3, <1>4, Zenon
<1>10. PICK flagged : flagged = ApplyFlags(config, flags)  OBVIOUS
<1>11. /\ flagged.workers = w /\ flagged.failFast = f /\ flagged.timeout = timeout
       /\ flagged.level = level /\ flagged.path = path /\ flagged.database = no
  BY <1>9, <1>10
<1> QED BY <1>4, <1>5, <1>6, <1>7, <1>8, <1>10, <1>11, Zenon

ConfigOf(config, file, env, flags) ==
  config = ApplyFlags(ApplyEnvironmentOverrides(FromJson(file), env), flags)

LEMMA ConfigFields ==
  ASSUME NEW file, NEW env, NEW flags, NEW config, ConfigOf(config, file, env, flags)
  PROVE  /\ config.workers = Narrow(GetInt(env, "workers", Narrow(Read(file, "workers", "number", Default.workers))))
         /\ config.failFast = GetBool(env, "failFast", Read(file, "failFast", "bool", Default.failFast))
         /\ config.timeout = IF flags.timeout.type = "number" THEN flags.timeout.value
                             ELSE GetInt(env, "timeout", Read(file, "timeout", "number", Default.timeout))
         /\ config.level = IF flags.quiet THEN "error" ELSE IF flags.verbose THEN "debug"
                           ELSE IF flags.level \in Levels THEN flags.level
                           ELSE IF env.level.type = "text" /\ env.level.value \in Levels THEN env.level.value
                           ELSE IF file.level.type = "text" /\ file.level.value \in Levels THEN file.level.value
                           ELSE Default.level
         /\ config.path = IF flags.db.type = "text" THEN flags.db.value
                          ELSE GetOr(env, "path", Read(file, "path", "text", Default.path))
         /\ config.database =
              (~flags.noDb /\ (GetBool(env, "database", Read(file, "database", "bool", Default.database))
                                 \/ flags.db.type = "text"))
<1> DEFINE w == Narrow(Read(file, "workers", "number", Default.workers))
           t == Read(file, "timeout", "number", Default.timeout)
           f == Read(file, "failFast", "bool", Default.failFast)
           l == IF file.level.type = "text" /\ file.level.value \in Levels THEN file.level.value ELSE Default.level
           d == Read(file, "database", "bool", Default.database)
           p == Read(file, "path", "text", Default.path)
<1>1. FromJson(file) = [workers |-> w, timeout |-> t, failFast |-> f, level |-> l, database |-> d, path |-> p]
  BY Zenon DEF FromJson
<1>2. PICK read : read = FromJson(file)  OBVIOUS
<1> DEFINE w2 == Narrow(GetInt(env, "workers", w))
           t2 == GetInt(env, "timeout", t)
           f2 == GetBool(env, "failFast", f)
           l2 == IF env.level.type = "text" /\ env.level.value \in Levels THEN env.level.value ELSE l
           d2 == GetBool(env, "database", d)
           p2 == GetOr(env, "path", p)
           e == [workers |-> w2, timeout |-> t2, failFast |-> f2, level |-> l2, database |-> d2, path |-> p2]
<1>3. l2 = (IF env.level.type = "text" /\ env.level.value \in Levels THEN env.level.value
            ELSE IF file.level.type = "text" /\ file.level.value \in Levels THEN file.level.value
            ELSE Default.level)
  BY Zenon
<1> HIDE DEF w, t, f, l, d, p
<1>4. read.workers = w /\ read.timeout = t /\ read.level = l /\ read.path = p /\ read.failFast = f /\ read.database = d
  BY <1>1, <1>2
<1>5. ApplyEnvironmentOverrides(read, env) = e  BY <1>4, Zenon DEF ApplyEnvironmentOverrides
<1> HIDE DEF w2, t2, f2, l2, d2, p2
<1>6. config = ApplyFlags(e, flags)  BY <1>2, <1>5, Zenon DEF ConfigOf
<1>7. /\ ApplyFlags(e, flags).workers = w2
      /\ ApplyFlags(e, flags).failFast = f2
      /\ ApplyFlags(e, flags).timeout = IF flags.timeout.type = "number" THEN flags.timeout.value ELSE t2
      /\ ApplyFlags(e, flags).level = IF flags.quiet THEN "error" ELSE IF flags.verbose THEN "debug"
                                      ELSE IF flags.level \in Levels THEN flags.level ELSE l2
      /\ ApplyFlags(e, flags).path = IF flags.db.type = "text" THEN flags.db.value ELSE p2
      /\ ApplyFlags(e, flags).database = (~flags.noDb /\ (d2 \/ flags.db.type = "text"))
  BY FlaggedFields
<1>8. /\ config.workers = w2
      /\ config.failFast = f2
      /\ config.timeout = IF flags.timeout.type = "number" THEN flags.timeout.value ELSE t2
      /\ config.level = IF flags.quiet THEN "error" ELSE IF flags.verbose THEN "debug"
                        ELSE IF flags.level \in Levels THEN flags.level ELSE l2
      /\ config.path = IF flags.db.type = "text" THEN flags.db.value ELSE p2
      /\ config.database = (~flags.noDb /\ (d2 \/ flags.db.type = "text"))
  <2> HIDE DEF e
  <2> QED BY <1>6, <1>7, Zenon
<1>9. /\ w2 = Narrow(GetInt(env, "workers", Narrow(Read(file, "workers", "number", Default.workers))))
      /\ f2 = GetBool(env, "failFast", Read(file, "failFast", "bool", Default.failFast))
      /\ t2 = GetInt(env, "timeout", Read(file, "timeout", "number", Default.timeout))
      /\ p2 = GetOr(env, "path", Read(file, "path", "text", Default.path))
      /\ d2 = GetBool(env, "database", Read(file, "database", "bool", Default.database))
  BY Zenon DEF w, t, f, d, p, w2, f2, t2, p2, d2
<1> QED BY <1>3, <1>8, <1>9, Zenon
\* What the command line gives for a setting, and the environment with .env.
FlagLayer(flags, key) ==
  CASE key = "level" -> IF flags.quiet THEN Text("error")
                        ELSE IF flags.verbose THEN Text("debug") ELSE Text(flags.level)
    [] key = "timeout" -> flags.timeout
    [] key = "path" -> flags.db
    [] key = "database" -> IF flags.noDb THEN Flag(FALSE)
                           ELSE IF flags.db # Absent THEN Flag(TRUE) ELSE Absent
    [] OTHER -> Absent
SetLayer(environment, dotEnv, key) ==
  IF environment[key] = Absent THEN dotEnv[key] ELSE environment[key]

LEMMA FlagLayers ==
  ASSUME NEW flags
  PROVE  /\ FlagLayer(flags, "workers") = Absent /\ FlagLayer(flags, "failFast") = Absent
         /\ FlagLayer(flags, "level") = IF flags.quiet THEN Text("error")
                                        ELSE IF flags.verbose THEN Text("debug") ELSE Text(flags.level)
         /\ FlagLayer(flags, "timeout") = flags.timeout /\ FlagLayer(flags, "path") = flags.db
         /\ FlagLayer(flags, "database") = IF flags.noDb THEN Flag(FALSE)
                                           ELSE IF flags.db # Absent THEN Flag(TRUE) ELSE Absent
<1> DEFINE level == IF flags.quiet THEN Text("error")
                    ELSE IF flags.verbose THEN Text("debug") ELSE Text(flags.level)
           database == IF flags.noDb THEN Flag(FALSE) ELSE IF flags.db # Absent THEN Flag(TRUE) ELSE Absent
<1>1. \A key : FlagLayer(flags, key) =
        CASE key = "level" -> level [] key = "timeout" -> flags.timeout [] key = "path" -> flags.db
          [] key = "database" -> database [] OTHER -> Absent
  BY DEF FlagLayer
<1> HIDE DEF level, database
<1>2. FlagLayer(flags, "workers") = Absent  BY <1>1
<1>3. FlagLayer(flags, "failFast") = Absent  BY <1>1
<1>4. FlagLayer(flags, "level") = level  BY <1>1
<1>5. FlagLayer(flags, "timeout") = flags.timeout  BY <1>1
<1>6. FlagLayer(flags, "path") = flags.db  BY <1>1
<1>7. FlagLayer(flags, "database") = database  BY <1>1
<1> QED BY <1>2, <1>3, <1>4, <1>5, <1>6, <1>7, Zenon DEF level, database

LEMMA UsableGiven ==
  ASSUME NEW g
  PROVE  /\ Usable("workers", g) <=> g.type = "number"
         /\ Usable("timeout", g) <=> g.type = "number"
         /\ Usable("failFast", g) <=> g.type = "bool"
         /\ Usable("database", g) <=> g.type = "bool"
         /\ Usable("level", g) <=> g.type = "text" /\ g.value \in Levels
         /\ Usable("path", g) <=> g.type = "text"
<1>1. Usable("workers", g) <=> g.type = "number"  BY DEF Usable
<1>2. Usable("timeout", g) <=> g.type = "number"  BY DEF Usable
<1>3. Usable("failFast", g) <=> g.type = "bool"  BY DEF Usable
<1>4. Usable("database", g) <=> g.type = "bool"  BY DEF Usable
<1>5. Usable("level", g) <=> g.type = "text" /\ g.value \in Levels  BY DEF Usable
<1>6. Usable("path", g) <=> g.type = "text"  BY DEF Usable
<1> QED BY <1>1, <1>2, <1>3, <1>4, <1>5, <1>6

LEMMA GivenParts ==
  /\ Absent.type = "absent"
  /\ \A n : Number(n).type = "number" /\ Number(n).value = n
  /\ \A t : Text(t).type = "text" /\ Text(t).value = t
  /\ \A b : Flag(b).type = "bool" /\ Flag(b).value = b
BY Zenon DEF Absent, Number, Text, Flag

\* What an accepted configuration was built from.
AcceptedAs(built, file, environment, dotEnv, flags) ==
  built = BuildConfig(file, environment, dotEnv, flags) /\ ~built.error

LEMMA Built ==
  ASSUME NEW file, NEW environment, NEW dotEnv, NEW flags, NEW built,
         AcceptedAs(built, file, environment, dotEnv, flags)
  PROVE  /\ ConfigOf(built.config, file, LoadDotEnv(environment, dotEnv), flags)
         /\ flags.timeout.type # "text"
         /\ built.config.workers \in 0..512 /\ built.config.timeout >= 0
<1> DEFINE env == LoadDotEnv(environment, dotEnv)
           config == ApplyFlags(ApplyEnvironmentOverrides(FromJson(file), env), flags)
           wrong == \/ flags.level \notin Levels \cup {""}
                    \/ flags.timeout.type = "text"
                    \/ flags.timeout.type = "number" /\ flags.timeout.value < 0
                    \/ ~IsValidConfig(config)
<1>1. built = IF wrong THEN Failed ELSE [error |-> FALSE, config |-> config]
  BY Zenon DEF BuildConfig, AcceptedAs
<1>2. Failed.error = TRUE  BY Zenon DEF Failed
<1>3. ~wrong => flags.timeout.type # "text" /\ IsValidConfig(config)  BY Zenon
<1> HIDE DEF wrong, config
<1>4. ~wrong  BY <1>1, <1>2, Zenon DEF AcceptedAs
<1>5. built = [error |-> FALSE, config |-> config]  BY <1>1, <1>4, Zenon
<1>6. built.config = config  BY <1>5
<1>7. config.workers \in 0..512 /\ config.timeout >= 0  BY <1>3, <1>4, Zenon DEF IsValidConfig
<1> QED BY <1>3, <1>4, <1>6, <1>7, Zenon DEF config, ConfigOf

\* The environment goes before .env, variable by variable.
LEMMA Loaded ==
  ASSUME NEW environment, NEW dotEnv, SoundEnvironment(environment), SoundEnvironment(dotEnv)
  PROVE  /\ \A key \in Keys :
              /\ LoadDotEnv(environment, dotEnv)[key] = SetLayer(environment, dotEnv, key)
              /\ SoundGiven(SetLayer(environment, dotEnv, key))
         /\ SetLayer(environment, dotEnv, "path").type \in {"absent", "text"}
<1>1. /\ DOMAIN environment = Keys
      /\ \A key \in Keys : SoundGiven(environment[key]) /\ SoundGiven(dotEnv[key])
      /\ environment["path"].type \in {"absent", "text"} /\ dotEnv["path"].type \in {"absent", "text"}
  BY Zenon DEF SoundEnvironment, SoundFile
<1>2. \A key \in Keys : LoadDotEnv(environment, dotEnv)[key] = SetLayer(environment, dotEnv, key)
  BY <1>1, Zenon DEF LoadDotEnv, SetLayer
<1>3. \A key \in Keys : SoundGiven(SetLayer(environment, dotEnv, key))
  BY <1>1, Zenon DEF SetLayer
<1>4. SetLayer(environment, dotEnv, "path").type \in {"absent", "text"}
  BY <1>1, Zenon DEF SetLayer
<1> QED BY <1>2, <1>3, <1>4

\* The number of workers is cast to an int wherever it comes from.
AsKept(key, value) == IF key = "workers" THEN Narrow(value) ELSE value

\* Each setting of an accepted configuration has the value of the first layer
\* that has a usable one, whatever the layers give: numbers of any size, and any
\* of the options; of a number of workers the lower half is left.
THEOREM HighestLayerWins ==
  ASSUME NEW file, NEW environment, NEW dotEnv, NEW flags, NEW built,
         SoundFile(file), SoundEnvironment(environment), SoundEnvironment(dotEnv), SoundFlags(flags),
         AcceptedAs(built, file, environment, dotEnv, flags)
  PROVE  \A key \in Keys :
           built.config[key] =
             AsKept(key, Layered(key, FlagLayer(flags, key), SetLayer(environment, dotEnv, key), file[key]))
<1>1. PICK config : config = built.config  OBVIOUS
<1>2. PICK env : env = LoadDotEnv(environment, dotEnv)  OBVIOUS
<1>3. ConfigOf(config, file, env, flags) /\ flags.timeout.type # "text"
  <2>1. ConfigOf(built.config, file, LoadDotEnv(environment, dotEnv), flags) /\ flags.timeout.type # "text"
    BY Built
  <2> QED BY <1>1, <1>2, <2>1
<1> DEFINE set(key) == SetLayer(environment, dotEnv, key)
<1>4. /\ \A key \in Keys : env[key] = set(key) /\ SoundGiven(set(key))
      /\ set("path").type \in {"absent", "text"}
  BY <1>2, Loaded, Zenon
<1> HIDE DEF set
<1>5. \A key \in Keys : SoundGiven(file[key])  BY Zenon DEF SoundFile
<1>6. /\ flags.quiet \in BOOLEAN /\ flags.noDb \in BOOLEAN /\ flags.verbose \in BOOLEAN
      /\ SoundGiven(flags.timeout) /\ SoundGiven(flags.db) /\ flags.db.type \in {"absent", "text"}
  BY Zenon DEF SoundFlags
<1>7. /\ config.workers = Narrow(GetInt(env, "workers", Narrow(Read(file, "workers", "number", Default.workers))))
      /\ config.failFast = GetBool(env, "failFast", Read(file, "failFast", "bool", Default.failFast))
      /\ config.timeout = IF flags.timeout.type = "number" THEN flags.timeout.value
                          ELSE GetInt(env, "timeout", Read(file, "timeout", "number", Default.timeout))
      /\ config.level = IF flags.quiet THEN "error" ELSE IF flags.verbose THEN "debug"
                        ELSE IF flags.level \in Levels THEN flags.level
                        ELSE IF env.level.type = "text" /\ env.level.value \in Levels THEN env.level.value
                        ELSE IF file.level.type = "text" /\ file.level.value \in Levels THEN file.level.value
                        ELSE Default.level
      /\ config.path = IF flags.db.type = "text" THEN flags.db.value
                       ELSE GetOr(env, "path", Read(file, "path", "text", Default.path))
      /\ config.database =
           (~flags.noDb /\ (GetBool(env, "database", Read(file, "database", "bool", Default.database))
                              \/ flags.db.type = "text"))
  BY <1>3, ConfigFields, Zenon
<1>8. /\ "workers" \in Keys /\ "timeout" \in Keys /\ "failFast" \in Keys
      /\ "level" \in Keys /\ "database" \in Keys /\ "path" \in Keys
  BY Zenon DEF Keys
<1>9. config["workers"] = Narrow(Layered("workers", FlagLayer(flags, "workers"), set("workers"), file["workers"]))
  <2>1. Layered("workers", FlagLayer(flags, "workers"), set("workers"), file["workers"]) =
          IF set("workers").type = "number" THEN set("workers").value
          ELSE IF file["workers"].type = "number" THEN file["workers"].value ELSE Default.workers
    <3>1. ~Usable("workers", FlagLayer(flags, "workers"))  BY FlagLayers, UsableGiven, GivenParts, Zenon
    <3>2. Usable("workers", set("workers")) <=> set("workers").type = "number"  BY UsableGiven, Zenon
    <3>3. Usable("workers", file["workers"]) <=> file["workers"].type = "number"  BY UsableGiven, Zenon
    <3> QED BY <3>1, <3>2, <3>3, Zenon DEF Layered
  <2>2. PICK r : r = Read(file, "workers", "number", Default.workers)  OBVIOUS
  <2>3. r = IF file["workers"].type = "number" THEN file["workers"].value ELSE Default.workers
    BY <2>2, Zenon DEF Read
  <2>4. Default.workers \in Int  BY DefaultValues
  <2>5. r \in Int  BY <1>5, <1>8, <2>3, <2>4, Zenon DEF SoundGiven
  <2>6. PICK g : g = GetInt(env, "workers", Narrow(r))  OBVIOUS
  <2>7. g = IF set("workers").type = "number" THEN set("workers").value ELSE Narrow(r)
    BY <1>4, <1>8, <2>6, Zenon DEF GetInt
  <2>8. config.workers = Narrow(g)  BY <1>7, <2>2, <2>6, Zenon
  <2>9. Narrow(Narrow(r)) = Narrow(r)  BY <2>5, NarrowRange, Zenon
  <2>10. CASE set("workers").type = "number"  BY <2>1, <2>7, <2>8, <2>10, Zenon
  <2>11. CASE set("workers").type # "number"  BY <2>1, <2>3, <2>7, <2>8, <2>9, <2>11, Zenon
  <2> QED BY <2>10, <2>11
<1>10. config["timeout"] = Layered("timeout", FlagLayer(flags, "timeout"), set("timeout"), file["timeout"])
  <2>1. FlagLayer(flags, "timeout") = flags.timeout  BY FlagLayers, Zenon
  <2>2. Layered("timeout", flags.timeout, set("timeout"), file["timeout"]) =
          IF flags.timeout.type = "number" THEN flags.timeout.value
          ELSE IF set("timeout").type = "number" THEN set("timeout").value
          ELSE IF file["timeout"].type = "number" THEN file["timeout"].value ELSE Default.timeout
    <3>1. Usable("timeout", flags.timeout) <=> flags.timeout.type = "number"  BY UsableGiven, Zenon
    <3>2. Usable("timeout", set("timeout")) <=> set("timeout").type = "number"  BY UsableGiven, Zenon
    <3>3. Usable("timeout", file["timeout"]) <=> file["timeout"].type = "number"  BY UsableGiven, Zenon
    <3> QED BY <3>1, <3>2, <3>3, Zenon DEF Layered
  <2>3. GetInt(env, "timeout", Read(file, "timeout", "number", Default.timeout)) =
          IF set("timeout").type = "number" THEN set("timeout").value
          ELSE IF file["timeout"].type = "number" THEN file["timeout"].value ELSE Default.timeout
    BY <1>4, <1>8, Zenon DEF GetInt, Read
  <2> QED BY <1>7, <2>1, <2>2, <2>3, Zenon
<1>11. config["failFast"] = Layered("failFast", FlagLayer(flags, "failFast"), set("failFast"), file["failFast"])
  <2>1. Layered("failFast", FlagLayer(flags, "failFast"), set("failFast"), file["failFast"]) =
          IF set("failFast").type = "bool" THEN set("failFast").value
          ELSE IF file["failFast"].type = "bool" THEN file["failFast"].value ELSE Default.failFast
    <3>1. ~Usable("failFast", FlagLayer(flags, "failFast"))  BY FlagLayers, UsableGiven, GivenParts, Zenon
    <3>2. Usable("failFast", set("failFast")) <=> set("failFast").type = "bool"  BY UsableGiven, Zenon
    <3>3. Usable("failFast", file["failFast"]) <=> file["failFast"].type = "bool"  BY UsableGiven, Zenon
    <3> QED BY <3>1, <3>2, <3>3, Zenon DEF Layered
  <2>2. GetBool(env, "failFast", Read(file, "failFast", "bool", Default.failFast)) =
          IF set("failFast").type = "bool" THEN set("failFast").value
          ELSE IF file["failFast"].type = "bool" THEN file["failFast"].value ELSE Default.failFast
    BY <1>4, <1>8, Zenon DEF GetBool, Read
  <2> QED BY <1>7, <2>1, <2>2, Zenon
<1>12. config["level"] = Layered("level", FlagLayer(flags, "level"), set("level"), file["level"])
  <2>1. PICK given : given = IF set("level").type = "text" /\ set("level").value \in Levels THEN set("level").value
                             ELSE IF file["level"].type = "text" /\ file["level"].value \in Levels
                               THEN file["level"].value ELSE Default.level
    OBVIOUS
  <2>2. config.level = IF flags.quiet THEN "error" ELSE IF flags.verbose THEN "debug"
                       ELSE IF flags.level \in Levels THEN flags.level ELSE given
    BY <1>4, <1>7, <1>8, <2>1, Zenon
  <2>3. \A t : Layered("level", Text(t), set("level"), file["level"]) = IF t \in Levels THEN t ELSE given
    <3> TAKE t
    <3>1. Usable("level", Text(t)) <=> t \in Levels  BY UsableGiven, GivenParts, Zenon
    <3>2. Usable("level", set("level")) <=> set("level").type = "text" /\ set("level").value \in Levels
      BY UsableGiven, Zenon
    <3>3. Usable("level", file["level"]) <=> file["level"].type = "text" /\ file["level"].value \in Levels
      BY UsableGiven, Zenon
    <3>4. Text(t).value = t  BY GivenParts, Zenon
    <3>5. CASE t \in Levels  BY <3>1, <3>4, <3>5, Zenon DEF Layered
    <3>6. CASE t \notin Levels  BY <2>1, <3>1, <3>2, <3>3, <3>6, Zenon DEF Layered
    <3> QED BY <3>5, <3>6
  <2>4. "error" \in Levels /\ "debug" \in Levels  BY Zenon DEF Levels
  <2>5. CASE flags.quiet
    <3>1. FlagLayer(flags, "level") = Text("error")  BY <2>5, FlagLayers, Zenon
    <3> QED BY <2>2, <2>3, <2>4, <2>5, <3>1, Zenon
  <2>6. CASE ~flags.quiet /\ flags.verbose
    <3>1. FlagLayer(flags, "level") = Text("debug")  BY <2>6, FlagLayers, Zenon
    <3> QED BY <2>2, <2>3, <2>4, <2>6, <3>1, Zenon
  <2>7. CASE ~flags.quiet /\ ~flags.verbose
    <3>1. FlagLayer(flags, "level") = Text(flags.level)  BY <2>7, FlagLayers, Zenon
    <3> QED BY <2>2, <2>3, <2>7, <3>1, Zenon
  <2> QED BY <2>5, <2>6, <2>7
<1>13. config["path"] = Layered("path", FlagLayer(flags, "path"), set("path"), file["path"])
  <2>1. FlagLayer(flags, "path") = flags.db  BY FlagLayers, Zenon
  <2>2. Layered("path", flags.db, set("path"), file["path"]) =
          IF flags.db.type = "text" THEN flags.db.value
          ELSE IF set("path").type = "text" THEN set("path").value
          ELSE IF file["path"].type = "text" THEN file["path"].value ELSE Default.path
    <3>1. Usable("path", flags.db) <=> flags.db.type = "text"  BY UsableGiven, Zenon
    <3>2. Usable("path", set("path")) <=> set("path").type = "text"  BY UsableGiven, Zenon
    <3>3. Usable("path", file["path"]) <=> file["path"].type = "text"  BY UsableGiven, Zenon
    <3> QED BY <3>1, <3>2, <3>3, Zenon DEF Layered
  <2>3. GetOr(env, "path", Read(file, "path", "text", Default.path)) =
          IF set("path").type = "text" THEN set("path").value
          ELSE IF file["path"].type = "text" THEN file["path"].value ELSE Default.path
    <3>1. set("path").type = "absent" <=> set("path").type # "text"  BY <1>4
    <3> QED BY <1>4, <1>8, <3>1, Zenon DEF GetOr, Read
  <2> QED BY <1>7, <2>1, <2>2, <2>3, Zenon
<1>14. config["database"] = Layered("database", FlagLayer(flags, "database"), set("database"), file["database"])
  <2>1. PICK b : b = GetBool(env, "database", Read(file, "database", "bool", Default.database))  OBVIOUS
  <2>2. b = IF set("database").type = "bool" THEN set("database").value
            ELSE IF file["database"].type = "bool" THEN file["database"].value ELSE Default.database
    BY <1>4, <1>8, <2>1, Zenon DEF GetBool, Read
  <2>3. b \in BOOLEAN
    <3>1. SoundGiven(set("database")) /\ SoundGiven(file["database"])  BY <1>4, <1>5, <1>8, Zenon
    <3> QED BY <2>2, <3>1, DefaultValues, Zenon DEF SoundGiven
  <2>4. config.database = (~flags.noDb /\ (b \/ flags.db.type = "text"))  BY <1>7, <2>1, Zenon
  <2>5. \A x : Usable("database", Flag(x))  BY UsableGiven, GivenParts, Zenon
  <2>6. CASE flags.noDb
    <3>1. FlagLayer(flags, "database") = Flag(FALSE)  BY <2>6, FlagLayers, Zenon
    <3>2. config.database = FALSE  BY <2>4, <2>6, Zenon
    <3> QED BY <2>5, <3>1, <3>2, GivenParts, Zenon DEF Layered
  <2>7. CASE ~flags.noDb /\ flags.db # Absent
    <3>1. FlagLayer(flags, "database") = Flag(TRUE)  BY <2>7, FlagLayers, Zenon
    <3>2. flags.db.type = "text"  BY <1>6, <2>7, Zenon DEF SoundGiven
    <3>3. config.database = TRUE  BY <2>4, <2>7, <3>2, Zenon
    <3> QED BY <2>5, <3>1, <3>3, GivenParts, Zenon DEF Layered
  <2>8. CASE ~flags.noDb /\ flags.db = Absent
    <3>1. FlagLayer(flags, "database") = Absent  BY <2>8, FlagLayers, Zenon
    <3>2. flags.db.type # "text"  BY <2>8, GivenParts
    <3>3. config.database = b
      <4>1. CASE b = TRUE  BY <2>4, <2>8, <4>1, Zenon
      <4>2. CASE b = FALSE  BY <2>4, <2>8, <3>2, <4>2, Zenon
      <4> QED BY <2>3, <4>1, <4>2, Zenon
    <3>4. ~Usable("database", Absent)  BY UsableGiven, GivenParts, Zenon
    <3> QED BY <2>2, <3>1, <3>3, <3>4, UsableGiven, Zenon DEF Layered
  <2> QED BY <2>6, <2>7, <2>8
<1>15. /\ \A value : AsKept("workers", value) = Narrow(value)
       /\ \A key \in Keys \ {"workers"} : \A value : AsKept(key, value) = value
  BY Zenon DEF AsKept
<1> DEFINE layered(key) == Layered(key, FlagLayer(flags, key), set(key), file[key])
<1>16. \A key \in Keys \ {"workers"} : config[key] = layered(key)
  <2> HIDE DEF layered
  <2>1. /\ config["timeout"] = layered("timeout") /\ config["failFast"] = layered("failFast")
        /\ config["level"] = layered("level") /\ config["path"] = layered("path")
        /\ config["database"] = layered("database")
    BY <1>10, <1>11, <1>12, <1>13, <1>14, Zenon DEF layered
  <2> QED BY <2>1, Zenon DEF Keys
<1>17. \A key \in Keys : config[key] = AsKept(key, layered(key))
  <2> SUFFICES ASSUME NEW key \in Keys PROVE config[key] = AsKept(key, layered(key))  BY Zenon
  <2>1. config["workers"] = Narrow(layered("workers"))  BY <1>9
  <2> HIDE DEF layered
  <2>2. CASE key = "workers"  BY <1>15, <2>1, <2>2, Zenon
  <2>3. CASE key # "workers"  BY <1>15, <1>16, <2>3, Zenon
  <2> QED BY <2>2, <2>3
<1> QED BY <1>1, <1>17, Zenon DEF set

LEMMA SoundAbsent == SoundGiven(Absent)
BY GivenParts, Zenon DEF SoundGiven

\* The values that a layer of the items may have are sound, a path is a text.
LEMMA SoundValues ==
  ASSUME NEW key \in Keys, NEW g \in SettingValues(key)
  PROVE  /\ SoundGiven(g)
         /\ key = "path" => g.type \in {"absent", "text"}
<1> DEFINE numbers == {Absent, Text("x"), Number(-1), Number(0), Number(8), Number(513), Number(2 * IntHalf + 8)}
           flags == {Absent, Text(Empty), Flag(TRUE), Flag(FALSE)}
           levels == {Absent, Text("loud"), Text("debug"), Text("error")}
           paths == {Absent, Text(Empty), Text("a.db"), Text("b.db")}
<1>1. SettingValues(key) =
        CASE key \in {"workers", "timeout"} -> numbers
          [] key \in {"failFast", "database"} -> flags
          [] key = "level" -> levels
          [] OTHER -> paths
  BY DEF SettingValues
<1>2. \A t : SoundGiven(Text(t)) /\ Text(t).type \in {"absent", "text"}  BY GivenParts, Zenon DEF SoundGiven
<1>3. SoundGiven(Flag(TRUE)) /\ SoundGiven(Flag(FALSE))  BY GivenParts, Zenon DEF SoundGiven
<1>4. SoundGiven(Absent) /\ Absent.type \in {"absent", "text"}  BY SoundAbsent, GivenParts, Zenon
<1>5. \A n \in Int : SoundGiven(Number(n))  BY GivenParts, Zenon DEF SoundGiven
<1>6. /\ SoundGiven(Number(-1)) /\ SoundGiven(Number(0)) /\ SoundGiven(Number(8)) /\ SoundGiven(Number(513))
      /\ SoundGiven(Number(2 * IntHalf + 8))
  <2>1. -1 \in Int /\ 0 \in Int /\ 8 \in Int /\ 513 \in Int /\ 2 * IntHalf + 8 \in Int  BY IntHalfAssumption
  <2> QED BY <1>5, <2>1, Zenon
<1>7. \A x \in numbers : SoundGiven(x)  BY <1>2, <1>4, <1>6
<1>8. \A x \in flags : SoundGiven(x)  BY <1>2, <1>3, <1>4, Zenon
<1>9. \A x \in levels : SoundGiven(x)  BY <1>2, <1>4, Zenon
<1>10. \A x \in paths : SoundGiven(x) /\ x.type \in {"absent", "text"}  BY <1>2, <1>4, Zenon
<1> HIDE DEF numbers, flags, levels, paths
<1>11. SoundGiven(g)
  <2>1. g \in numbers \/ g \in flags \/ g \in levels \/ g \in paths
    BY <1>1 DEF Keys
  <2> QED BY <1>7, <1>8, <1>9, <1>10, <2>1, Zenon
<1>12. key = "path" => g \in paths  BY <1>1
<1> QED BY <1>10, <1>11, <1>12, Zenon

\* A layer that sets one key is sound if what it sets is.
LEMMA SoundSets ==
  ASSUME NEW key \in Keys, NEW g \in SettingValues(key)
  PROVE  SoundFile(Sets(key, g)) /\ SoundEnvironment(Sets(key, g))
<1>1. DOMAIN Sets(key, g) = Keys /\ \A k \in Keys : Sets(key, g)[k] = IF k = key THEN g ELSE Absent
  BY DefaultValues, Zenon DEF Sets
<1>2. SoundGiven(g) /\ (key = "path" => g.type \in {"absent", "text"})  BY SoundValues, Zenon
<1>3. Absent.type \in {"absent", "text"}  BY GivenParts, Zenon
<1>4. "path" \in Keys  BY Zenon DEF Keys
<1>5. SoundFile(Sets(key, g))  BY <1>1, <1>2, SoundAbsent, Zenon DEF SoundFile
<1>6. Sets(key, g)["path"].type \in {"absent", "text"}
  <2>1. CASE key = "path"  BY <1>1, <1>2, <1>4, <2>1, Zenon
  <2>2. CASE key # "path"  BY <1>1, <1>3, <1>4, <2>2, Zenon
  <2> QED BY <2>1, <2>2
<1> QED BY <1>5, <1>6, Zenon DEF SoundEnvironment

LEMMA SoundCommandLine == \A flags \in Flags : SoundFlags(flags)
<1> SUFFICES ASSUME NEW flags \in Flags PROVE SoundFlags(flags)  OBVIOUS
<1>0. \/ flags \in [quiet : BOOLEAN, verbose : BOOLEAN, level : {Empty, "loud", "debug", "error"},
                    timeout : {Absent}, db : {Absent}, noDb : {FALSE}]
      \/ flags \in [quiet : {FALSE}, verbose : {FALSE}, level : {Empty}, timeout : TimeoutFlags, db : DbFlags,
                    noDb : BOOLEAN]
  BY Zenon DEF Flags
<1>1. flags.timeout \in TimeoutFlags /\ flags.db \in DbFlags
  <2>1. Absent \in TimeoutFlags /\ Absent \in DbFlags  BY Zenon DEF TimeoutFlags, DbFlags
  <2> QED BY <1>0, <2>1, Zenon
<1>2. flags.quiet \in BOOLEAN /\ flags.noDb \in BOOLEAN /\ flags.verbose \in BOOLEAN  BY <1>0, Zenon
<1>3. 5 \in Int  OBVIOUS
<1>4. SoundGiven(flags.timeout)
  <2>1. SoundGiven(Text("x")) /\ SoundGiven(Number(5))  BY <1>3, GivenParts, Zenon DEF SoundGiven
  <2> QED BY <1>1, <2>1, SoundAbsent, Zenon DEF TimeoutFlags
<1>5. SoundGiven(flags.db) /\ flags.db.type \in {"absent", "text"}
  <2>1. \A t : SoundGiven(Text(t)) /\ Text(t).type \in {"absent", "text"}  BY GivenParts, Zenon DEF SoundGiven
  <2>2. SoundGiven(Absent) /\ Absent.type \in {"absent", "text"}  BY SoundAbsent, GivenParts, Zenon
  <2> QED BY <1>1, <2>1, <2>2, Zenon DEF DbFlags
<1> QED BY <1>2, <1>4, <1>5, Zenon DEF SoundFlags

\* The layers of every item hold no surprise: each setting comes from the first
\* layer with a usable value, and the limits hold.
THEOREM AlwaysLayered == DecisionsSpec => []SettingsLayered
<1>1. IsItem => SettingsLayered
  <2> DEFINE built == BuildConfig(item.file, item.environment, item.dotEnv, item.flags)
             set(key) == IF item.environment[key] = Absent THEN item.dotEnv[key] ELSE item.environment[key]
             fromFlags(key) == CASE key = "level" -> IF item.flags.quiet THEN Text("error")
                                                     ELSE IF item.flags.verbose THEN Text("debug")
                                                     ELSE Text(item.flags.level)
                                 [] key = "timeout" -> item.flags.timeout
                                 [] key = "path" -> item.flags.db
                                 [] key = "database" -> IF item.flags.noDb THEN Flag(FALSE)
                                                        ELSE IF item.flags.db # Absent THEN Flag(TRUE) ELSE Absent
                                 [] OTHER -> Absent
             layers(key) == <<fromFlags(key), set(key), item.file[key]>>
             usable(key) == {i \in 1..3 : Usable(key, layers(key)[i])}
             given(key) == IF usable(key) = {} THEN Default[key]
                           ELSE layers(key)[CHOOSE i \in usable(key) : \A j \in usable(key) : i <= j].value
  <2> SUFFICES ASSUME IsItem, Is("setting"), ~built.error
               PROVE  /\ \A key \in DOMAIN Default :
                           built.config[key] = IF key = "workers" THEN Narrow(given(key)) ELSE given(key)
                      /\ built.config.timeout >= 0 /\ EffectiveWorkers(built.config, 0) \in 1..512
    BY DEF SettingsLayered
  <2>1. SettingItem  BY ItemOf
  <2>2. PICK key \in DOMAIN Default, flags \in Flags :
          \E f \in SettingValues(key), e \in SettingValues(key), d \in SettingValues(key) :
            item = [topic |-> "setting", file |-> Sets(key, f), environment |-> Sets(key, e),
                    dotEnv |-> Sets(key, d), flags |-> flags]
    BY <2>1, Zenon DEF SettingItem
  <2>3. PICK f \in SettingValues(key), e \in SettingValues(key), d \in SettingValues(key) :
          item = [topic |-> "setting", file |-> Sets(key, f), environment |-> Sets(key, e),
                  dotEnv |-> Sets(key, d), flags |-> flags]
    BY <2>2, Zenon
  <2>4. /\ item.file = Sets(key, f) /\ item.environment = Sets(key, e)
        /\ item.dotEnv = Sets(key, d) /\ item.flags = flags
    BY <2>3
  <2>5. key \in Keys  BY DefaultValues, Zenon
  <2>6. /\ SoundFile(item.file) /\ SoundEnvironment(item.environment)
        /\ SoundEnvironment(item.dotEnv) /\ SoundFlags(item.flags)
    BY <2>4, <2>5, SoundSets, SoundCommandLine, Zenon
  <2>7. AcceptedAs(built, item.file, item.environment, item.dotEnv, item.flags)  BY Zenon DEF AcceptedAs
  <2>8. \A k \in Keys : fromFlags(k) = FlagLayer(item.flags, k) /\ set(k) = SetLayer(item.environment, item.dotEnv, k)
    BY Zenon DEF FlagLayer, SetLayer
  <2> HIDE DEF built, fromFlags, set
  <2>9. \A k \in Keys :
          built.config[k] =
            AsKept(k, Layered(k, FlagLayer(item.flags, k), SetLayer(item.environment, item.dotEnv, k), item.file[k]))
    BY <2>6, <2>7, HighestLayerWins
  <2>10. \A k \in Keys : given(k) = Layered(k, fromFlags(k), set(k), item.file[k])
    <3>1. \A k : given(k) = FirstOf(k, <<fromFlags(k), set(k), item.file[k]>>)  BY Zenon DEF FirstOf
    <3> HIDE DEF given
    <3> QED BY <3>1, FirstLayer, Zenon
  <2>11. \A k \in Keys : built.config[k] = AsKept(k, given(k))
    <3> HIDE DEF given
    <3> QED BY <2>8, <2>9, <2>10, Zenon
  <2>12. built.config.workers \in 0..512 /\ built.config.timeout >= 0  BY <2>7, Built
  <2>13. EffectiveWorkers(built.config, 0) \in 1..512
    <3>1. PICK w : w = built.config.workers  OBVIOUS
    <3>2. EffectiveWorkers(built.config, 0) = IF w > 0 THEN w ELSE 4  BY <3>1 DEF EffectiveWorkers
    <3> QED BY <2>12, <3>1, <3>2
  <2>14. \A k \in DOMAIN Default :
           built.config[k] = IF k = "workers" THEN Narrow(given(k)) ELSE given(k)
    <3> HIDE DEF given
    <3> QED BY <2>11, DefaultValues, Zenon DEF AsKept
  <2> QED BY <2>12, <2>13, <2>14, Zenon
<1> QED BY <1>1, AlwaysItem, PTL
-----------------------------------------------------------------------------
(* Routes.                                                                 *)

Registers(f, routes, n) == f = [i \in 0..n |-> IF i = 0 THEN routes ELSE AddRoute(f[i - 1], ApiRoutes[i])]

LEMMA RegisteringExists ==
  ASSUME NEW routes, NEW m \in Nat
  PROVE  \E f : Registers(f, routes, m)
<1> DEFINE D == {n \in Nat : \E f : Registers(f, routes, n)}
<1>1. 0 \in D
  <2>1. PICK f : f = [i \in 0..0 |-> routes]  OBVIOUS
  <2>2. f = [i \in 0..0 |-> IF i = 0 THEN routes ELSE AddRoute(f[i - 1], ApiRoutes[i])]  BY <2>1
  <2>3. Registers(f, routes, 0)  BY <2>2, Zenon DEF Registers
  <2> QED BY <2>3
<1>2. ASSUME NEW n \in Nat, n \in D PROVE n + 1 \in D
  <2>1. PICK f : Registers(f, routes, n)  BY <1>2
  <2>2. f = [i \in 0..n |-> IF i = 0 THEN routes ELSE AddRoute(f[i - 1], ApiRoutes[i])]
    BY <2>1, Zenon DEF Registers
  <2>3. PICK g : g = [i \in 0..(n + 1) |-> IF i <= n THEN f[i] ELSE AddRoute(f[n], ApiRoutes[i])]  OBVIOUS
  <2>4. \A i \in 0..n : g[i] = f[i]  BY <2>3
  <2>5. ASSUME NEW i \in 0..(n + 1)
        PROVE  g[i] = IF i = 0 THEN routes ELSE AddRoute(g[i - 1], ApiRoutes[i])
    <3>1. CASE i = 0
      <4>1. g[0] = f[0] /\ f[0] = routes  BY <2>2, <2>4
      <4> QED BY <3>1, <4>1
    <3>2. CASE i \in 1..n
      <4>1. i \in 0..n /\ i - 1 \in 0..n /\ i # 0  BY <3>2
      <4>2. f[i] = AddRoute(f[i - 1], ApiRoutes[i])  BY <2>2, <4>1
      <4> QED BY <2>4, <4>1, <4>2
    <3>3. CASE i = n + 1
      <4>1. ~(i <= n) /\ i # 0 /\ i - 1 = n /\ n \in 0..n  BY <3>3
      <4>2. g[i] = AddRoute(f[n], ApiRoutes[i])  BY <2>3, <4>1
      <4> QED BY <2>4, <4>1, <4>2
    <3> QED BY <3>1, <3>2, <3>3
  <2>6. g = [i \in 0..(n + 1) |-> IF i = 0 THEN routes ELSE AddRoute(g[i - 1], ApiRoutes[i])]
    <3>1. g = [i \in 0..(n + 1) |-> g[i]]  BY <2>3
    <3> QED BY <2>5, <3>1, Zenon
  <2>7. Registers(g, routes, n + 1)  BY <2>6, Zenon DEF Registers
  <2> QED BY <2>7
<1> HIDE DEF D
<1>3. m \in D  BY <1>1, <1>2, SetInduction
<1> QED BY <1>3 DEF D

\* The calls of registerRoutes() one after the other.
LEMMA RegistersAll ==
  ASSUME NEW routes, Len(ApiRoutes) \in Nat
  PROVE  \E f : /\ RegisterRoutes(routes) = f[Len(ApiRoutes)]
                /\ f[0] = routes
                /\ \A i \in 1..Len(ApiRoutes) : f[i] = AddRoute(f[i - 1], ApiRoutes[i])
<1> DEFINE f == CHOOSE f : Registers(f, routes, Len(ApiRoutes))
<1>1. RegisterRoutes(routes) = f[Len(ApiRoutes)]  BY DEF RegisterRoutes, Registers
<1>2. Registers(f, routes, Len(ApiRoutes))
  <2>1. \E g : Registers(g, routes, Len(ApiRoutes))  BY RegisteringExists, Zenon
  <2> QED BY <2>1, Zenon
<1> HIDE DEF f
<1>3. PICK n \in Nat : n = Len(ApiRoutes)  OBVIOUS
<1>4. f = [i \in 0..n |-> IF i = 0 THEN routes ELSE AddRoute(f[i - 1], ApiRoutes[i])]
  BY <1>2, <1>3, Zenon DEF Registers
<1>5. \A i \in 0..n : f[i] = IF i = 0 THEN routes ELSE AddRoute(f[i - 1], ApiRoutes[i])  BY <1>4, Zenon
<1>6. f[0] = routes /\ \A i \in 1..n : f[i] = AddRoute(f[i - 1], ApiRoutes[i])  BY <1>5
<1> QED BY <1>1, <1>3, <1>6

\* The routes of the API: what tells them apart is the method, the length and
\* the second segment, or the third where nothing is captured.
LEMMA ApiRows ==
  /\ Len(ApiRoutes) = 16 /\ DOMAIN ApiRoutes = 1..16
  /\ ApiRoutes[1] = Get(<<"api", "health">>) /\ ApiRoutes[2] = Get(<<"api", "tests">>)
  /\ ApiRoutes[3] = Get(<<"api", "suites">>) /\ ApiRoutes[4] = Post(<<"api", "runs">>)
  /\ ApiRoutes[5] = Get(<<"api", "runs">>) /\ ApiRoutes[6] = Get(<<"api", "runs", Capture>>)
  /\ ApiRoutes[7] = Get(<<"api", "runs", Capture, "results">>) /\ ApiRoutes[8] = Get(<<"api", "stats">>)
  /\ ApiRoutes[9] = Get(<<"api", "history">>) /\ ApiRoutes[10] = Get(<<"api", "flaky">>)
  /\ ApiRoutes[11] = Get(<<"api", "diagnostics">>) /\ ApiRoutes[12] = Get(<<"api", "diagnostics", "gpu">>)
  /\ ApiRoutes[13] = Get(<<"api", "ai", "status">>) /\ ApiRoutes[14] = Post(<<"api", "ai", "generate-tests">>)
  /\ ApiRoutes[15] = Post(<<"api", "ai", "analyze-failure">>) /\ ApiRoutes[16] = Get(<<"api">>)
BY DEF ApiRoutes
\* Its parts: method, length, and the segments that matter.
RowIs(route, method, length, second, third) ==
  /\ route.method = method /\ Len(route.segments) = length /\ DOMAIN route.segments = 1..length
  /\ length >= 2 => route.segments[2] = second
  /\ length >= 3 => route.segments[3] = third
  /\ route = [method |-> method, segments |-> route.segments]

LEMMA RowsOf ==
  ASSUME NEW a, NEW b, NEW c, NEW d, NEW any
  PROVE  /\ RowIs(Get(<<a>>), "GET", 1, any, any) /\ RowIs(Get(<<a, b>>), "GET", 2, b, any)
         /\ RowIs(Get(<<a, b, c>>), "GET", 3, b, c) /\ RowIs(Get(<<a, b, c, d>>), "GET", 4, b, c)
         /\ RowIs(Post(<<a, b>>), "POST", 2, b, any) /\ RowIs(Post(<<a, b, c>>), "POST", 3, b, c)
<1>1. RowIs(Get(<<a>>), "GET", 1, any, any)  BY DEF RowIs, Get
<1>2. RowIs(Get(<<a, b>>), "GET", 2, b, any)  BY DEF RowIs, Get
<1>3. RowIs(Get(<<a, b, c>>), "GET", 3, b, c)  BY DEF RowIs, Get
<1>4. RowIs(Get(<<a, b, c, d>>), "GET", 4, b, c)  BY DEF RowIs, Get
<1>5. RowIs(Post(<<a, b>>), "POST", 2, b, any)  BY DEF RowIs, Post
<1>6. RowIs(Post(<<a, b, c>>), "POST", 3, b, c)  BY DEF RowIs, Post
<1> QED BY <1>1, <1>2, <1>3, <1>4, <1>5, <1>6

Told(method, length, second, third) ==
  /\ \A i \in 1..16 : RowIs(ApiRoutes[i], method[i], length[i], second[i], third[i])
  /\ \A i \in 1..16 : length[i] \in 1..4
  /\ \A i \in 1..16 : length[i] >= 2 => second[i] # Capture
  /\ \A i \in 1..16 : length[i] = 3 /\ second[i] # "runs" => third[i] # Capture
  /\ \A i, j \in 1..16 :
       /\ method[i] = method[j] /\ length[i] = length[j]
       /\ length[i] >= 2 => second[i] = second[j]
       /\ length[i] = 3 /\ second[i] # "runs" => third[i] = third[j]
       => i = j

LEMMA ApiTold == \E method, length, second, third : Told(method, length, second, third)
<1> DEFINE method == <<"GET", "GET", "GET", "POST", "GET", "GET", "GET", "GET",
                       "GET", "GET", "GET", "GET", "GET", "POST", "POST", "GET">>
           length == <<2, 2, 2, 2, 2, 3, 4, 2, 2, 2, 2, 3, 3, 3, 3, 1>>
           second == <<"health", "tests", "suites", "runs", "runs", "runs", "runs", "stats",
                       "history", "flaky", "diagnostics", "diagnostics", "ai", "ai", "ai", "none">>
           third == <<"none", "none", "none", "none", "none", ":", ":", "none",
                      "none", "none", "none", "gpu", "status", "generate-tests", "analyze-failure", "none">>
<1>1. /\ method[1] = "GET" /\ method[2] = "GET" /\ method[3] = "GET" /\ method[4] = "POST"
      /\ method[5] = "GET" /\ method[6] = "GET" /\ method[7] = "GET" /\ method[8] = "GET"
      /\ method[9] = "GET" /\ method[10] = "GET" /\ method[11] = "GET" /\ method[12] = "GET"
      /\ method[13] = "GET" /\ method[14] = "POST" /\ method[15] = "POST" /\ method[16] = "GET"
  OBVIOUS
<1>2. /\ length[1] = 2 /\ length[2] = 2 /\ length[3] = 2 /\ length[4] = 2
      /\ length[5] = 2 /\ length[6] = 3 /\ length[7] = 4 /\ length[8] = 2
      /\ length[9] = 2 /\ length[10] = 2 /\ length[11] = 2 /\ length[12] = 3
      /\ length[13] = 3 /\ length[14] = 3 /\ length[15] = 3 /\ length[16] = 1
  OBVIOUS
<1>3. /\ second[1] = "health" /\ second[2] = "tests" /\ second[3] = "suites" /\ second[4] = "runs"
      /\ second[5] = "runs" /\ second[6] = "runs" /\ second[7] = "runs" /\ second[8] = "stats"
      /\ second[9] = "history" /\ second[10] = "flaky" /\ second[11] = "diagnostics" /\ second[12] = "diagnostics"
      /\ second[13] = "ai" /\ second[14] = "ai" /\ second[15] = "ai" /\ second[16] = "none"
  OBVIOUS
<1>4. /\ third[1] = "none" /\ third[2] = "none" /\ third[3] = "none" /\ third[4] = "none"
      /\ third[5] = "none" /\ third[6] = ":" /\ third[7] = ":" /\ third[8] = "none"
      /\ third[9] = "none" /\ third[10] = "none" /\ third[11] = "none" /\ third[12] = "gpu"
      /\ third[13] = "status" /\ third[14] = "generate-tests" /\ third[15] = "analyze-failure" /\ third[16] = "none"
  OBVIOUS
<1> HIDE DEF method, length, second, third
<1>5. ASSUME NEW i \in 1..16 PROVE RowIs(ApiRoutes[i], method[i], length[i], second[i], third[i])
  <2>1. RowIs(Get(<<"api", "health">>), "GET", 2, "health", "none")  BY RowsOf, Zenon
  <2>2. RowIs(Get(<<"api", "tests">>), "GET", 2, "tests", "none")  BY RowsOf, Zenon
  <2>3. RowIs(Get(<<"api", "suites">>), "GET", 2, "suites", "none")  BY RowsOf, Zenon
  <2>4. RowIs(Post(<<"api", "runs">>), "POST", 2, "runs", "none")  BY RowsOf, Zenon
  <2>5. RowIs(Get(<<"api", "runs">>), "GET", 2, "runs", "none")  BY RowsOf, Zenon
  <2>6. RowIs(Get(<<"api", "runs", Capture>>), "GET", 3, "runs", Capture)  BY RowsOf, Zenon
  <2>7. RowIs(Get(<<"api", "runs", Capture, "results">>), "GET", 4, "runs", Capture)  BY RowsOf, Zenon
  <2>8. RowIs(Get(<<"api", "stats">>), "GET", 2, "stats", "none")  BY RowsOf, Zenon
  <2>9. RowIs(Get(<<"api", "history">>), "GET", 2, "history", "none")  BY RowsOf, Zenon
  <2>10. RowIs(Get(<<"api", "flaky">>), "GET", 2, "flaky", "none")  BY RowsOf, Zenon
  <2>11. RowIs(Get(<<"api", "diagnostics">>), "GET", 2, "diagnostics", "none")  BY RowsOf, Zenon
  <2>12. RowIs(Get(<<"api", "diagnostics", "gpu">>), "GET", 3, "diagnostics", "gpu")  BY RowsOf, Zenon
  <2>13. RowIs(Get(<<"api", "ai", "status">>), "GET", 3, "ai", "status")  BY RowsOf, Zenon
  <2>14. RowIs(Post(<<"api", "ai", "generate-tests">>), "POST", 3, "ai", "generate-tests")  BY RowsOf, Zenon
  <2>15. RowIs(Post(<<"api", "ai", "analyze-failure">>), "POST", 3, "ai", "analyze-failure")  BY RowsOf, Zenon
  <2>16. RowIs(Get(<<"api">>), "GET", 1, "none", "none")  BY RowsOf, Zenon
  <2>17. RowIs(ApiRoutes[1], method[1], length[1], second[1], third[1])
    BY <1>1, <1>2, <1>3, <1>4, <2>1, ApiRows, Zenon
  <2>18. RowIs(ApiRoutes[2], method[2], length[2], second[2], third[2])
    BY <1>1, <1>2, <1>3, <1>4, <2>2, ApiRows, Zenon
  <2>19. RowIs(ApiRoutes[3], method[3], length[3], second[3], third[3])
    BY <1>1, <1>2, <1>3, <1>4, <2>3, ApiRows, Zenon
  <2>20. RowIs(ApiRoutes[4], method[4], length[4], second[4], third[4])
    BY <1>1, <1>2, <1>3, <1>4, <2>4, ApiRows, Zenon
  <2>21. RowIs(ApiRoutes[5], method[5], length[5], second[5], third[5])
    BY <1>1, <1>2, <1>3, <1>4, <2>5, ApiRows, Zenon
  <2>22. RowIs(ApiRoutes[6], method[6], length[6], second[6], third[6])
    BY <1>1, <1>2, <1>3, <1>4, <2>6, ApiRows, Zenon DEF Capture
  <2>23. RowIs(ApiRoutes[7], method[7], length[7], second[7], third[7])
    BY <1>1, <1>2, <1>3, <1>4, <2>7, ApiRows, Zenon DEF Capture
  <2>24. RowIs(ApiRoutes[8], method[8], length[8], second[8], third[8])
    BY <1>1, <1>2, <1>3, <1>4, <2>8, ApiRows, Zenon
  <2>25. RowIs(ApiRoutes[9], method[9], length[9], second[9], third[9])
    BY <1>1, <1>2, <1>3, <1>4, <2>9, ApiRows, Zenon
  <2>26. RowIs(ApiRoutes[10], method[10], length[10], second[10], third[10])
    BY <1>1, <1>2, <1>3, <1>4, <2>10, ApiRows, Zenon
  <2>27. RowIs(ApiRoutes[11], method[11], length[11], second[11], third[11])
    BY <1>1, <1>2, <1>3, <1>4, <2>11, ApiRows, Zenon
  <2>28. RowIs(ApiRoutes[12], method[12], length[12], second[12], third[12])
    BY <1>1, <1>2, <1>3, <1>4, <2>12, ApiRows, Zenon
  <2>29. RowIs(ApiRoutes[13], method[13], length[13], second[13], third[13])
    BY <1>1, <1>2, <1>3, <1>4, <2>13, ApiRows, Zenon
  <2>30. RowIs(ApiRoutes[14], method[14], length[14], second[14], third[14])
    BY <1>1, <1>2, <1>3, <1>4, <2>14, ApiRows, Zenon
  <2>31. RowIs(ApiRoutes[15], method[15], length[15], second[15], third[15])
    BY <1>1, <1>2, <1>3, <1>4, <2>15, ApiRows, Zenon
  <2>32. RowIs(ApiRoutes[16], method[16], length[16], second[16], third[16])
    BY <1>1, <1>2, <1>3, <1>4, <2>16, ApiRows, Zenon
  <2>33. i = 1 \/ i = 2 \/ i = 3 \/ i = 4 \/ i = 5 \/ i = 6 \/ i = 7 \/ i = 8 \/ i = 9 \/ i = 10 \/ i = 11 \/ i = 12
         \/ i = 13 \/ i = 14 \/ i = 15 \/ i = 16
    OBVIOUS
  <2> QED BY <2>17, <2>18, <2>19, <2>20, <2>21, <2>22, <2>23, <2>24, <2>25, <2>26,
            <2>27, <2>28, <2>29, <2>30, <2>31, <2>32, <2>33, Zenon
<1>6. \A i \in 1..16 : length[i] \in 1..4  BY <1>2
<1>7. \A i \in 1..16 : length[i] >= 2 => second[i] # Capture  BY <1>2, <1>3 DEF Capture
<1>8. \A i \in 1..16 : length[i] = 3 /\ second[i] # "runs" => third[i] # Capture  BY <1>2, <1>3, <1>4 DEF Capture
<1>9. \A i, j \in 1..16 :
        /\ method[i] = method[j] /\ length[i] = length[j]
        /\ length[i] >= 2 => second[i] = second[j]
        /\ length[i] = 3 /\ second[i] # "runs" => third[i] = third[j]
        => i = j
  BY <1>1, <1>2, <1>3, <1>4
<1>10. Told(method, length, second, third)  BY <1>5, <1>6, <1>7, <1>8, <1>9, Zenon DEF Told
<1> QED BY <1>10, Zenon

LEMMA RowParts ==
  ASSUME NEW route, NEW m, NEW l, NEW b, NEW c, RowIs(route, m, l, b, c), l \in 1..4
  PROVE  /\ route.method = m /\ Len(route.segments) = l /\ DOMAIN route.segments = 1..l
         /\ l >= 2 => route.segments[2] = b
         /\ l >= 3 => route.segments[3] = c
BY DEF RowIs

\* No route hides another: a path written for one fits it only.
LEMMA OwnPath ==
  ASSUME NEW i \in 1..16, NEW j \in 1..16
  PROVE  Fits(ApiRoutes[j], Concrete(ApiRoutes[i])) /\ ApiRoutes[j].method = ApiRoutes[i].method <=> j = i
<1>1. PICK method, length, second, third : Told(method, length, second, third)  BY ApiTold, Zenon
<1>2. /\ \A k \in 1..16 : RowIs(ApiRoutes[k], method[k], length[k], second[k], third[k]) /\ length[k] \in 1..4
      /\ \A k \in 1..16 : length[k] >= 2 => second[k] # Capture
      /\ \A k \in 1..16 : length[k] = 3 /\ second[k] # "runs" => third[k] # Capture
      /\ \A k, n \in 1..16 :
           /\ method[k] = method[n] /\ length[k] = length[n]
           /\ length[k] >= 2 => second[k] = second[n]
           /\ length[k] = 3 /\ second[k] # "runs" => third[k] = third[n]
           => k = n
  BY <1>1, Zenon DEF Told
<1>3. PICK r, s : r = ApiRoutes[i] /\ s = ApiRoutes[j]  OBVIOUS
<1>0. /\ RowIs(r, method[i], length[i], second[i], third[i]) /\ length[i] \in 1..4
      /\ RowIs(s, method[j], length[j], second[j], third[j]) /\ length[j] \in 1..4
  BY <1>2, <1>3, Zenon
<1>4. /\ r.method = method[i] /\ Len(r.segments) = length[i] /\ DOMAIN r.segments = 1..length[i]
      /\ length[i] >= 2 => r.segments[2] = second[i]
      /\ length[i] >= 3 => r.segments[3] = third[i]
  BY <1>0, RowParts, Zenon
<1>5. /\ s.method = method[j] /\ Len(s.segments) = length[j] /\ DOMAIN s.segments = 1..length[j]
      /\ length[j] >= 2 => s.segments[2] = second[j]
      /\ length[j] >= 3 => s.segments[3] = third[j]
  BY <1>0, RowParts, Zenon
<1>6. length[i] \in 1..4 /\ length[j] \in 1..4  BY <1>2
<1>7. PICK path : path = Concrete(r)  OBVIOUS
<1>8. /\ path = [k \in 1..length[i] |-> IF r.segments[k] = Capture THEN "x" ELSE r.segments[k]]
      /\ DOMAIN path = 1..length[i]
      /\ \A k \in 1..length[i] : path[k] = IF r.segments[k] = Capture THEN "x" ELSE r.segments[k]
  BY <1>4, <1>7 DEF Concrete
<1>9. Len(path) = length[i]
  <2>1. PICK n \in Nat : n = length[i]  BY <1>6
  <2>2. path = [k \in 1..n |-> path[k]]  BY <1>8, <2>1
  <2> QED BY <2>1, <2>2
<1>10. Fits(s, path) <=> length[j] = length[i] /\ \A k \in 1..length[i] : s.segments[k] \in {Capture, path[k]}
  BY <1>5, <1>8, <1>9, Zenon DEF Fits
<1>11. ASSUME j = i PROVE Fits(s, path) /\ s.method = r.method
  <2>1. s = r  BY <1>3, <1>11
  <2>2. \A k \in 1..length[i] : r.segments[k] \in {Capture, path[k]}  BY <1>8
  <2> QED BY <1>10, <1>11, <2>1, <2>2, Zenon
<1>12. ASSUME Fits(s, path), s.method = r.method PROVE j = i
  <2>1. length[j] = length[i] /\ \A k \in 1..length[i] : s.segments[k] \in {Capture, path[k]}  BY <1>10, <1>12, Zenon
  <2>2. length[i] >= 2 => second[i] = second[j]
    <3> SUFFICES ASSUME length[i] >= 2 PROVE second[i] = second[j]  OBVIOUS
    <3>1. 2 \in 1..length[i] /\ length[j] >= 2  BY <1>6, <2>1
    <3>2. second[i] # Capture /\ second[j] # Capture  BY <1>2, <3>1
    <3>3. path[2] = second[i]  BY <1>4, <1>8, <3>1, <3>2
    <3>4. s.segments[2] = second[j] /\ s.segments[2] \in {Capture, path[2]}  BY <1>5, <2>1, <3>1
    <3> QED BY <3>2, <3>3, <3>4
  <2>3. length[i] = 3 /\ second[i] # "runs" => third[i] = third[j]
    <3> SUFFICES ASSUME length[i] = 3, second[i] # "runs" PROVE third[i] = third[j]  OBVIOUS
    <3>1. 3 \in 1..length[i] /\ length[j] = 3 /\ length[i] >= 2 /\ length[i] >= 3 /\ length[j] >= 3  BY <2>1
    <3>2. third[i] # Capture /\ third[j] # Capture  BY <1>2, <2>2, <3>1
    <3>3. path[3] = third[i]  BY <1>4, <1>8, <3>1, <3>2
    <3>4. s.segments[3] = third[j] /\ s.segments[3] \in {Capture, path[3]}  BY <1>5, <2>1, <3>1
    <3> QED BY <3>2, <3>3, <3>4
  <2> QED BY <1>2, <1>4, <1>5, <1>12, <2>1, <2>2, <2>3
<1> QED BY <1>3, <1>7, <1>11, <1>12, Zenon
\* The table after each of the calls.
RegisteredBy(f, routes) ==
  /\ RegisterRoutes(routes) = f[16] /\ f[0] = routes
  /\ \A i \in 1..16 : f[i] = AddRoute(f[i - 1], ApiRoutes[i])

LEMMA CallsOf == ASSUME NEW routes PROVE \E f : RegisteredBy(f, routes)
<1>1. Len(ApiRoutes) = 16 /\ Len(ApiRoutes) \in Nat  BY ApiRows
<1>2. PICK f : /\ RegisterRoutes(routes) = f[Len(ApiRoutes)]
               /\ f[0] = routes
               /\ \A i \in 1..Len(ApiRoutes) : f[i] = AddRoute(f[i - 1], ApiRoutes[i])
  BY <1>1, RegistersAll, Zenon
<1>3. RegisteredBy(f, routes)  BY <1>1, <1>2, Zenon DEF RegisteredBy
<1> QED BY <1>3, Zenon

ApiRoutesIn(S) == \A i \in 1..16 : ApiRoutes[i] \in S
HasUpTo(routes, n) == \A i \in 1..n : \E k \in 1..Len(routes) : routes[k] = ApiRoutes[i]

\* What one call leaves of the table.
Added(S, routes, route, table) ==
  /\ (\E i \in 1..Len(routes) : routes[i] = route) => table = routes
  /\ ~(\E i \in 1..Len(routes) : routes[i] = route) => table = Append(routes, route)
  /\ table \in Seq(S) /\ Len(routes) <= Len(table)
  /\ \A k \in 1..Len(routes) : table[k] = routes[k]
  /\ \E k \in 1..Len(table) : table[k] = route

LEMMA AddRouteDoes ==
  ASSUME NEW S, NEW routes, NEW route, routes \in Seq(S), route \in S
  PROVE  Added(S, routes, route, AddRoute(routes, route))
<1>1. PICK n \in Nat : n = Len(routes) /\ DOMAIN routes = 1..n  OBVIOUS
<1>2. (\E i \in 1..n : routes[i] = route) => AddRoute(routes, route) = routes  BY <1>1, Zenon DEF AddRoute
<1>3. ~(\E i \in 1..n : routes[i] = route) => AddRoute(routes, route) = Append(routes, route)
  BY <1>1, Zenon DEF AddRoute
<1>4. CASE \E i \in 1..n : routes[i] = route
  <2>1. AddRoute(routes, route) = routes  BY <1>2, <1>4, Zenon
  <2>2. Added(S, routes, route, routes)
    <3>1. n <= n  OBVIOUS
    <3> QED BY <1>1, <1>4, <3>1, Zenon DEF Added
  <2> QED BY <2>1, <2>2, Zenon
<1>5. CASE ~(\E i \in 1..n : routes[i] = route)
  <2>1. PICK longer : longer = Append(routes, route)  OBVIOUS
  <2>2. longer \in Seq(S) /\ Len(longer) = n + 1 /\ longer[n + 1] = route /\ \A k \in 1..n : longer[k] = routes[k]
    BY <1>1, <2>1
  <2>3. AddRoute(routes, route) = longer  BY <1>3, <1>5, <2>1, Zenon
  <2>4. n <= n + 1 /\ n + 1 \in 1..(n + 1)  OBVIOUS
  <2>5. Added(S, routes, route, longer)  BY <1>1, <1>5, <2>1, <2>2, <2>4, Zenon DEF Added
  <2> QED BY <2>3, <2>5, Zenon
<1> QED BY <1>4, <1>5

\* A table that has the routes already is not changed by registerRoutes().
LEMMA AllThere ==
  ASSUME NEW S, NEW routes, routes \in Seq(S), ApiRoutesIn(S), HasUpTo(routes, 16)
  PROVE  RegisterRoutes(routes) = routes
<1>1. PICK f : RegisteredBy(f, routes)  BY CallsOf, Zenon
<1>2. /\ RegisterRoutes(routes) = f[16] /\ f[0] = routes
      /\ \A i \in 1..16 : f[i] = AddRoute(f[i - 1], ApiRoutes[i])
  BY <1>1, Zenon DEF RegisteredBy
<1> DEFINE D == {n \in Nat : n <= 16 => f[n] = routes}
<1>3. 0 \in D  BY <1>2
<1>4. ASSUME NEW n \in Nat, n \in D PROVE n + 1 \in D
  <2> SUFFICES ASSUME n + 1 <= 16 PROVE f[n + 1] = routes  OBVIOUS
  <2>1. n + 1 \in 1..16 /\ n <= 16 /\ (n + 1) - 1 = n  OBVIOUS
  <2>2. f[n + 1] = AddRoute(routes, ApiRoutes[n + 1])  BY <1>2, <1>4, <2>1
  <2>3. \E k \in 1..Len(routes) : routes[k] = ApiRoutes[n + 1]  BY <2>1, Zenon DEF HasUpTo
  <2>4. ApiRoutes[n + 1] \in S  BY <2>1, Zenon DEF ApiRoutesIn
  <2>5. AddRoute(routes, ApiRoutes[n + 1]) = routes
    <3>1. Added(S, routes, ApiRoutes[n + 1], AddRoute(routes, ApiRoutes[n + 1]))  BY <2>4, AddRouteDoes, Zenon
    <3> QED BY <2>3, <3>1, Zenon DEF Added
  <2> QED BY <2>2, <2>5
<1> HIDE DEF D
<1>5. 16 \in D  BY <1>3, <1>4, SetInduction
<1>6. f[16] = routes  BY <1>5 DEF D
<1> QED BY <1>2, <1>6

\* RestApiServer::start() may be called again, whatever other routes a server
\* has: registering the API a second time changes nothing.
THEOREM RegisteredOnce ==
  ASSUME NEW S, NEW routes, routes \in Seq(S), ApiRoutesIn(S)
  PROVE  RegisterRoutes(RegisterRoutes(routes)) = RegisterRoutes(routes)
<1>1. PICK f : RegisteredBy(f, routes)  BY CallsOf, Zenon
<1>2. /\ RegisterRoutes(routes) = f[16] /\ f[0] = routes
      /\ \A i \in 1..16 : f[i] = AddRoute(f[i - 1], ApiRoutes[i])
  BY <1>1, Zenon DEF RegisteredBy
<1> DEFINE D == {n \in Nat : n <= 16 => f[n] \in Seq(S) /\ HasUpTo(f[n], n)}
<1>3. 0 \in D
  <2>1. HasUpTo(f[0], 0)  BY DEF HasUpTo
  <2>2. f[0] \in Seq(S)  BY <1>2, Zenon
  <2> QED BY <2>1, <2>2
<1>4. ASSUME NEW n \in Nat, n \in D PROVE n + 1 \in D
  <2> SUFFICES ASSUME n + 1 <= 16 PROVE f[n + 1] \in Seq(S) /\ HasUpTo(f[n + 1], n + 1)  OBVIOUS
  <2>1. n + 1 \in 1..16 /\ n <= 16 /\ (n + 1) - 1 = n  OBVIOUS
  <2>2. PICK a, b, r : a = f[n] /\ b = f[n + 1] /\ r = ApiRoutes[n + 1]  OBVIOUS
  <2>3. b = AddRoute(a, r)  BY <1>2, <2>1, <2>2
  <2>4. r \in S  BY <2>1, <2>2, Zenon DEF ApiRoutesIn
  <2>5. a \in Seq(S) /\ HasUpTo(a, n)  BY <1>4, <2>1, <2>2
  <2>6. /\ b \in Seq(S) /\ Len(a) <= Len(b) /\ \A k \in 1..Len(a) : b[k] = a[k]
        /\ \E k \in 1..Len(b) : b[k] = r
    <3>1. Added(S, a, r, b)  BY <2>3, <2>4, <2>5, AddRouteDoes, Zenon
    <3> QED BY <3>1, Zenon DEF Added
  <2>7. Len(a) \in Nat /\ Len(b) \in Nat  BY <2>5, <2>6
  <2>8. \A k \in 1..Len(a) : k \in 1..Len(b) /\ b[k] = a[k]  BY <2>6, <2>7
  <2>9. \A i \in 1..n : \E k \in 1..Len(b) : b[k] = ApiRoutes[i]  BY <2>5, <2>8, Zenon DEF HasUpTo
  <2>10. \A i \in 1..(n + 1) : i \in 1..n \/ i = n + 1  OBVIOUS
  <2>11. HasUpTo(b, n + 1)  BY <2>2, <2>6, <2>9, <2>10, Zenon DEF HasUpTo
  <2> QED BY <2>2, <2>6, <2>11
<1> HIDE DEF D
<1>5. 16 \in D  BY <1>3, <1>4, SetInduction
<1>6. 16 \in Nat /\ 16 <= 16  OBVIOUS
<1>7. f[16] \in Seq(S) /\ HasUpTo(f[16], 16)  BY <1>5, <1>6 DEF D
<1>8. RegisterRoutes(f[16]) = f[16]  BY <1>7, AllThere, Zenon
<1> QED BY <1>2, <1>8, Zenon

\* A fresh server has exactly the routes of the API, in the order of the calls.
LEMMA FreshTable == ApiTable = ApiRoutes
<1> DEFINE S == {ApiRoutes[i] : i \in 1..16}
<1>1. ApiRoutesIn(S)  BY Zenon DEF ApiRoutesIn
<1> HIDE DEF S
<1>2. PICK f : RegisteredBy(f, <<>>)  BY CallsOf
<1>3. /\ ApiTable = f[16] /\ f[0] = <<>>
      /\ \A i \in 1..16 : f[i] = AddRoute(f[i - 1], ApiRoutes[i])
  BY <1>2, Zenon DEF RegisteredBy, ApiTable
<1> DEFINE FirstOnes(g, n) == g \in Seq(S) /\ Len(g) = n /\ \A k \in 1..n : g[k] = ApiRoutes[k]
           D == {n \in Nat : n <= 16 => FirstOnes(f[n], n)}
<1>4. 0 \in D
  <2>1. FirstOnes(<<>>, 0)  OBVIOUS
  <2> HIDE DEF FirstOnes
  <2> QED BY <1>3, <2>1
<1>5. ASSUME NEW n \in Nat, n \in D PROVE n + 1 \in D
  <2> HIDE DEF FirstOnes
  <2> SUFFICES ASSUME n + 1 <= 16 PROVE FirstOnes(f[n + 1], n + 1)  OBVIOUS
  <2>1. n + 1 \in 1..16 /\ n <= 16 /\ (n + 1) - 1 = n  OBVIOUS
  <2>2. PICK a, b, r : a = f[n] /\ b = f[n + 1] /\ r = ApiRoutes[n + 1]  OBVIOUS
  <2>3. b = AddRoute(a, r)  BY <1>3, <2>1, <2>2
  <2>4. r \in S  BY <1>1, <2>1, <2>2, Zenon DEF ApiRoutesIn
  <2>5. FirstOnes(a, n)  BY <1>5, <2>1, <2>2
  <2>6. a \in Seq(S) /\ Len(a) = n /\ \A k \in 1..n : a[k] = ApiRoutes[k]  BY <2>5 DEF FirstOnes
  <2>7. ~(\E k \in 1..Len(a) : a[k] = r)
    <3> SUFFICES ASSUME NEW k \in 1..n, a[k] = r PROVE FALSE  BY <2>6
    <3>1. k \in 1..16 /\ k # n + 1  BY <2>1
    <3>2. ApiRoutes[k] = ApiRoutes[n + 1]  BY <2>2, <2>6
    <3> QED BY <2>1, <3>1, <3>2, OwnPath, Zenon
  <2>8. b = Append(a, r)
    <3>1. Added(S, a, r, b)  BY <2>3, <2>4, <2>6, AddRouteDoes, Zenon
    <3> QED BY <2>7, <3>1, Zenon DEF Added
  <2>9. b \in Seq(S) /\ Len(b) = n + 1 /\ b[n + 1] = r /\ \A k \in 1..n : b[k] = a[k]  BY <2>4, <2>6, <2>8
  <2>10. \A k \in 1..(n + 1) : k \in 1..n \/ k = n + 1  OBVIOUS
  <2>11. FirstOnes(b, n + 1)  BY <2>2, <2>6, <2>9, <2>10, Zenon DEF FirstOnes
  <2> QED BY <2>2, <2>11
<1>6. 16 \in D
  <2> HIDE DEF D
  <2> QED BY <1>4, <1>5, SetInduction
<1>7. PICK g : g = f[16]  OBVIOUS
<1>8. g \in Seq(S) /\ Len(g) = 16 /\ \A k \in 1..16 : g[k] = ApiRoutes[k]
  <2>1. 16 \in Nat /\ 16 <= 16  OBVIOUS
  <2>2. FirstOnes(f[16], 16)
    <3> HIDE DEF FirstOnes
    <3> QED BY <1>6, <2>1
  <2> QED BY <1>7, <2>2, Zenon
<1>9. g = [k \in 1..16 |-> g[k]]  BY <1>8
<1>10. ApiRoutes = [k \in 1..16 |-> ApiRoutes[k]]  BY DEF ApiRoutes
<1>11. g = ApiRoutes  BY <1>8, <1>9, <1>10, Zenon
<1> QED BY <1>3, <1>7, <1>11
\* What is asked of the table for one request.
Routed(method, path) ==
  LET answer == Unrouted(ApiTable, Files, method, path)
      other == \E i \in DOMAIN ApiRoutes : Len(ApiRoutes[i].segments) = Len(path)
                 /\ \A k \in DOMAIN path : ApiRoutes[i].segments[k] \in {Capture, path[k]}
  IN /\ RegisterRoutes(ApiTable) = ApiTable
     /\ \A i \in DOMAIN ApiRoutes :
          Match(ApiTable, ApiRoutes[i].method, Concrete(ApiRoutes[i])) = ApiRoutes[i]
     /\ answer = 200 => \A k \in DOMAIN path : path[k] # ".."
     /\ answer = 405 => other
     /\ Match(ApiTable, method, path) # NoRoute => other

\* Whatever is asked for, by any method and any path: no route hides another, a
\* file below the directory is all that is served, and 405 is kept for paths
\* that another method has.
THEOREM RoutesAnswer ==
  ASSUME NEW method, NEW path
  PROVE  Routed(method, path)
<1>1. Len(ApiRoutes) = 16 /\ DOMAIN ApiRoutes = 1..16  BY ApiRows
<1>2. ApiTable = ApiRoutes  BY FreshTable
<1>3. RegisterRoutes(ApiTable) = ApiTable
  <2> DEFINE S == {ApiRoutes[i] : i \in 1..16}
  <2>1. ApiRoutesIn(S)  BY Zenon DEF ApiRoutesIn
  <2> HIDE DEF S
  <2>2. <<>> \in Seq(S)  OBVIOUS
  <2> QED BY <2>1, <2>2, RegisteredOnce DEF ApiTable
<1>4. ASSUME NEW i \in 1..16
      PROVE  Match(ApiRoutes, ApiRoutes[i].method, Concrete(ApiRoutes[i])) = ApiRoutes[i]
  <2> DEFINE fitting == {j \in DOMAIN ApiRoutes : /\ Fits(ApiRoutes[j], Concrete(ApiRoutes[i]))
                                                  /\ ApiRoutes[j].method = ApiRoutes[i].method}
             first == CHOOSE j \in fitting : \A k \in fitting : j <= k
  <2>1. \A j : j \in fitting <=> j = i  BY <1>1, OwnPath, Zenon
  <2>2. Match(ApiRoutes, ApiRoutes[i].method, Concrete(ApiRoutes[i])) =
          IF fitting = {} THEN NoRoute ELSE ApiRoutes[first]
    BY Zenon DEF Match
  <2> HIDE DEF fitting
  <2>3. \E j \in fitting : \A k \in fitting : j <= k
    <3>1. i <= i  OBVIOUS
    <3> QED BY <2>1, <3>1
  <2>4. first \in fitting  BY <2>3, Zenon
  <2> HIDE DEF first
  <2>5. first = i /\ fitting # {}  BY <2>1, <2>4, Zenon
  <2> QED BY <2>2, <2>5, Zenon
<1> DEFINE other == \E i \in DOMAIN ApiRoutes : Len(ApiRoutes[i].segments) = Len(path)
                      /\ \A k \in DOMAIN path : ApiRoutes[i].segments[k] \in {Capture, path[k]}
           answer == Unrouted(ApiRoutes, Files, method, path)
           static == ServeStatic(Files, method, path)
           mismatch == MethodMismatch(ApiRoutes, method, path)
<1>5. answer = IF static # 0 THEN static ELSE IF mismatch THEN 405 ELSE 404  BY Zenon DEF Unrouted
<1>6. mismatch => other  BY Zenon DEF MethodMismatch, Fits
<1>7. Match(ApiRoutes, method, path) # NoRoute => other
  <2> DEFINE fitting == {i \in DOMAIN ApiRoutes : Fits(ApiRoutes[i], path) /\ ApiRoutes[i].method = method}
  <2>1. fitting # {} => other  BY Zenon DEF Fits
  <2>2. fitting = {} => Match(ApiRoutes, method, path) = NoRoute  BY Zenon DEF Match
  <2> HIDE DEF fitting, other
  <2> QED BY <2>1, <2>2, Zenon
<1>8. static = 200 => \A k \in DOMAIN path : path[k] # ".."
  <2> DEFINE relative == IF path = <<>> THEN <<"index.html">> ELSE path
  <2>1. static = IF Files = {} \/ method \notin {"GET", "HEAD"} THEN 0
                 ELSE IF ~IsSafeRelativePath(relative) THEN 400
                 ELSE IF relative \in Files THEN 200 ELSE 0
    BY Zenon DEF ServeStatic
  <2>2. path = <<>> => DOMAIN path = {}  OBVIOUS
  <2>3. path # <<>> /\ IsSafeRelativePath(relative) => \A k \in DOMAIN path : path[k] # ".."
    BY Zenon DEF IsSafeRelativePath
  <2>4. ASSUME static = 200 PROVE IsSafeRelativePath(relative)
    <3> HIDE DEF static, relative
    <3> QED BY <2>1, <2>4
  <2> QED BY <2>2, <2>3, <2>4, Zenon
<1>9. static \in {0, 200, 400}
  <2> DEFINE relative == IF path = <<>> THEN <<"index.html">> ELSE path
  <2>1. static = IF Files = {} \/ method \notin {"GET", "HEAD"} THEN 0
                 ELSE IF ~IsSafeRelativePath(relative) THEN 400
                 ELSE IF relative \in Files THEN 200 ELSE 0
    BY Zenon DEF ServeStatic
  <2> HIDE DEF static, relative
  <2> QED BY <2>1
<1>10. (answer = 200 => static = 200) /\ (answer = 405 => mismatch)
  <2> HIDE DEF answer, static, mismatch
  <2> QED BY <1>5, <1>9
<1>11. /\ answer = 200 => \A k \in DOMAIN path : path[k] # ".."
       /\ answer = 405 => other
  <2> HIDE DEF answer, static, mismatch, other
  <2> QED BY <1>6, <1>8, <1>10, Zenon
<1>12. \A i \in DOMAIN ApiRoutes :
         Match(ApiTable, ApiRoutes[i].method, Concrete(ApiRoutes[i])) = ApiRoutes[i]
  BY <1>1, <1>2, <1>4, Zenon
<1> QED BY <1>2, <1>3, <1>7, <1>11, <1>12, Zenon DEF Routed

\* The same of the requests the model checker looks at.
THEOREM AlwaysDistinct == DecisionsSpec => []RoutesDistinct
<1>1. RoutesDistinct
  <2>1. Routed(item.method, item.path)  BY RoutesAnswer, Zenon
  <2> QED BY <2>1, Zenon DEF RoutesDistinct, Routed
<1> QED BY <1>1, PTL
-----------------------------------------------------------------------------
(* Globs.                                                                  *)

PlaceOf(p, t, s, x) == [p |-> p, t |-> t, starPattern |-> s, starText |-> x]

LEMMA PlaceParts ==
  ASSUME NEW p, NEW t, NEW s, NEW x
  PROVE  /\ PlaceOf(p, t, s, x).p = p /\ PlaceOf(p, t, s, x).t = t
         /\ PlaceOf(p, t, s, x).starPattern = s /\ PlaceOf(p, t, s, x).starText = x
BY DEF PlaceOf

\* A place in the loop, written with the lengths of pattern and text.
IsPlace(n, m, p, t, s, x) ==
  p \in 1..(n + 1) /\ t \in 1..(m + 1) /\ s \in 0..n /\ x \in 1..(m + 1) /\ s < p /\ x <= t

LEMMA PlacesAre ==
  ASSUME NEW pattern, NEW text, NEW at
  PROVE  at \in Positions(pattern, text) <=>
           \E p, t, s, x : at = PlaceOf(p, t, s, x) /\ IsPlace(Len(pattern), Len(text), p, t, s, x)
<1> DEFINE n == Len(pattern)
           m == Len(text)
           R == [p : 1..(n + 1), t : 1..(m + 1), starPattern : 0..n, starText : 1..(m + 1)]
<1>1. at \in Positions(pattern, text) <=> at \in R /\ at.starPattern < at.p /\ at.starText <= at.t
  BY Zenon DEF Positions
<1>2. ASSUME at \in R, at.starPattern < at.p, at.starText <= at.t
      PROVE  \E p, t, s, x : at = PlaceOf(p, t, s, x) /\ IsPlace(n, m, p, t, s, x)
  <2>1. at = PlaceOf(at.p, at.t, at.starPattern, at.starText)  BY <1>2 DEF PlaceOf
  <2>2. IsPlace(n, m, at.p, at.t, at.starPattern, at.starText)  BY <1>2 DEF IsPlace
  <2> QED BY <2>1, <2>2, Zenon
<1>3. ASSUME NEW p, NEW t, NEW s, NEW x, at = PlaceOf(p, t, s, x), IsPlace(n, m, p, t, s, x)
      PROVE  at \in R /\ at.starPattern < at.p /\ at.starText <= at.t
  <2>1. at.p = p /\ at.t = t /\ at.starPattern = s /\ at.starText = x  BY <1>3, PlaceParts
  <2>2. at \in R  BY <1>3 DEF PlaceOf, IsPlace
  <2> QED BY <1>3, <2>1, <2>2, Zenon DEF IsPlace
<1> QED BY <1>1, <1>2, <1>3, Zenon

\* What one turn of the loop does.
LEMMA StepIs ==
  ASSUME NEW pattern, NEW text, NEW p, NEW t, NEW s, NEW x
  PROVE  GlobStep(pattern, text, PlaceOf(p, t, s, x)) =
           IF p <= Len(pattern) /\ pattern[p] \in {"?", text[t]} THEN PlaceOf(p + 1, t + 1, s, x)
           ELSE IF p <= Len(pattern) /\ pattern[p] = "*" THEN PlaceOf(p + 1, t, p, t)
           ELSE IF s # 0 THEN PlaceOf(s + 1, x + 1, s, x + 1)
           ELSE NoMatch
<1>1. PICK at : at = PlaceOf(p, t, s, x)  OBVIOUS
<1>2. at.p = p /\ at.t = t /\ at.starPattern = s /\ at.starText = x  BY <1>1, PlaceParts
<1>3. GlobStep(pattern, text, at) =
        IF at.p <= Len(pattern) /\ pattern[at.p] \in {"?", text[at.t]} THEN [at EXCEPT !.p = at.p + 1, !.t = at.t + 1]
        ELSE IF at.p <= Len(pattern) /\ pattern[at.p] \in {"*"}
          THEN [at EXCEPT !.starPattern = at.p, !.p = at.p + 1, !.starText = at.t]
        ELSE IF at.starPattern # 0 THEN BackToStar(at)
        ELSE NoMatch
  BY DEF GlobStep
<1>4. [at EXCEPT !.p = at.p + 1, !.t = at.t + 1] = PlaceOf(p + 1, t + 1, s, x)
  <2>1. [at EXCEPT !.p = at.p + 1, !.t = at.t + 1] = [[at EXCEPT !.p = p + 1] EXCEPT !.t = t + 1]  BY <1>2, Zenon
  <2>2. [at EXCEPT !.p = p + 1] = PlaceOf(p + 1, t, s, x)  BY <1>1 DEF PlaceOf
  <2>3. [PlaceOf(p + 1, t, s, x) EXCEPT !.t = t + 1] = PlaceOf(p + 1, t + 1, s, x)  BY DEF PlaceOf
  <2> QED BY <2>1, <2>2, <2>3, Zenon
<1>5. [at EXCEPT !.starPattern = at.p, !.p = at.p + 1, !.starText = at.t] = PlaceOf(p + 1, t, p, t)
  <2>1. [at EXCEPT !.starPattern = at.p, !.p = at.p + 1, !.starText = at.t] =
          [[[at EXCEPT !.starPattern = p] EXCEPT !.p = p + 1] EXCEPT !.starText = t]
    BY <1>2, Zenon
  <2>2. [at EXCEPT !.starPattern = p] = PlaceOf(p, t, p, x)  BY <1>1 DEF PlaceOf
  <2>3. [PlaceOf(p, t, p, x) EXCEPT !.p = p + 1] = PlaceOf(p + 1, t, p, x)  BY DEF PlaceOf
  <2>4. [PlaceOf(p + 1, t, p, x) EXCEPT !.starText = t] = PlaceOf(p + 1, t, p, t)  BY DEF PlaceOf
  <2> QED BY <2>1, <2>2, <2>3, <2>4, Zenon
<1>6. BackToStar(at) = PlaceOf(s + 1, x + 1, s, x + 1)
  <2>1. BackToStar(at) = [[[at EXCEPT !.p = s + 1] EXCEPT !.t = x + 1] EXCEPT !.starText = x + 1]
    <3>1. BackToStar(at) = [[[at EXCEPT !.p = at.starPattern + 1] EXCEPT !.t = at.starText + 1] EXCEPT !.starText = @ + 1]
      BY Zenon DEF BackToStar
    <3>2. [at EXCEPT !.p = at.starPattern + 1] = PlaceOf(s + 1, t, s, x)  BY <1>1, <1>2 DEF PlaceOf
    <3>3. [PlaceOf(s + 1, t, s, x) EXCEPT !.t = at.starText + 1] = PlaceOf(s + 1, x + 1, s, x)
      BY <1>2 DEF PlaceOf
    <3>4. PlaceOf(s + 1, x + 1, s, x).starText = x  BY PlaceParts
    <3> QED BY <1>2, <3>1, <3>2, <3>3, <3>4, Zenon
  <2>2. [at EXCEPT !.p = s + 1] = PlaceOf(s + 1, t, s, x)  BY <1>1 DEF PlaceOf
  <2>3. [PlaceOf(s + 1, t, s, x) EXCEPT !.t = x + 1] = PlaceOf(s + 1, x + 1, s, x)  BY DEF PlaceOf
  <2>4. [PlaceOf(s + 1, x + 1, s, x) EXCEPT !.starText = x + 1] = PlaceOf(s + 1, x + 1, s, x + 1)  BY DEF PlaceOf
  <2> QED BY <2>1, <2>2, <2>3, <2>4, Zenon
<1>7. pattern[p] \in {"*"} <=> pattern[p] = "*"  OBVIOUS
<1> QED BY <1>1, <1>2, <1>3, <1>4, <1>5, <1>6, <1>7, Zenon

LEMMA MoreTimes ==
  ASSUME NEW a \in Nat, NEW b \in Nat, NEW k \in Nat, a + 1 <= b
  PROVE  a * k + k <= b * k /\ a * k \in Nat /\ b * k \in Nat
<1>1. PICK d : d = b - (a + 1)  OBVIOUS
<1>2. d \in Nat /\ b = (a + 1) + d  BY <1>1
<1>3. ((a + 1) + d) * k = a * k + k + d * k  BY <1>2
<1>4. PICK u, v, w : u = a * k /\ v = d * k /\ w = b * k  OBVIOUS
<1>5. u \in Nat /\ v \in Nat  BY <1>2, <1>4
<1>6. w = u + k + v  BY <1>2, <1>3, <1>4
<1>7. u + k <= w /\ w \in Nat  BY <1>5, <1>6
<1> QED BY <1>4, <1>5, <1>7

\* Each turn comes further: behind a later star, to a later try of the same, or
\* on in the text.
Rank(text, p, t, s, x) == (s + x) * (Len(text) + 2) + t

LEMMA StepAdvances ==
  ASSUME NEW pattern, NEW text, Len(pattern) \in Nat, Len(text) \in Nat,
         NEW p, NEW t, NEW s, NEW x, IsPlace(Len(pattern), Len(text), p, t, s, x), t <= Len(text)
  PROVE  /\ p <= Len(pattern) => IsPlace(Len(pattern), Len(text), p + 1, t + 1, s, x)
         /\ p <= Len(pattern) => IsPlace(Len(pattern), Len(text), p + 1, t, p, t)
         /\ IsPlace(Len(pattern), Len(text), s + 1, x + 1, s, x + 1)
         /\ Rank(text, p, t, s, x) \in Nat
         /\ Rank(text, p, t, s, x) < Rank(text, p + 1, t + 1, s, x)
         /\ Rank(text, p, t, s, x) < Rank(text, p + 1, t, p, t)
         /\ Rank(text, p, t, s, x) < Rank(text, s + 1, x + 1, s, x + 1)
<1>1. PICK n \in Nat, m \in Nat : n = Len(pattern) /\ m = Len(text)  OBVIOUS
<1>2. p \in 1..(n + 1) /\ t \in 1..(m + 1) /\ s \in 0..n /\ x \in 1..(m + 1) /\ s < p /\ x <= t /\ t <= m
  BY <1>1, Zenon DEF IsPlace
<1>3. p <= n => IsPlace(n, m, p + 1, t + 1, s, x) /\ IsPlace(n, m, p + 1, t, p, t)  BY <1>2 DEF IsPlace
<1>4. IsPlace(n, m, s + 1, x + 1, s, x + 1)  BY <1>2 DEF IsPlace
<1>5. PICK k \in Nat : k = m + 2  OBVIOUS
<1>6. PICK a \in Nat, b \in Nat, c \in Nat : a = s + x /\ b = p + t /\ c = s + (x + 1)  BY <1>2
<1>7. a + 1 <= b /\ a + 1 <= c  BY <1>2, <1>6
<1>8. PICK u, v, w : u = a * k /\ v = b * k /\ w = c * k  OBVIOUS
<1>9. u \in Nat /\ v \in Nat /\ w \in Nat /\ u + k <= v /\ u + k <= w  BY <1>7, <1>8, MoreTimes
<1>10. /\ Rank(text, p, t, s, x) = u + t /\ Rank(text, p + 1, t + 1, s, x) = u + (t + 1)
       /\ Rank(text, p + 1, t, p, t) = v + t /\ Rank(text, s + 1, x + 1, s, x + 1) = w + (x + 1)
  BY <1>1, <1>5, <1>6, <1>8, Zenon DEF Rank
<1>11. /\ u + t \in Nat /\ u + t < u + (t + 1) /\ u + t < v + t /\ u + t < w + (x + 1)
  BY <1>2, <1>5, <1>9
<1> QED BY <1>1, <1>3, <1>4, <1>10, <1>11, Zenon
RankAt(text, at) == Rank(text, at.p, at.t, at.starPattern, at.starText)

LEMMA PlaceRank ==
  ASSUME NEW text, NEW p, NEW t, NEW s, NEW x
  PROVE  RankAt(text, PlaceOf(p, t, s, x)) = Rank(text, p, t, s, x)
<1>1. PICK at : at = PlaceOf(p, t, s, x)  OBVIOUS
<1>2. at.p = p /\ at.t = t /\ at.starPattern = s /\ at.starText = x  BY <1>1, PlaceParts
<1> QED BY <1>1, <1>2, Zenon DEF RankAt

RankLimit(pattern, text) == (Len(pattern) + Len(text) + 2) * (Len(text) + 2)

LEMMA RankRange ==
  ASSUME NEW pattern, NEW text, Len(pattern) \in Nat, Len(text) \in Nat, NEW at \in Positions(pattern, text)
  PROVE  /\ RankLimit(pattern, text) \in Nat
         /\ RankAt(text, at) \in Nat /\ RankAt(text, at) < RankLimit(pattern, text)
<1>1. PICK n \in Nat, m \in Nat : n = Len(pattern) /\ m = Len(text)  OBVIOUS
<1>2. PICK p, t, s, x : at = PlaceOf(p, t, s, x) /\ IsPlace(n, m, p, t, s, x)  BY <1>1, PlacesAre, Zenon
<1>3. p \in 1..(n + 1) /\ t \in 1..(m + 1) /\ s \in 0..n /\ x \in 1..(m + 1) /\ s < p /\ x <= t
  BY <1>2, Zenon DEF IsPlace
<1>4. PICK k \in Nat : k = m + 2  OBVIOUS
<1>5. PICK a \in Nat, b \in Nat : a = s + x /\ b = n + m + 2  BY <1>3
<1>6. a + 1 <= b  BY <1>3, <1>5
<1>7. PICK u, v : u = a * k /\ v = b * k  OBVIOUS
<1>8. u \in Nat /\ v \in Nat /\ u + k <= v  BY <1>6, <1>7, MoreTimes
<1>9. RankAt(text, at) = u + t
  <2>1. RankAt(text, at) = Rank(text, p, t, s, x)  BY <1>2, PlaceRank, Zenon
  <2> QED BY <1>1, <1>4, <1>5, <1>7, <2>1, Zenon DEF Rank
<1>10. RankLimit(pattern, text) = v  BY <1>1, <1>4, <1>5, <1>7, Zenon DEF RankLimit
<1>11. u + t \in Nat /\ u + t < v  BY <1>3, <1>4, <1>8
<1> QED BY <1>8, <1>9, <1>10, <1>11, Zenon

LEMMA TurnAdvances ==
  ASSUME NEW pattern, NEW text, Len(pattern) \in Nat, Len(text) \in Nat,
         NEW at \in Positions(pattern, text), ~(at.t > Len(text)),
         GlobStep(pattern, text, at) # NoMatch
  PROVE  /\ GlobStep(pattern, text, at) \in Positions(pattern, text)
         /\ RankAt(text, at) < RankAt(text, GlobStep(pattern, text, at))
<1>1. PICK p, t, s, x : at = PlaceOf(p, t, s, x) /\ IsPlace(Len(pattern), Len(text), p, t, s, x)
  BY PlacesAre, Zenon
<1>2. at.t = t /\ t \in 1..(Len(text) + 1)
  <2>1. t \in 1..(Len(text) + 1)  BY <1>1, Zenon DEF IsPlace
  <2> QED BY <1>1, <2>1, PlaceParts
<1>3. t <= Len(text)  BY <1>2
<1>4. RankAt(text, at) = Rank(text, p, t, s, x)  BY <1>1, PlaceRank, Zenon
<1>5. \A a, b, c, d : RankAt(text, PlaceOf(a, b, c, d)) = Rank(text, a, b, c, d)  BY PlaceRank, Zenon
<1>6. \A a, b, c, d : IsPlace(Len(pattern), Len(text), a, b, c, d) => PlaceOf(a, b, c, d) \in Positions(pattern, text)
  BY PlacesAre, Zenon
<1>7. PICK next : next = GlobStep(pattern, text, at)  OBVIOUS
<1>8. \/ p <= Len(pattern) /\ next = PlaceOf(p + 1, t + 1, s, x)
      \/ p <= Len(pattern) /\ next = PlaceOf(p + 1, t, p, t)
      \/ next = PlaceOf(s + 1, x + 1, s, x + 1)
  <2>1. next = IF p <= Len(pattern) /\ pattern[p] \in {"?", text[t]} THEN PlaceOf(p + 1, t + 1, s, x)
               ELSE IF p <= Len(pattern) /\ pattern[p] = "*" THEN PlaceOf(p + 1, t, p, t)
               ELSE IF s # 0 THEN PlaceOf(s + 1, x + 1, s, x + 1)
               ELSE NoMatch
    BY <1>1, <1>7, StepIs
  <2>2. next # NoMatch  BY <1>7
  <2> QED BY <2>1, <2>2, Zenon
<1>9. /\ p <= Len(pattern) => IsPlace(Len(pattern), Len(text), p + 1, t + 1, s, x)
      /\ p <= Len(pattern) => IsPlace(Len(pattern), Len(text), p + 1, t, p, t)
      /\ IsPlace(Len(pattern), Len(text), s + 1, x + 1, s, x + 1)
      /\ Rank(text, p, t, s, x) < Rank(text, p + 1, t + 1, s, x)
      /\ Rank(text, p, t, s, x) < Rank(text, p + 1, t, p, t)
      /\ Rank(text, p, t, s, x) < Rank(text, s + 1, x + 1, s, x + 1)
  BY <1>1, <1>3, StepAdvances, Zenon
<1>10. next \in Positions(pattern, text)  BY <1>6, <1>8, <1>9, Zenon
<1>11. RankAt(text, at) < RankAt(text, next)  BY <1>4, <1>5, <1>8, <1>9, Zenon
<1> QED BY <1>7, <1>10, <1>11, Zenon

\* The loop from a place on, for a function that says how it goes on from later
\* places.
Turn(f, pattern, text, at) ==
  IF at.t > Len(text) THEN \A i \in at.p..Len(pattern) : pattern[i] = "*"
  ELSE GlobStep(pattern, text, at) # NoMatch /\ f[GlobStep(pattern, text, at)]

Searches(f, pattern, text, S) == f = [at \in S |-> Turn(f, pattern, text, at)]

LEMMA SearchExists ==
  ASSUME NEW pattern, NEW text, Len(pattern) \in Nat, Len(text) \in Nat
  PROVE  \E f : Searches(f, pattern, text, Positions(pattern, text))
<1> DEFINE limit == RankLimit(pattern, text)
           S(n) == {at \in Positions(pattern, text) : RankAt(text, at) + n >= limit}
           D == {n \in Nat : \E f : Searches(f, pattern, text, S(n))}
<1>1. limit \in Nat
  <2>1. (Len(pattern) + Len(text) + 2) * (Len(text) + 2) \in Nat  OBVIOUS
  <2> QED BY <2>1 DEF RankLimit
<1>2. 0 \in D
  <2>1. S(0) = {}
    <3>1. \A at \in Positions(pattern, text) : ~(RankAt(text, at) + 0 >= limit)
      <4> TAKE at \in Positions(pattern, text)
      <4>1. RankAt(text, at) \in Nat /\ RankAt(text, at) < limit  BY RankRange
      <4> HIDE DEF limit
      <4> QED BY <1>1, <4>1
    <3> QED BY <3>1, Zenon
  <2>2. PICK f : f = [at \in S(0) |-> TRUE]  OBVIOUS
  <2>3. f = [at \in S(0) |-> Turn(f, pattern, text, at)]
    <3> HIDE DEF S
    <3> QED BY <2>1, <2>2, Zenon
  <2>4. Searches(f, pattern, text, S(0))  BY <2>3, Zenon DEF Searches
  <2>5. 0 \in Nat /\ \E g : Searches(g, pattern, text, S(0))  BY <2>4
  <2> QED BY <2>5, Zenon
<1>3. ASSUME NEW n \in Nat, n \in D PROVE n + 1 \in D
  <2>1. PICK f : Searches(f, pattern, text, S(n))  BY <1>3, Zenon
  <2>2. f = [at \in S(n) |-> Turn(f, pattern, text, at)]  BY <2>1, Zenon DEF Searches
  <2>3. \A at \in S(n) : f[at] = Turn(f, pattern, text, at)  BY <2>2, Zenon
  <2>4. PICK g : g = [at \in S(n + 1) |-> IF at \in S(n) THEN f[at] ELSE Turn(f, pattern, text, at)]  OBVIOUS
  <2>5. \A at \in S(n) : at \in S(n + 1)
    <3> SUFFICES ASSUME NEW at \in Positions(pattern, text), RankAt(text, at) + n >= limit
                 PROVE  RankAt(text, at) + (n + 1) >= limit
      BY Zenon
    <3>1. RankAt(text, at) \in Nat  BY RankRange
    <3> HIDE DEF limit
    <3> QED BY <1>1, <3>1
  <2>6. ASSUME NEW at \in S(n + 1), ~(at.t > Len(text)), GlobStep(pattern, text, at) # NoMatch
        PROVE  GlobStep(pattern, text, at) \in S(n)
    <3>1. PICK next : next = GlobStep(pattern, text, at)  OBVIOUS
    <3>2. at \in Positions(pattern, text) /\ RankAt(text, at) + (n + 1) >= limit  BY Zenon
    <3>3. next \in Positions(pattern, text) /\ RankAt(text, at) < RankAt(text, next)
      BY <2>6, <3>1, <3>2, TurnAdvances
    <3>4. RankAt(text, at) \in Nat /\ RankAt(text, next) \in Nat  BY <3>2, <3>3, RankRange
    <3>5. RankAt(text, next) + n >= limit
      <4> HIDE DEF limit
      <4> QED BY <1>1, <3>2, <3>3, <3>4
    <3> QED BY <3>1, <3>3, <3>5, Zenon
  <2> HIDE DEF S
  <2>7. \A at \in S(n) : g[at] = f[at]  BY <2>4, <2>5, Zenon
  <2>8. \A at \in S(n + 1) : Turn(g, pattern, text, at) = Turn(f, pattern, text, at)
    BY <2>6, <2>7, Zenon DEF Turn
  <2>9. \A at \in S(n + 1) : g[at] = Turn(g, pattern, text, at)  BY <2>3, <2>4, <2>8, Zenon
  <2>10. g = [at \in S(n + 1) |-> g[at]]  BY <2>4
  <2>11. g = [at \in S(n + 1) |-> Turn(g, pattern, text, at)]  BY <2>9, <2>10, Zenon
  <2>12. Searches(g, pattern, text, S(n + 1))  BY <2>11, Zenon DEF Searches
  <2>13. n + 1 \in Nat /\ \E h : Searches(h, pattern, text, S(n + 1))  BY <2>12
  <2> QED BY <2>13, Zenon
<1>4. limit \in D
  <2> HIDE DEF D, limit
  <2> QED BY <1>1, <1>2, <1>3, SetInduction
<1>5. S(limit) = Positions(pattern, text)
  <2>1. ASSUME NEW at \in Positions(pattern, text) PROVE RankAt(text, at) + limit >= limit
    <3>1. RankAt(text, at) \in Nat  BY RankRange
    <3> HIDE DEF limit
    <3> QED BY <1>1, <3>1
  <2> HIDE DEF limit
  <2> QED BY <2>1, Zenon
<1> QED BY <1>4, <1>5, Zenon
\* What the rest of a pattern means from a place of the text on, for a function
\* that says it of the pattern behind its first character.
Cell(f, pattern, text, p, t) ==
  IF p > Len(pattern) THEN t > Len(text)
  ELSE IF pattern[p] = "*" THEN \E n \in t..(Len(text) + 1) : f[p + 1][n]
  ELSE t <= Len(text) /\ pattern[p] \in {"?", text[t]} /\ f[p + 1][t + 1]

Walking(f, pattern, text, p) == [t \in 1..(Len(text) + 1) |-> Cell(f, pattern, text, p, t)]

Reads(f, pattern, text, S) == f = [p \in S |-> Walking(f, pattern, text, p)]

LEMMA ReadingExists ==
  ASSUME NEW pattern, NEW text, Len(pattern) \in Nat, Len(text) \in Nat
  PROVE  \E f : Reads(f, pattern, text, 1..(Len(pattern) + 1))
<1>1. PICK l \in Nat : l = Len(pattern) + 1  OBVIOUS
<1> DEFINE S(n) == {p \in 1..l : p + n > l}
           D == {n \in Nat : \E f : Reads(f, pattern, text, S(n))}
<1>2. 0 \in D
  <2>1. S(0) = {}  OBVIOUS
  <2>2. PICK f : f = [p \in S(0) |-> TRUE]  OBVIOUS
  <2>3. f = [p \in S(0) |-> Walking(f, pattern, text, p)]
    <3> HIDE DEF S
    <3> QED BY <2>1, <2>2, Zenon
  <2>4. Reads(f, pattern, text, S(0))  BY <2>3, Zenon DEF Reads
  <2>5. 0 \in Nat /\ \E g : Reads(g, pattern, text, S(0))  BY <2>4
  <2> QED BY <2>5, Zenon
<1>3. ASSUME NEW n \in Nat, n \in D PROVE n + 1 \in D
  <2>1. PICK f : Reads(f, pattern, text, S(n))  BY <1>3, Zenon
  <2>2. f = [p \in S(n) |-> Walking(f, pattern, text, p)]  BY <2>1, Zenon DEF Reads
  <2>3. \A p \in S(n) : f[p] = Walking(f, pattern, text, p)  BY <2>2, Zenon
  <2>4. PICK g : g = [p \in S(n + 1) |-> IF p \in S(n) THEN f[p] ELSE Walking(f, pattern, text, p)]  OBVIOUS
  <2>5. \A p \in S(n) : p \in S(n + 1)  OBVIOUS
  <2>6. \A p \in S(n + 1) : ~(p > Len(pattern)) => p + 1 \in S(n)
    <3> SUFFICES ASSUME NEW p \in 1..l, p + (n + 1) > l, ~(p > Len(pattern)) PROVE p + 1 \in S(n)  BY Zenon
    <3>1. p + 1 \in 1..l /\ (p + 1) + n > l  BY <1>1
    <3> QED BY <3>1, Zenon
  <2> HIDE DEF S
  <2>7. \A p \in S(n) : g[p] = f[p]  BY <2>4, <2>5, Zenon
  <2>8. \A p \in S(n + 1) : ~(p > Len(pattern)) => g[p + 1] = f[p + 1]  BY <2>6, <2>7, Zenon
  <2>9. \A p \in S(n + 1) : Walking(g, pattern, text, p) = Walking(f, pattern, text, p)
    <3> SUFFICES ASSUME NEW p \in S(n + 1) PROVE Walking(g, pattern, text, p) = Walking(f, pattern, text, p)
      OBVIOUS
    <3>1. \A t : Cell(g, pattern, text, p, t) = Cell(f, pattern, text, p, t)
      <4>1. CASE p > Len(pattern)  BY <4>1, Zenon DEF Cell
      <4>2. CASE ~(p > Len(pattern))
        <5>1. g[p + 1] = f[p + 1]  BY <2>8, <4>2, Zenon
        <5> QED BY <4>2, <5>1, Zenon DEF Cell
      <4> QED BY <4>1, <4>2
    <3> QED BY <3>1, Zenon DEF Walking
  <2>10. \A p \in S(n + 1) : g[p] = Walking(g, pattern, text, p)  BY <2>3, <2>4, <2>9, Zenon
  <2>11. g = [p \in S(n + 1) |-> g[p]]  BY <2>4
  <2>12. g = [p \in S(n + 1) |-> Walking(g, pattern, text, p)]  BY <2>10, <2>11, Zenon
  <2>13. Reads(g, pattern, text, S(n + 1))  BY <2>12, Zenon DEF Reads
  <2>14. n + 1 \in Nat /\ \E h : Reads(h, pattern, text, S(n + 1))  BY <2>13
  <2> QED BY <2>14, Zenon
<1>4. l \in D
  <2> HIDE DEF D
  <2> QED BY <1>2, <1>3, SetInduction
<1>5. S(l) = 1..l  OBVIOUS
<1> QED BY <1>1, <1>4, <1>5, Zenon

\* What Means() says, place by place.
IsMeaning(M, pattern, text) ==
  \A p \in 1..(Len(pattern) + 1), t \in 1..(Len(text) + 1) : M[p][t] <=> Cell(M, pattern, text, p, t)

LEMMA MeansIs ==
  ASSUME NEW pattern, NEW text, Len(pattern) \in Nat, Len(text) \in Nat
  PROVE  \E M : IsMeaning(M, pattern, text) /\ (Means(pattern, text) <=> M[1][1])
<1> DEFINE M == CHOOSE f : Reads(f, pattern, text, 1..(Len(pattern) + 1))
<1>1. Means(pattern, text) = M[1][1]  BY DEF Means, Reads, Walking, Cell
<1>2. Reads(M, pattern, text, 1..(Len(pattern) + 1))
  <2>1. \E f : Reads(f, pattern, text, 1..(Len(pattern) + 1))  BY ReadingExists, Zenon
  <2> QED BY <2>1, Zenon
<1> HIDE DEF M
<1>3. \A p \in 1..(Len(pattern) + 1) : M[p] = Walking(M, pattern, text, p)
  <2>1. M = [p \in 1..(Len(pattern) + 1) |-> Walking(M, pattern, text, p)]  BY <1>2, Zenon DEF Reads
  <2> QED BY <2>1, Zenon
<1>4. \A p, t : t \in 1..(Len(text) + 1) => Walking(M, pattern, text, p)[t] = Cell(M, pattern, text, p, t)
  BY Zenon DEF Walking
<1>5. IsMeaning(M, pattern, text)  BY <1>3, <1>4, Zenon DEF IsMeaning
<1> QED BY <1>1, <1>5, Zenon

\* What GlobMatch() says, place by place.
IsSearch(G, pattern, text) ==
  \A at \in Positions(pattern, text) : G[at] <=> Turn(G, pattern, text, at)

LEMMA MatchIs ==
  ASSUME NEW pattern, NEW text, Len(pattern) \in Nat, Len(text) \in Nat
  PROVE  \E G : IsSearch(G, pattern, text) /\ (GlobMatch(pattern, text) <=> G[AtStart])
<1> DEFINE G == CHOOSE f : Searches(f, pattern, text, Positions(pattern, text))
<1>1. GlobMatch(pattern, text) = G[AtStart]  BY DEF GlobMatch, Searches, Turn
<1>2. Searches(G, pattern, text, Positions(pattern, text))
  <2>1. \E f : Searches(f, pattern, text, Positions(pattern, text))  BY SearchExists, Zenon
  <2> QED BY <2>1, Zenon
<1> HIDE DEF G
<1>3. G = [at \in Positions(pattern, text) |-> Turn(G, pattern, text, at)]  BY <1>2, Zenon DEF Searches
<1>4. IsSearch(G, pattern, text)  BY <1>3, Zenon DEF IsSearch
<1> QED BY <1>1, <1>4, Zenon
\* The three ways to read a place.
Meaning(M, pattern, text, n, m) ==
  IsMeaning(M, pattern, text) /\ n = Len(pattern) /\ m = Len(text) /\ n \in Nat /\ m \in Nat

CellSays(M, pattern, text, n, m, p, t) ==
  /\ p = n + 1 => (M[p][t] <=> t = m + 1)
  /\ p <= n /\ pattern[p] = "*" => (M[p][t] <=> \E k \in t..(m + 1) : M[p + 1][k])
  /\ p <= n /\ pattern[p] # "*" =>
       (M[p][t] <=> t <= m /\ pattern[p] \in {"?", text[t]} /\ M[p + 1][t + 1])

LEMMA CellIs ==
  ASSUME NEW pattern, NEW text, NEW M, NEW n, NEW m, Meaning(M, pattern, text, n, m),
         NEW p, NEW t, p \in 1..(n + 1), t \in 1..(m + 1)
  PROVE  CellSays(M, pattern, text, n, m, p, t)
<1>0. IsMeaning(M, pattern, text) /\ n = Len(pattern) /\ m = Len(text) /\ n \in Nat /\ m \in Nat
  BY Zenon DEF Meaning
<1>1. M[p][t] <=> Cell(M, pattern, text, p, t)  BY <1>0, Zenon DEF IsMeaning
<1>2. (p > n <=> p = n + 1) /\ (t > m <=> t = m + 1) /\ (p <= n <=> ~(p > n))  BY <1>0
<1> QED BY <1>0, <1>1, <1>2, Zenon DEF Cell, CellSays

\* At the end of the text only stars match.
LEMMA OnlyStarsLeft ==
  ASSUME NEW pattern, NEW text, NEW M, NEW n \in Nat, NEW m \in Nat, Meaning(M, pattern, text, n, m), NEW q \in 1..(n + 1)
  PROVE  M[q][m + 1] <=> \A i \in q..n : pattern[i] = "*"
<1> DEFINE Holds1(p) == M[p][m + 1] <=> \A i \in p..n : pattern[i] = "*"
           D == {d \in Nat : \A p \in 1..(n + 1) : p + d = n + 1 => Holds1(p)}
<1>0. m + 1 \in 1..(m + 1)  OBVIOUS
<1>1. 0 \in D
  <2> SUFFICES ASSUME NEW p \in 1..(n + 1), p + 0 = n + 1 PROVE Holds1(p)  BY Zenon
  <2>1. p = n + 1 /\ \A i \in p..n : FALSE  OBVIOUS
  <2>a. CellSays(M, pattern, text, n, m, p, m + 1)  BY <1>0, CellIs
  <2>2. M[p][m + 1]  BY <2>1, <2>a, Zenon DEF CellSays
  <2> QED BY <2>1, <2>2, Zenon
<1>2. ASSUME NEW d \in Nat, d \in D PROVE d + 1 \in D
  <2> SUFFICES ASSUME NEW p \in 1..(n + 1), p + (d + 1) = n + 1 PROVE Holds1(p)
    <3>1. d + 1 \in Nat  OBVIOUS
    <3> QED BY <3>1, Zenon
  <2>1. p <= n /\ p + 1 \in 1..(n + 1) /\ (p + 1) + d = n + 1  OBVIOUS
  <2>2. Holds1(p + 1)  BY <1>2, <2>1, Zenon
  <2>3. \A k : k \in (m + 1)..(m + 1) <=> k = m + 1  OBVIOUS
  <2>4. \A i : i \in p..n <=> i = p \/ i \in (p + 1)..n  BY <2>1
  <2>a. CellSays(M, pattern, text, n, m, p, m + 1)  BY <1>0, CellIs
  <2>5. CASE pattern[p] = "*"
    <3>1. M[p][m + 1] <=> \E k \in (m + 1)..(m + 1) : M[p + 1][k]  BY <2>1, <2>5, <2>a, Zenon DEF CellSays
    <3> QED BY <2>2, <2>3, <2>4, <2>5, <3>1, Zenon
  <2>6. CASE pattern[p] # "*"
    <3>1. ~(m + 1 <= m)  OBVIOUS
    <3>2. ~M[p][m + 1]  BY <2>1, <2>6, <3>1, <2>a, Zenon DEF CellSays
    <3> QED BY <2>4, <2>6, <3>2, Zenon
  <2> QED BY <2>5, <2>6
<1>3. n + 1 - q \in Nat /\ q + (n + 1 - q) = n + 1  OBVIOUS
<1>4. n + 1 - q \in D
  <2> HIDE DEF D
  <2>1. \A d \in Nat : d \in D => d + 1 \in D  BY <1>2
  <2>2. Nat \subseteq D  BY <1>1, <2>1, SetInduction, Zenon
  <2> QED BY <1>3, <2>2
<1> QED BY <1>3, <1>4, Zenon

\* A part of the pattern without stars takes as many characters as it has.
LEMMA StarlessPart ==
  ASSUME NEW pattern, NEW text, NEW M, NEW n \in Nat, NEW m \in Nat, Meaning(M, pattern, text, n, m),
         NEW s \in 0..n, NEW p \in 1..(n + 1), s < p, \A i \in (s + 1)..(p - 1) : pattern[i] # "*",
         NEW k \in 1..(m + 1), M[s + 1][k]
  PROVE  k + (p - s - 1) <= m + 1 /\ M[p][k + (p - s - 1)]
<1> DEFINE D == {d \in Nat : d <= p - s - 1 => k + d <= m + 1 /\ M[(s + 1) + d][k + d]}
<1>1. 0 \in D
  <2>1. (s + 1) + 0 = s + 1 /\ k + 0 = k /\ k <= m + 1  OBVIOUS
  <2>2. 0 \in Nat  OBVIOUS
  <2> QED BY <2>1, <2>2, Zenon
<1>2. ASSUME NEW d \in Nat, d \in D PROVE d + 1 \in D
  <2> SUFFICES ASSUME d + 1 <= p - s - 1 PROVE k + (d + 1) <= m + 1 /\ M[(s + 1) + (d + 1)][k + (d + 1)]
    <3>1. d + 1 \in Nat  OBVIOUS
    <3> QED BY <3>1, Zenon
  <2>1. PICK q, t : q = (s + 1) + d /\ t = k + d  OBVIOUS
  <2>2. /\ d <= p - s - 1 /\ q \in (s + 1)..(p - 1) /\ q \in 1..(n + 1) /\ q <= n
        /\ (s + 1) + (d + 1) = q + 1 /\ k + (d + 1) = t + 1
    BY <2>1
  <2>3. t <= m + 1 /\ M[q][t]  BY <1>2, <2>1, <2>2, Zenon
  <2>4. t \in 1..(m + 1)  BY <2>1, <2>3
  <2>5. pattern[q] # "*"  BY <2>2, Zenon
  <2>a. CellSays(M, pattern, text, n, m, q, t)  BY <2>2, <2>4, CellIs
  <2>6. t <= m /\ M[q + 1][t + 1]  BY <2>2, <2>3, <2>5, <2>a, Zenon DEF CellSays
  <2>7. t + 1 <= m + 1  BY <2>4, <2>6
  <2> QED BY <2>2, <2>6, <2>7, Zenon
<1>3. PICK e \in Nat : e = p - s - 1 /\ (s + 1) + e = p /\ e <= p - s - 1
  <2>1. p - s - 1 \in Nat /\ (s + 1) + (p - s - 1) = p /\ p - s - 1 <= p - s - 1  OBVIOUS
  <2> QED BY <2>1
<1>4. e \in D
  <2> HIDE DEF D
  <2>1. \A d \in Nat : d \in D => d + 1 \in D  BY <1>2
  <2>2. Nat \subseteq D  BY <1>1, <2>1, SetInduction, Zenon
  <2> QED BY <1>3, <2>2
<1>5. k + e <= m + 1 /\ M[(s + 1) + e][k + e]  BY <1>3, <1>4, Zenon
<1> QED BY <1>3, <1>5, Zenon

\* Behind the last star every character was tried in its turn.
Kept(pattern, p, t, s, x) ==
  s # 0 => t = x + (p - s - 1) /\ \A i \in (s + 1)..(p - 1) : pattern[i] # "*"

\* A later try of the last star would match.
Ahead(M, m, s, x) == s # 0 /\ \E k \in (x + 1)..(m + 1) : M[s + 1][k]

Goal(M, m, p, t, s, x) == M[p][t] \/ Ahead(M, m, s, x)

Searching(M, pattern, text, n, m, p, t, s, x) ==
  Meaning(M, pattern, text, n, m) /\ IsPlace(n, m, p, t, s, x) /\ Kept(pattern, p, t, s, x)

LEMMA SearchingParts ==
  ASSUME NEW M, NEW pattern, NEW text, NEW n, NEW m, NEW p, NEW t, NEW s, NEW x,
         Searching(M, pattern, text, n, m, p, t, s, x)
  PROVE  /\ n \in Nat /\ m \in Nat /\ p \in 1..(n + 1) /\ t \in 1..(m + 1) /\ s \in 0..n
         /\ x \in 1..(m + 1) /\ s < p /\ x <= t
         /\ CellSays(M, pattern, text, n, m, p, t)
<1>1. n \in Nat /\ m \in Nat /\ Meaning(M, pattern, text, n, m)  BY Zenon DEF Searching, Meaning
<1>2. p \in 1..(n + 1) /\ t \in 1..(m + 1) /\ s \in 0..n /\ x \in 1..(m + 1) /\ s < p /\ x <= t
  BY Zenon DEF Searching, IsPlace
<1>3. CellSays(M, pattern, text, n, m, p, t)  BY <1>1, <1>2, CellIs
<1> QED BY <1>1, <1>2, <1>3, Zenon

\* When a later try matches, the pattern from here on matches further on.
LEMMA FurtherOn ==
  ASSUME NEW M, NEW pattern, NEW text, NEW n, NEW m, NEW p, NEW t, NEW s, NEW x,
         Searching(M, pattern, text, n, m, p, t, s, x), Ahead(M, m, s, x)
  PROVE  \E j \in (t + 1)..(m + 1) : M[p][j]
<1>1. n \in Nat /\ m \in Nat /\ p \in 1..(n + 1) /\ t \in 1..(m + 1) /\ s \in 0..n
      /\ x \in 1..(m + 1) /\ s < p /\ x <= t
  BY SearchingParts
<1>2. Meaning(M, pattern, text, n, m)  BY Zenon DEF Searching
<1>3. s # 0  BY Zenon DEF Ahead
<1>4. t = x + (p - s - 1) /\ \A i \in (s + 1)..(p - 1) : pattern[i] # "*"
  BY <1>3, Zenon DEF Searching, Kept
<1>5. PICK k \in (x + 1)..(m + 1) : M[s + 1][k]  BY Zenon DEF Ahead
<1>6. k \in 1..(m + 1)  BY <1>1
<1>7. k + (p - s - 1) <= m + 1 /\ M[p][k + (p - s - 1)]
  BY <1>1, <1>2, <1>4, <1>5, <1>6, StarlessPart
<1>8. k + (p - s - 1) \in (t + 1)..(m + 1)  BY <1>1, <1>4, <1>5, <1>7
<1> QED BY <1>7, <1>8, Zenon

\* A character of the pattern that fits is taken.
LEMMA TurnFits ==
  ASSUME NEW M, NEW pattern, NEW text, NEW n, NEW m, NEW p, NEW t, NEW s, NEW x,
         Searching(M, pattern, text, n, m, p, t, s, x), t <= m,
         p <= n, pattern[p] \in {"?", text[t]}, pattern[p] # "*"
  PROVE  /\ Searching(M, pattern, text, n, m, p + 1, t + 1, s, x)
         /\ Goal(M, m, p, t, s, x) <=> Goal(M, m, p + 1, t + 1, s, x)
<1>1. n \in Nat /\ m \in Nat /\ p \in 1..(n + 1) /\ t \in 1..(m + 1) /\ s \in 0..n
      /\ x \in 1..(m + 1) /\ s < p /\ x <= t
  BY SearchingParts
<1>2. M[p][t] <=> M[p + 1][t + 1]
  <2>1. CellSays(M, pattern, text, n, m, p, t)  BY SearchingParts
  <2> QED BY <2>1, Zenon DEF CellSays
<1>3. IsPlace(n, m, p + 1, t + 1, s, x)  BY <1>1 DEF IsPlace
<1>4. Kept(pattern, p + 1, t + 1, s, x)
  <2> SUFFICES ASSUME s # 0
               PROVE  t + 1 = x + ((p + 1) - s - 1) /\ \A i \in (s + 1)..((p + 1) - 1) : pattern[i] # "*"
    BY Zenon DEF Kept
  <2>1. t = x + (p - s - 1) /\ \A i \in (s + 1)..(p - 1) : pattern[i] # "*"  BY Zenon DEF Searching, Kept
  <2>2. \A i \in (s + 1)..((p + 1) - 1) : i = p \/ i \in (s + 1)..(p - 1)  BY <1>1
  <2>3. t + 1 = x + ((p + 1) - s - 1)  BY <1>1, <2>1
  <2> QED BY <2>1, <2>2, <2>3, Zenon
<1>5. Meaning(M, pattern, text, n, m)  BY Zenon DEF Searching
<1>6. Searching(M, pattern, text, n, m, p + 1, t + 1, s, x)  BY <1>3, <1>4, <1>5, Zenon DEF Searching
<1> QED BY <1>2, <1>6, Zenon DEF Goal

\* A star is tried for the shortest part first; earlier stars are never needed again.
LEMMA TurnStar ==
  ASSUME NEW M, NEW pattern, NEW text, NEW n, NEW m, NEW p, NEW t, NEW s, NEW x,
         Searching(M, pattern, text, n, m, p, t, s, x), t <= m, p <= n, pattern[p] = "*"
  PROVE  /\ Searching(M, pattern, text, n, m, p + 1, t, p, t)
         /\ Goal(M, m, p, t, s, x) <=> Goal(M, m, p + 1, t, p, t)
<1>1. n \in Nat /\ m \in Nat /\ p \in 1..(n + 1) /\ t \in 1..(m + 1) /\ s \in 0..n
      /\ x \in 1..(m + 1) /\ s < p /\ x <= t
  BY SearchingParts
<1>5. Meaning(M, pattern, text, n, m)  BY Zenon DEF Searching
<1>a. \A j \in 1..(m + 1) : M[p][j] <=> \E k \in j..(m + 1) : M[p + 1][k]
  <2> TAKE j \in 1..(m + 1)
  <2>1. CellSays(M, pattern, text, n, m, p, j)  BY <1>1, <1>5, CellIs
  <2> QED BY <2>1, Zenon DEF CellSays
<1>2. M[p][t] <=> M[p + 1][t] \/ Ahead(M, m, p, t)
  <2>1. p # 0 /\ \A k : k \in t..(m + 1) <=> k = t \/ k \in (t + 1)..(m + 1)  BY <1>1
  <2>2. M[p][t] <=> \E k \in t..(m + 1) : M[p + 1][k]  BY <1>1, <1>a, Zenon
  <2> QED BY <2>1, <2>2, Zenon DEF Ahead
<1>b. ASSUME Ahead(M, m, s, x) PROVE M[p][t]
  <2>1. PICK j \in (t + 1)..(m + 1) : M[p][j]  BY <1>b, FurtherOn
  <2>2. j \in 1..(m + 1)  BY <1>1
  <2>3. PICK k \in j..(m + 1) : M[p + 1][k]  BY <1>a, <2>1, <2>2, Zenon
  <2>4. k \in t..(m + 1)  BY <1>1, <2>1, <2>3
  <2> QED BY <1>1, <1>a, <2>3, <2>4, Zenon
<1>3. IsPlace(n, m, p + 1, t, p, t)  BY <1>1 DEF IsPlace
<1>4. Kept(pattern, p + 1, t, p, t)
  <2>1. t = t + ((p + 1) - p - 1) /\ \A i \in (p + 1)..((p + 1) - 1) : FALSE  BY <1>1
  <2> QED BY <2>1, Zenon DEF Kept
<1>6. Searching(M, pattern, text, n, m, p + 1, t, p, t)  BY <1>3, <1>4, <1>5, Zenon DEF Searching
<1> QED BY <1>2, <1>b, <1>6, Zenon DEF Goal

\* Nothing fits here.
LEMMA NotHere ==
  ASSUME NEW M, NEW pattern, NEW text, NEW n, NEW m, NEW p, NEW t, NEW s, NEW x,
         Searching(M, pattern, text, n, m, p, t, s, x), t <= m,
         ~(p <= n /\ pattern[p] \in {"?", text[t]}), ~(p <= n /\ pattern[p] = "*")
  PROVE  ~M[p][t]
<1>1. n \in Nat /\ m \in Nat /\ p \in 1..(n + 1) /\ t \in 1..(m + 1)  BY SearchingParts
<1>2. CellSays(M, pattern, text, n, m, p, t)  BY SearchingParts
<1>3. (p = n + 1 \/ p <= n) /\ t # m + 1  BY <1>1
<1> QED BY <1>2, <1>3, Zenon DEF CellSays

\* The last star is tried for one character more.
LEMMA TurnBack ==
  ASSUME NEW M, NEW pattern, NEW text, NEW n, NEW m, NEW p, NEW t, NEW s, NEW x,
         Searching(M, pattern, text, n, m, p, t, s, x), t <= m, s # 0, ~M[p][t]
  PROVE  /\ Searching(M, pattern, text, n, m, s + 1, x + 1, s, x + 1)
         /\ Goal(M, m, p, t, s, x) <=> Goal(M, m, s + 1, x + 1, s, x + 1)
<1>1. n \in Nat /\ m \in Nat /\ p \in 1..(n + 1) /\ t \in 1..(m + 1) /\ s \in 0..n
      /\ x \in 1..(m + 1) /\ s < p /\ x <= t
  BY SearchingParts
<1>2. Ahead(M, m, s, x) <=> M[s + 1][x + 1] \/ Ahead(M, m, s, x + 1)
  <2>1. \A k : k \in (x + 1)..(m + 1) <=> k = x + 1 \/ k \in ((x + 1) + 1)..(m + 1)  BY <1>1
  <2> QED BY <2>1, Zenon DEF Ahead
<1>3. IsPlace(n, m, s + 1, x + 1, s, x + 1)  BY <1>1 DEF IsPlace
<1>4. Kept(pattern, s + 1, x + 1, s, x + 1)
  <2>1. x + 1 = (x + 1) + ((s + 1) - s - 1) /\ \A i \in (s + 1)..((s + 1) - 1) : FALSE  BY <1>1
  <2> QED BY <2>1, Zenon DEF Kept
<1>5. Meaning(M, pattern, text, n, m)  BY Zenon DEF Searching
<1>6. Searching(M, pattern, text, n, m, s + 1, x + 1, s, x + 1)  BY <1>3, <1>4, <1>5, Zenon DEF Searching
<1> QED BY <1>2, <1>6, Zenon DEF Goal

\* The text is used up: what is left of the pattern must be stars.
LEMMA TextEnds ==
  ASSUME NEW M, NEW pattern, NEW text, NEW n, NEW m, NEW p, NEW t, NEW s, NEW x,
         Searching(M, pattern, text, n, m, p, t, s, x), ~(t <= m)
  PROVE  Goal(M, m, p, t, s, x) <=> \A i \in p..n : pattern[i] = "*"
<1>1. n \in Nat /\ m \in Nat /\ p \in 1..(n + 1) /\ t = m + 1
  <2>1. n \in Nat /\ m \in Nat /\ p \in 1..(n + 1) /\ t \in 1..(m + 1)  BY SearchingParts
  <2> QED BY <2>1
<1>2. ~Ahead(M, m, s, x)
  <2>1. \A j : j \notin (t + 1)..(m + 1)  BY <1>1
  <2>2. Ahead(M, m, s, x) => \E j \in (t + 1)..(m + 1) : M[p][j]  BY FurtherOn
  <2> QED BY <2>1, <2>2, Zenon
<1>3. Meaning(M, pattern, text, n, m)  BY Zenon DEF Searching
<1>4. M[p][m + 1] <=> \A i \in p..n : pattern[i] = "*"  BY <1>1, <1>3, OnlyStarsLeft
<1> QED BY <1>1, <1>2, <1>4, Zenon DEF Goal

NoStarIn(text) == \A i \in 1..Len(text) : text[i] # "*"

\* One turn of the loop asks the same question of the next place.
LEMMA TurnAsks ==
  ASSUME NEW G, NEW M, NEW pattern, NEW text, NEW n, NEW m, NEW p, NEW t, NEW s, NEW x,
         Searching(M, pattern, text, n, m, p, t, s, x), IsSearch(G, pattern, text), NoStarIn(text),
         \A a, b, c, d : /\ Searching(M, pattern, text, n, m, a, b, c, d)
                         /\ Rank(text, p, t, s, x) < Rank(text, a, b, c, d)
                         => (G[PlaceOf(a, b, c, d)] <=> Goal(M, m, a, b, c, d))
  PROVE  G[PlaceOf(p, t, s, x)] <=> Goal(M, m, p, t, s, x)
<1>1. n \in Nat /\ m \in Nat /\ p \in 1..(n + 1) /\ t \in 1..(m + 1)  BY SearchingParts
<1>2. n = Len(pattern) /\ m = Len(text)  BY Zenon DEF Searching, Meaning
<1>3. PICK at : at = PlaceOf(p, t, s, x)  OBVIOUS
<1>4. at.p = p /\ at.t = t  BY <1>3, PlaceParts
<1>5. IsPlace(n, m, p, t, s, x)  BY Zenon DEF Searching
<1>6. at \in Positions(pattern, text)  BY <1>2, <1>3, <1>5, PlacesAre, Zenon
<1>7. t > m <=> ~(t <= m)  BY <1>1
<1>8. G[at] <=> Turn(G, pattern, text, at)  BY <1>6, Zenon DEF IsSearch
<1>9. CASE ~(t <= m)
  <2>1. Goal(M, m, p, t, s, x) <=> \A i \in p..n : pattern[i] = "*"  BY <1>9, TextEnds
  <2>2. G[at] <=> \A i \in p..n : pattern[i] = "*"  BY <1>2, <1>4, <1>7, <1>8, <1>9, Zenon DEF Turn
  <2> QED BY <1>3, <2>1, <2>2, Zenon
<1>10. CASE t <= m
  <2>1. PICK next : next = GlobStep(pattern, text, at)  OBVIOUS
  <2>2. G[at] <=> next # NoMatch /\ G[next]  BY <1>2, <1>4, <1>7, <1>8, <1>10, <2>1, Zenon DEF Turn
  <2>3. next = IF p <= n /\ pattern[p] \in {"?", text[t]} THEN PlaceOf(p + 1, t + 1, s, x)
               ELSE IF p <= n /\ pattern[p] = "*" THEN PlaceOf(p + 1, t, p, t)
               ELSE IF s # 0 THEN PlaceOf(s + 1, x + 1, s, x + 1)
               ELSE NoMatch
    BY <1>2, <1>3, <2>1, StepIs
  <2>4. /\ Rank(text, p, t, s, x) < Rank(text, p + 1, t + 1, s, x)
        /\ Rank(text, p, t, s, x) < Rank(text, p + 1, t, p, t)
        /\ Rank(text, p, t, s, x) < Rank(text, s + 1, x + 1, s, x + 1)
    BY <1>1, <1>2, <1>5, <1>10, StepAdvances
  <2>5. \A a, b, c, d : IsPlace(n, m, a, b, c, d) => PlaceOf(a, b, c, d) # NoMatch
    <3> SUFFICES ASSUME NEW a, NEW b, NEW c, NEW d, IsPlace(n, m, a, b, c, d), PlaceOf(a, b, c, d) = NoMatch
                 PROVE  FALSE
      BY Zenon
    <3>1. a = 0
      <4>1. PlaceOf(a, b, c, d).p = NoMatch.p  BY Zenon
      <4>2. PlaceOf(a, b, c, d).p = a  BY PlaceParts
      <4> QED BY <4>1, <4>2 DEF NoMatch
    <3>2. a \in 1..(n + 1)  BY Zenon DEF IsPlace
    <3> QED BY <1>1, <3>1, <3>2
  <2>6. CASE p <= n /\ pattern[p] \in {"?", text[t]}
    <3>1. pattern[p] # "*"
      <4>1. t \in 1..m  BY <1>1, <1>10
      <4>2. text[t] # "*"  BY <1>2, <4>1, Zenon DEF NoStarIn
      <4> QED BY <2>6, <4>2
    <3>2. /\ Searching(M, pattern, text, n, m, p + 1, t + 1, s, x)
          /\ Goal(M, m, p, t, s, x) <=> Goal(M, m, p + 1, t + 1, s, x)
      BY <1>10, <2>6, <3>1, TurnFits
    <3>3. IsPlace(n, m, p + 1, t + 1, s, x)  BY <3>2, Zenon DEF Searching
    <3>4. next = PlaceOf(p + 1, t + 1, s, x)  BY <2>3, <2>6, Zenon
    <3>5. G[next] <=> Goal(M, m, p + 1, t + 1, s, x)  BY <2>4, <3>2, <3>4, Zenon
    <3> QED BY <1>3, <2>2, <2>5, <3>2, <3>3, <3>4, <3>5, Zenon
  <2>7. CASE ~(p <= n /\ pattern[p] \in {"?", text[t]}) /\ p <= n /\ pattern[p] = "*"
    <3>2. /\ Searching(M, pattern, text, n, m, p + 1, t, p, t)
          /\ Goal(M, m, p, t, s, x) <=> Goal(M, m, p + 1, t, p, t)
      BY <1>10, <2>7, TurnStar
    <3>3. IsPlace(n, m, p + 1, t, p, t)  BY <3>2, Zenon DEF Searching
    <3>4. next = PlaceOf(p + 1, t, p, t)  BY <2>3, <2>7, Zenon
    <3>5. G[next] <=> Goal(M, m, p + 1, t, p, t)  BY <2>4, <3>2, <3>4, Zenon
    <3> QED BY <1>3, <2>2, <2>5, <3>2, <3>3, <3>4, <3>5, Zenon
  <2>8. CASE ~(p <= n /\ pattern[p] \in {"?", text[t]}) /\ ~(p <= n /\ pattern[p] = "*")
    <3>1. ~M[p][t]  BY <1>10, <2>8, NotHere
    <3>2. CASE s # 0
      <4>2. /\ Searching(M, pattern, text, n, m, s + 1, x + 1, s, x + 1)
            /\ Goal(M, m, p, t, s, x) <=> Goal(M, m, s + 1, x + 1, s, x + 1)
        BY <1>10, <3>1, <3>2, TurnBack
      <4>3. IsPlace(n, m, s + 1, x + 1, s, x + 1)  BY <4>2, Zenon DEF Searching
      <4>4. next = PlaceOf(s + 1, x + 1, s, x + 1)  BY <2>3, <2>8, <3>2, Zenon
      <4>5. G[next] <=> Goal(M, m, s + 1, x + 1, s, x + 1)  BY <2>4, <4>2, <4>4, Zenon
      <4> QED BY <1>3, <2>2, <2>5, <4>2, <4>3, <4>4, <4>5, Zenon
    <3>3. CASE s = 0
      <4>1. next = NoMatch  BY <2>3, <2>8, <3>3, Zenon
      <4>2. ~Goal(M, m, p, t, s, x)  BY <3>1, <3>3, Zenon DEF Goal, Ahead
      <4> QED BY <1>3, <2>2, <4>1, <4>2, Zenon
    <3> QED BY <3>2, <3>3, Zenon
  <2> QED BY <2>6, <2>7, <2>8, Zenon
<1> QED BY <1>9, <1>10, Zenon

\* strings::globMatch() goes back to the last star only, and still finds every
\* match: for any pattern and any text without a star it answers what the
\* pattern means.
THEOREM GlobExact ==
  ASSUME NEW pattern, NEW text, Len(pattern) \in Nat, Len(text) \in Nat,
         \A i \in 1..Len(text) : text[i] # "*"
  PROVE  GlobMatch(pattern, text) <=> Means(pattern, text)
<1>1. PICK G : IsSearch(G, pattern, text) /\ (GlobMatch(pattern, text) <=> G[AtStart])  BY MatchIs, Zenon
<1>2. PICK M : IsMeaning(M, pattern, text) /\ (Means(pattern, text) <=> M[1][1])  BY MeansIs, Zenon
<1>3. PICK n \in Nat, m \in Nat : n = Len(pattern) /\ m = Len(text)  OBVIOUS
<1>4. NoStarIn(text)  BY Zenon DEF NoStarIn
<1>5. Meaning(M, pattern, text, n, m)  BY <1>2, <1>3, Zenon DEF Meaning
<1>6. PICK limit : limit = RankLimit(pattern, text)  OBVIOUS
<1>7. \A p, t, s, x : Searching(M, pattern, text, n, m, p, t, s, x) =>
        limit \in Nat /\ Rank(text, p, t, s, x) \in Nat /\ Rank(text, p, t, s, x) < limit
  <2> SUFFICES ASSUME NEW p, NEW t, NEW s, NEW x, Searching(M, pattern, text, n, m, p, t, s, x)
               PROVE  limit \in Nat /\ Rank(text, p, t, s, x) \in Nat /\ Rank(text, p, t, s, x) < limit
    BY Zenon
  <2>1. IsPlace(n, m, p, t, s, x)  BY Zenon DEF Searching
  <2>2. PlaceOf(p, t, s, x) \in Positions(pattern, text)  BY <1>3, <2>1, PlacesAre, Zenon
  <2>3. RankAt(text, PlaceOf(p, t, s, x)) = Rank(text, p, t, s, x)  BY PlaceRank, Zenon
  <2> QED BY <1>6, <2>2, <2>3, RankRange
<1> DEFINE Found(p, t, s, x) == G[PlaceOf(p, t, s, x)] <=> Goal(M, m, p, t, s, x)
           D == {d \in Nat : \A p, t, s, x : /\ Searching(M, pattern, text, n, m, p, t, s, x)
                                             /\ Rank(text, p, t, s, x) + d >= limit
                                             => Found(p, t, s, x)}
<1>8. 0 \in D
  <2> SUFFICES ASSUME NEW p, NEW t, NEW s, NEW x, Searching(M, pattern, text, n, m, p, t, s, x),
                      Rank(text, p, t, s, x) + 0 >= limit
               PROVE  FALSE
    <3>1. 0 \in Nat  OBVIOUS
    <3> QED BY <3>1, Zenon
  <2>1. limit \in Nat /\ Rank(text, p, t, s, x) \in Nat /\ Rank(text, p, t, s, x) < limit  BY <1>7, Zenon
  <2> QED BY <2>1
<1>9. ASSUME NEW d \in Nat, d \in D PROVE d + 1 \in D
  <2> SUFFICES ASSUME NEW p, NEW t, NEW s, NEW x, Searching(M, pattern, text, n, m, p, t, s, x),
                      Rank(text, p, t, s, x) + (d + 1) >= limit
               PROVE  Found(p, t, s, x)
    <3>1. d + 1 \in Nat  OBVIOUS
    <3> QED BY <3>1, Zenon
  <2>1. ASSUME NEW a, NEW b, NEW c, NEW e, Searching(M, pattern, text, n, m, a, b, c, e),
               Rank(text, p, t, s, x) < Rank(text, a, b, c, e)
        PROVE  Found(a, b, c, e)
    <3>1. limit \in Nat /\ Rank(text, p, t, s, x) \in Nat /\ Rank(text, a, b, c, e) \in Nat  BY <1>7, <2>1, Zenon
    <3>2. Rank(text, a, b, c, e) + d >= limit  BY <2>1, <3>1
    <3> QED BY <1>9, <2>1, <3>2, Zenon
  <2> QED BY <1>1, <1>4, <2>1, TurnAsks, Zenon
<1>10. Nat \subseteq D
  <2> HIDE DEF D
  <2>1. \A d \in Nat : d \in D => d + 1 \in D  BY <1>9
  <2> QED BY <1>8, <2>1, SetInduction, Zenon
<1>11. Searching(M, pattern, text, n, m, 1, 1, 0, 1)
  <2>1. IsPlace(n, m, 1, 1, 0, 1)  BY DEF IsPlace
  <2>2. Kept(pattern, 1, 1, 0, 1)  BY Zenon DEF Kept
  <2> QED BY <1>5, <2>1, <2>2, Zenon DEF Searching
<1>12. Found(1, 1, 0, 1)
  <2> HIDE DEF Found
  <2>1. limit \in Nat /\ Rank(text, 1, 1, 0, 1) \in Nat  BY <1>7, <1>11, Zenon
  <2>2. Rank(text, 1, 1, 0, 1) + limit >= limit /\ limit \in D
    <3>1. limit \in D  BY <1>10, <2>1, Zenon
    <3>2. Rank(text, 1, 1, 0, 1) + limit >= limit  BY <2>1
    <3> QED BY <3>1, <3>2, Zenon
  <2> QED BY <1>11, <2>2, Zenon
<1>13. Goal(M, m, 1, 1, 0, 1) <=> M[1][1]  BY Zenon DEF Goal, Ahead
<1>14. AtStart = PlaceOf(1, 1, 0, 1)  BY Zenon DEF AtStart, PlaceOf
<1> QED BY <1>1, <1>2, <1>12, <1>13, <1>14, Zenon

\* Of any text: whatever a place of the loop leads to, the pattern means it.
Looking(M, pattern, text, n, m, p, t, s, x) == Meaning(M, pattern, text, n, m) /\ IsPlace(n, m, p, t, s, x)

\* A match found further on is a match from here: a character that fits is one
\* the pattern may take, be it a star (StringUtils.cpp compares before it asks
\* for a star), and what a star may skip it skips from here too.
LEMMA GoalsBack ==
  ASSUME NEW M, NEW pattern, NEW text, NEW n, NEW m, NEW p, NEW t, NEW s, NEW x,
         Looking(M, pattern, text, n, m, p, t, s, x), t <= m
  PROVE  /\ p <= n /\ pattern[p] \in {"?", text[t]} /\ Goal(M, m, p + 1, t + 1, s, x) => Goal(M, m, p, t, s, x)
         /\ p <= n /\ pattern[p] = "*" /\ Goal(M, m, p + 1, t, p, t) => Goal(M, m, p, t, s, x)
         /\ s # 0 /\ Goal(M, m, s + 1, x + 1, s, x + 1) => Goal(M, m, p, t, s, x)
<1>1. n \in Nat /\ m \in Nat /\ Meaning(M, pattern, text, n, m)  BY Zenon DEF Looking, Meaning
<1>2. p \in 1..(n + 1) /\ t \in 1..(m + 1) /\ s \in 0..n /\ x \in 1..(m + 1) /\ s < p /\ x <= t
  BY Zenon DEF Looking, IsPlace
<1>3. CellSays(M, pattern, text, n, m, p, t)  BY <1>1, <1>2, CellIs
<1>4. /\ t \in t..(m + 1) /\ t + 1 \in t..(m + 1)
      /\ \A k \in (t + 1)..(m + 1) : k \in t..(m + 1)
      /\ x + 1 \in (x + 1)..(m + 1) /\ \A k \in ((x + 1) + 1)..(m + 1) : k \in (x + 1)..(m + 1)
  BY <1>1, <1>2
<1>5. ASSUME p <= n, pattern[p] \in {"?", text[t]}, M[p + 1][t + 1] PROVE M[p][t]
  <2>1. CASE pattern[p] = "*"  BY <1>3, <1>4, <1>5, <2>1, Zenon DEF CellSays
  <2>2. CASE pattern[p] # "*"  BY <1>3, <1>5, <2>2, Zenon DEF CellSays
  <2> QED BY <2>1, <2>2
<1>6. ASSUME p <= n, pattern[p] = "*", Goal(M, m, p + 1, t, p, t) PROVE M[p][t]
  <2>1. \E k \in t..(m + 1) : M[p + 1][k]  BY <1>4, <1>6, Zenon DEF Goal, Ahead
  <2> QED BY <1>3, <1>6, <2>1, Zenon DEF CellSays
<1>7. ASSUME s # 0, Goal(M, m, s + 1, x + 1, s, x + 1) PROVE Ahead(M, m, s, x)
  BY <1>4, <1>7, Zenon DEF Goal, Ahead
<1> QED BY <1>5, <1>6, <1>7, Zenon DEF Goal

LEMMA TurnTells ==
  ASSUME NEW G, NEW M, NEW pattern, NEW text, NEW n, NEW m, NEW p, NEW t, NEW s, NEW x,
         Looking(M, pattern, text, n, m, p, t, s, x), IsSearch(G, pattern, text), G[PlaceOf(p, t, s, x)],
         \A a, b, c, d : /\ Looking(M, pattern, text, n, m, a, b, c, d)
                         /\ Rank(text, p, t, s, x) < Rank(text, a, b, c, d)
                         => (G[PlaceOf(a, b, c, d)] => Goal(M, m, a, b, c, d))
  PROVE  Goal(M, m, p, t, s, x)
<1>1. n = Len(pattern) /\ m = Len(text) /\ n \in Nat /\ m \in Nat /\ Meaning(M, pattern, text, n, m)
  BY Zenon DEF Looking, Meaning
<1>2. IsPlace(n, m, p, t, s, x)  BY Zenon DEF Looking
<1>3. p \in 1..(n + 1) /\ t \in 1..(m + 1)  BY <1>2, Zenon DEF IsPlace
<1>4. PICK at : at = PlaceOf(p, t, s, x)  OBVIOUS
<1>5. at.p = p /\ at.t = t  BY <1>4, PlaceParts
<1>6. at \in Positions(pattern, text)  BY <1>1, <1>2, <1>4, PlacesAre, Zenon
<1>7. t > m <=> ~(t <= m)  BY <1>1, <1>3
<1>8. Turn(G, pattern, text, at)  BY <1>4, <1>6, Zenon DEF IsSearch
<1>9. CASE ~(t <= m)
  <2>1. t = m + 1  BY <1>1, <1>3, <1>9
  <2>2. \A i \in p..n : pattern[i] = "*"  BY <1>1, <1>5, <1>7, <1>8, <1>9, Zenon DEF Turn
  <2>3. n \in Nat /\ m \in Nat /\ Meaning(M, pattern, text, n, m)  BY <1>1
  <2>4. M[p][m + 1] <=> \A i \in p..n : pattern[i] = "*"  BY <1>3, <2>3, OnlyStarsLeft, Zenon
  <2> QED BY <2>1, <2>2, <2>4, Zenon DEF Goal
<1>10. CASE t <= m
  <2>1. PICK next : next = GlobStep(pattern, text, at)  OBVIOUS
  <2>2. next # NoMatch /\ G[next]  BY <1>1, <1>5, <1>7, <1>8, <1>10, <2>1, Zenon DEF Turn
  <2>3. next = IF p <= n /\ pattern[p] \in {"?", text[t]} THEN PlaceOf(p + 1, t + 1, s, x)
               ELSE IF p <= n /\ pattern[p] = "*" THEN PlaceOf(p + 1, t, p, t)
               ELSE IF s # 0 THEN PlaceOf(s + 1, x + 1, s, x + 1)
               ELSE NoMatch
    BY <1>1, <1>4, <2>1, StepIs
  <2>4. /\ p <= n => IsPlace(n, m, p + 1, t + 1, s, x) /\ IsPlace(n, m, p + 1, t, p, t)
        /\ IsPlace(n, m, s + 1, x + 1, s, x + 1)
        /\ Rank(text, p, t, s, x) < Rank(text, p + 1, t + 1, s, x)
        /\ Rank(text, p, t, s, x) < Rank(text, p + 1, t, p, t)
        /\ Rank(text, p, t, s, x) < Rank(text, s + 1, x + 1, s, x + 1)
    BY <1>1, <1>2, <1>10, StepAdvances, Zenon
  <2>5. \A a, b, c, d : IsPlace(n, m, a, b, c, d) => Looking(M, pattern, text, n, m, a, b, c, d)
    BY <1>1, Zenon DEF Looking
  <2>6. CASE p <= n /\ pattern[p] \in {"?", text[t]}
    <3>1. next = PlaceOf(p + 1, t + 1, s, x)  BY <2>3, <2>6, Zenon
    <3>2. Goal(M, m, p + 1, t + 1, s, x)  BY <2>2, <2>4, <2>5, <2>6, <3>1, Zenon
    <3> QED BY <1>10, <2>6, <3>2, GoalsBack
  <2>7. CASE ~(p <= n /\ pattern[p] \in {"?", text[t]}) /\ p <= n /\ pattern[p] = "*"
    <3>1. next = PlaceOf(p + 1, t, p, t)  BY <2>3, <2>7, Zenon
    <3>2. Goal(M, m, p + 1, t, p, t)  BY <2>2, <2>4, <2>5, <2>7, <3>1, Zenon
    <3> QED BY <1>10, <2>7, <3>2, GoalsBack
  <2>8. CASE ~(p <= n /\ pattern[p] \in {"?", text[t]}) /\ ~(p <= n /\ pattern[p] = "*")
    <3>1. s # 0 /\ next = PlaceOf(s + 1, x + 1, s, x + 1)  BY <2>2, <2>3, <2>8, Zenon
    <3>2. Goal(M, m, s + 1, x + 1, s, x + 1)  BY <2>2, <2>4, <2>5, <3>1, Zenon
    <3> QED BY <1>10, <3>1, <3>2, GoalsBack
  <2> QED BY <2>6, <2>7, <2>8, Zenon
<1> QED BY <1>9, <1>10, Zenon

\* What strings::globMatch() calls a match is one, for any pattern and any text,
\* one with stars of its own included.
THEOREM GlobSound ==
  ASSUME NEW pattern, NEW text, Len(pattern) \in Nat, Len(text) \in Nat, GlobMatch(pattern, text)
  PROVE  Means(pattern, text)
<1>1. PICK G : IsSearch(G, pattern, text) /\ (GlobMatch(pattern, text) <=> G[AtStart])  BY MatchIs, Zenon
<1>2. PICK M : IsMeaning(M, pattern, text) /\ (Means(pattern, text) <=> M[1][1])  BY MeansIs, Zenon
<1>3. PICK n \in Nat, m \in Nat : n = Len(pattern) /\ m = Len(text)  OBVIOUS
<1>5. Meaning(M, pattern, text, n, m)  BY <1>2, <1>3, Zenon DEF Meaning
<1>6. PICK limit : limit = RankLimit(pattern, text)  OBVIOUS
<1>7. \A p, t, s, x : Looking(M, pattern, text, n, m, p, t, s, x) =>
        limit \in Nat /\ Rank(text, p, t, s, x) \in Nat /\ Rank(text, p, t, s, x) < limit
  <2> SUFFICES ASSUME NEW p, NEW t, NEW s, NEW x, Looking(M, pattern, text, n, m, p, t, s, x)
               PROVE  limit \in Nat /\ Rank(text, p, t, s, x) \in Nat /\ Rank(text, p, t, s, x) < limit
    BY Zenon
  <2>1. IsPlace(n, m, p, t, s, x)  BY Zenon DEF Looking
  <2>2. PlaceOf(p, t, s, x) \in Positions(pattern, text)  BY <1>3, <2>1, PlacesAre, Zenon
  <2>3. RankAt(text, PlaceOf(p, t, s, x)) = Rank(text, p, t, s, x)  BY PlaceRank, Zenon
  <2> QED BY <1>6, <2>2, <2>3, RankRange
<1> DEFINE Right(p, t, s, x) == G[PlaceOf(p, t, s, x)] => Goal(M, m, p, t, s, x)
           D == {d \in Nat : \A p, t, s, x : /\ Looking(M, pattern, text, n, m, p, t, s, x)
                                             /\ Rank(text, p, t, s, x) + d >= limit
                                             => Right(p, t, s, x)}
<1>8. 0 \in D
  <2> SUFFICES ASSUME NEW p, NEW t, NEW s, NEW x, Looking(M, pattern, text, n, m, p, t, s, x),
                      Rank(text, p, t, s, x) + 0 >= limit
               PROVE  FALSE
    <3>1. 0 \in Nat  OBVIOUS
    <3> QED BY <3>1, Zenon
  <2>1. limit \in Nat /\ Rank(text, p, t, s, x) \in Nat /\ Rank(text, p, t, s, x) < limit  BY <1>7, Zenon
  <2> QED BY <2>1
<1>9. ASSUME NEW d \in Nat, d \in D PROVE d + 1 \in D
  <2> SUFFICES ASSUME NEW p, NEW t, NEW s, NEW x, Looking(M, pattern, text, n, m, p, t, s, x),
                      Rank(text, p, t, s, x) + (d + 1) >= limit
               PROVE  Right(p, t, s, x)
    <3>1. d + 1 \in Nat  OBVIOUS
    <3> QED BY <3>1, Zenon
  <2>1. ASSUME NEW a, NEW b, NEW c, NEW e, Looking(M, pattern, text, n, m, a, b, c, e),
               Rank(text, p, t, s, x) < Rank(text, a, b, c, e)
        PROVE  Right(a, b, c, e)
    <3>1. limit \in Nat /\ Rank(text, p, t, s, x) \in Nat /\ Rank(text, a, b, c, e) \in Nat  BY <1>7, <2>1, Zenon
    <3>2. Rank(text, a, b, c, e) + d >= limit  BY <2>1, <3>1
    <3> QED BY <1>9, <2>1, <3>2, Zenon
  <2> QED BY <1>1, <2>1, TurnTells, Zenon
<1>10. Nat \subseteq D
  <2> HIDE DEF D
  <2>1. \A d \in Nat : d \in D => d + 1 \in D  BY <1>9
  <2> QED BY <1>8, <2>1, SetInduction, Zenon
<1>11. Looking(M, pattern, text, n, m, 1, 1, 0, 1)
  <2>1. IsPlace(n, m, 1, 1, 0, 1)  BY DEF IsPlace
  <2> QED BY <1>5, <2>1, Zenon DEF Looking
<1>12. Right(1, 1, 0, 1)
  <2> HIDE DEF Right
  <2>1. limit \in Nat /\ Rank(text, 1, 1, 0, 1) \in Nat  BY <1>7, <1>11, Zenon
  <2>2. Rank(text, 1, 1, 0, 1) + limit >= limit /\ limit \in D
    <3>1. limit \in D  BY <1>10, <2>1, Zenon
    <3>2. Rank(text, 1, 1, 0, 1) + limit >= limit  BY <2>1
    <3> QED BY <3>1, <3>2, Zenon
  <2> QED BY <1>11, <2>2, Zenon
<1>13. Goal(M, m, 1, 1, 0, 1) <=> M[1][1]  BY Zenon DEF Goal, Ahead
<1>14. AtStart = PlaceOf(1, 1, 0, 1)  BY Zenon DEF AtStart, PlaceOf
<1> QED BY <1>1, <1>2, <1>12, <1>13, <1>14, Zenon
-----------------------------------------------------------------------------
(* Selecting tests.                                                        *)

LEMMA Remainders ==
  ASSUME NEW k \in Nat, k > 0
  PROVE  /\ \A a \in Nat : a % k \in 0..(k - 1)
         /\ \A a \in 0..(k - 1) : a % k = a
<1>1. ASSUME NEW a \in Nat PROVE a % k \in 0..(k - 1)  OBVIOUS
<1>2. ASSUME NEW a \in Nat, a < k PROVE a % k = a  BY <1>2
<1>3. \A a \in 0..(k - 1) : a \in Nat /\ a < k  OBVIOUS
<1> QED BY <1>1, <1>2, <1>3, Zenon

\* What any number of shards of a selection come to.
Shared(tests, without, hash, filter, count) ==
  LET shard(index) == SelectFrom(tests, filter, hash, count, index)
      all == SelectFrom(tests, filter, hash, 1, 0)
  IN /\ all = {t \in tests : Matches(filter, t)}
     /\ \A t \in all : \E index \in 0..(count - 1) : t \in shard(index)
     /\ \A index \in 0..(count - 1) :
          /\ shard(index) \subseteq all
          /\ \A other \in 0..(count - 1) : index # other => shard(index) \cap shard(other) = {}
          /\ SelectFrom(tests \ {without}, filter, hash, count, index) = shard(index) \ {without}

\* Any number of shards divides a selection, whatever the hashes, the filter
\* and the tests are; and a test that is removed moves no other.
THEOREM ShardsDivide ==
  ASSUME NEW tests, NEW without, NEW hash \in [tests -> Nat], NEW filter, NEW count \in Nat \ {0}
  PROVE  Shared(tests, without, hash, filter, count)
<1> DEFINE chosen == {t \in tests : Matches(filter, t)}
           shard(index) == SelectFrom(tests, filter, hash, count, index)
           all == SelectFrom(tests, filter, hash, 1, 0)
<1>1. \A candidates, index : SelectFrom(candidates, filter, hash, count, index) =
        {t \in candidates : Matches(filter, t) /\ (count <= 1 \/ hash[t] % count = index % count)}
  BY Zenon DEF SelectFrom, InShard
<1>a. \A candidates, index, t : t \in SelectFrom(candidates, filter, hash, count, index) <=>
        t \in candidates /\ Matches(filter, t) /\ (count <= 1 \/ hash[t] % count = index % count)
  <2> TAKE candidates, index, t
  <2> DEFINE S == SelectFrom(candidates, filter, hash, count, index)
  <2>1. S = {y \in candidates : Matches(filter, y) /\ (count <= 1 \/ hash[y] % count = index % count)}
    BY <1>1, Zenon
  <2> HIDE DEF S
  <2>2. t \in S <=> t \in candidates /\ Matches(filter, t) /\ (count <= 1 \/ hash[t] % count = index % count)
    BY <2>1
  <2> QED BY <2>2 DEF S
<1>2. all = chosen
  <2>1. \A t : InShard(hash, chosen, t, 1, 0)  BY DEF InShard
  <2> QED BY <2>1, Zenon DEF SelectFrom
<1>3. \A t \in tests : hash[t] % count \in 0..(count - 1)
  <2>1. \A t \in tests : hash[t] \in Nat  OBVIOUS
  <2>2. \A a \in Nat : a % count \in 0..(count - 1)  BY Remainders
  <2> QED BY <2>1, <2>2, Zenon
<1>4. \A index \in 0..(count - 1) : index % count = index  BY Remainders
<1>5. \A t \in all : \E index \in 0..(count - 1) : t \in shard(index)
  BY <1>1, <1>2, <1>3, <1>4, Zenon
<1>6. \A index, other \in 0..(count - 1) : index # other => shard(index) \cap shard(other) = {}
  <2> SUFFICES ASSUME NEW index \in 0..(count - 1), NEW other \in 0..(count - 1), index # other,
                      NEW t, t \in shard(index), t \in shard(other)
               PROVE  FALSE
    BY Zenon
  <2>1. ~(count <= 1)  OBVIOUS
  <2>2. hash[t] % count = index % count /\ hash[t] % count = other % count  BY <1>a, <2>1, Zenon
  <2> QED BY <1>4, <2>2, Zenon
<1>7. \A index : shard(index) \subseteq all  BY <1>a, <1>2, Zenon
<1>8. \A index : SelectFrom(tests \ {without}, filter, hash, count, index) = shard(index) \ {without}
  <2> TAKE index
  <2> DEFINE fewer == SelectFrom(tests \ {without}, filter, hash, count, index)
             whole == SelectFrom(tests, filter, hash, count, index)
  <2>1. \A t : t \in fewer <=> t \in whole /\ t # without
    <3> TAKE t
    <3>1. \A candidates : t \in SelectFrom(candidates, filter, hash, count, index) <=>
            t \in candidates /\ Matches(filter, t) /\ (count <= 1 \/ hash[t] % count = index % count)
      BY <1>a
    <3>2. t \in tests \ {without} <=> t \in tests /\ t # without  OBVIOUS
    <3> QED BY <3>1, <3>2
  <2> HIDE DEF fewer, whole
  <2>2. fewer = whole \ {without}  BY <2>1
  <2> QED BY <2>2 DEF fewer, whole
<1> QED BY <1>2, <1>5, <1>6, <1>7, <1>8, Zenon DEF Shared

\* The parser's record, and the loop's state.
LineOf(c, u, h, v, e, o, w) ==
  [command |-> c, subcommand |-> u, help |-> h, version |-> v, error |-> e, options |-> o, positionals |-> w]

StepOf(i, parsed) == [i |-> i, parsed |-> parsed]

GivenIn(o, name, values) ==
  [n \in DOMAIN o \cup {name} |-> (IF n \in DOMAIN o THEN o[n] ELSE <<>>) \o (IF n = name THEN values ELSE <<>>)]

LEMMA LineParts ==
  ASSUME NEW c, NEW u, NEW h, NEW v, NEW e, NEW o, NEW w
  PROVE  /\ LineOf(c, u, h, v, e, o, w).command = c /\ LineOf(c, u, h, v, e, o, w).help = h
         /\ LineOf(c, u, h, v, e, o, w).version = v /\ LineOf(c, u, h, v, e, o, w).error = e
         /\ LineOf(c, u, h, v, e, o, w).options = o /\ LineOf(c, u, h, v, e, o, w).positionals = w
BY DEF LineOf

LEMMA StepParts ==
  ASSUME NEW i, NEW parsed
  PROVE  StepOf(i, parsed).i = i /\ StepOf(i, parsed).parsed = parsed
BY DEF StepOf

\* What one turn of the parser's loop does.
TurnOf(arguments, i, c, u, h, v, e, o, w) ==
  LET argument == arguments[i]
      after(n, options) == StepOf(n, LineOf(c, u, h, v, e, options, w))
      stop(problem) == StepOf(0, LineOf(c, u, h, v, problem, o, w))
  IN IF i \notin DOMAIN arguments THEN stop(e)
     ELSE IF argument.kind = "dashdash"
       THEN StepOf(0, LineOf(c, u, h, v, e, o, w \o [n \in 1..(Len(arguments) - i) |-> arguments[i + n].text]))
     ELSE IF argument.kind = "word" THEN StepOf(i + 1, LineOf(c, u, h, v, e, o, Append(w, argument.text)))
     ELSE IF argument.name \in {"-h", "help"} THEN StepOf(i + 1, LineOf(c, u, TRUE, v, e, o, w))
     ELSE IF argument.name \in {"-V", "version"} THEN StepOf(i + 1, LineOf(c, u, h, TRUE, e, o, w))
     ELSE IF argument.kind = "short" THEN stop("short option")
     ELSE IF argument.name \notin KnownOptions(c) \cup GlobalOptions THEN stop("unknown option")
     ELSE IF argument.inline THEN after(i + 1, GivenIn(o, argument.name, <<argument.text>>))
     ELSE IF argument.name \in FlagOptions THEN after(i + 1, GivenIn(o, argument.name, <<>>))
     ELSE IF ~TakesValue(arguments, i) THEN stop("value missing")
     ELSE after(i + 2, GivenIn(o, argument.name, <<arguments[i + 1].text>>))

RawTurn(arguments, i, parsed) ==
  LET argument == arguments[i]
      known == KnownOptions(parsed.command) \cup GlobalOptions
      after(n, result) == [i |-> n, parsed |-> result]
      leave(result) == [i |-> 0, parsed |-> result]
  IN IF i \notin DOMAIN arguments THEN leave(parsed)
     ELSE IF argument.kind = "dashdash"
       THEN leave([parsed EXCEPT !.positionals =
                     @ \o [n \in 1..(Len(arguments) - i) |-> arguments[i + n].text]])
     ELSE IF argument.kind = "word"
       THEN after(i + 1, [parsed EXCEPT !.positionals = Append(@, argument.text)])
     ELSE IF argument.name \in {"-h", "help"} THEN after(i + 1, [parsed EXCEPT !.help = TRUE])
     ELSE IF argument.name \in {"-V", "version"} THEN after(i + 1, [parsed EXCEPT !.version = TRUE])
     ELSE IF argument.kind = "short" THEN leave([parsed EXCEPT !.error = "short option"])
     ELSE IF argument.name \notin known THEN leave([parsed EXCEPT !.error = "unknown option"])
     ELSE IF argument.inline THEN after(i + 1, Given(parsed, argument.name, <<argument.text>>))
     ELSE IF argument.name \in FlagOptions THEN after(i + 1, Given(parsed, argument.name, <<>>))
     ELSE IF ~TakesValue(arguments, i) THEN leave([parsed EXCEPT !.error = "value missing"])
     ELSE after(i + 2, Given(parsed, argument.name, <<arguments[i + 1].text>>))

LEMMA NextIs ==
  ASSUME NEW arguments, NEW i, NEW c, NEW u, NEW h, NEW v, NEW e, NEW o, NEW w
  PROVE  ParseNext(arguments, StepOf(i, LineOf(c, u, h, v, e, o, w))) = TurnOf(arguments, i, c, u, h, v, e, o, w)
<1>1. PICK p : p = LineOf(c, u, h, v, e, o, w)  OBVIOUS
<1>2. PICK at : at = StepOf(i, p)  OBVIOUS
<1>3. at.i = i /\ at.parsed = p  BY <1>2, StepParts, Zenon
<1>4. p.command = c /\ p.options = o /\ p.positionals = w  BY <1>1, LineParts
<1>5. \A y : [p EXCEPT !.positionals = y] = LineOf(c, u, h, v, e, o, y)  BY <1>1 DEF LineOf
<1>6. \A y : [p EXCEPT !.help = y] = LineOf(c, u, y, v, e, o, w)  BY <1>1 DEF LineOf
<1>7. \A y : [p EXCEPT !.version = y] = LineOf(c, u, h, y, e, o, w)  BY <1>1 DEF LineOf
<1>8. \A y : [p EXCEPT !.error = y] = LineOf(c, u, h, v, y, o, w)  BY <1>1 DEF LineOf
<1>9. \A y : [p EXCEPT !.options = y] = LineOf(c, u, h, v, e, y, w)  BY <1>1 DEF LineOf
<1>10. \A name, values : Given(p, name, values) = LineOf(c, u, h, v, e, GivenIn(o, name, values), w)
  <2> TAKE name, values
  <2>1. Given(p, name, values) = [p EXCEPT !.options = GivenIn(p.options, name, values)]  BY Zenon DEF Given, GivenIn
  <2> QED BY <1>4, <1>9, <2>1, Zenon
<1>11. \A rest : [p EXCEPT !.positionals = @ \o rest] = LineOf(c, u, h, v, e, o, w \o rest)
  BY <1>4, <1>5, Zenon
<1>12. \A text : [p EXCEPT !.positionals = Append(@, text)] = LineOf(c, u, h, v, e, o, Append(w, text))
  BY <1>4, <1>5, Zenon
<1>13. [p EXCEPT !.help = TRUE] = LineOf(c, u, TRUE, v, e, o, w)  BY <1>6, Zenon
<1>14. [p EXCEPT !.version = TRUE] = LineOf(c, u, h, TRUE, e, o, w)  BY <1>7, Zenon
<1>a. ParseNext(arguments, at) = RawTurn(arguments, i, p)
  <2>1. ParseNext(arguments, at) = RawTurn(arguments, at.i, at.parsed)  BY DEF ParseNext, RawTurn
  <2> QED BY <1>3, <2>1, Zenon
<1> DEFINE known == KnownOptions(c) \cup GlobalOptions
           rest == [n \in 1..(Len(arguments) - i) |-> arguments[i + n].text]
           name == arguments[i].name
           text == arguments[i].text
           K1 == i \notin DOMAIN arguments
           K2 == arguments[i].kind = "dashdash"
           K3 == arguments[i].kind = "word"
           K4 == name \in {"-h", "help"}
           K5 == name \in {"-V", "version"}
           K6 == arguments[i].kind = "short"
           K7 == name \notin known
           K8 == arguments[i].inline
           K9 == name \in FlagOptions
           K10 == ~TakesValue(arguments, i)
           F(stop, y) == StepOf(stop, y)
<1>b. RawTurn(arguments, i, p) =
        IF K1 THEN F(0, p) ELSE IF K2 THEN F(0, [p EXCEPT !.positionals = @ \o rest])
        ELSE IF K3 THEN F(i + 1, [p EXCEPT !.positionals = Append(@, text)])
        ELSE IF K4 THEN F(i + 1, [p EXCEPT !.help = TRUE])
        ELSE IF K5 THEN F(i + 1, [p EXCEPT !.version = TRUE])
        ELSE IF K6 THEN F(0, [p EXCEPT !.error = "short option"])
        ELSE IF K7 THEN F(0, [p EXCEPT !.error = "unknown option"])
        ELSE IF K8 THEN F(i + 1, Given(p, name, <<text>>))
        ELSE IF K9 THEN F(i + 1, Given(p, name, <<>>))
        ELSE IF K10 THEN F(0, [p EXCEPT !.error = "value missing"])
        ELSE F(i + 2, Given(p, name, <<arguments[i + 1].text>>))
  <2>1. KnownOptions(p.command) = KnownOptions(c)  BY <1>4, Zenon
  <2> QED BY <2>1, Zenon DEF RawTurn, StepOf
<1>c. TurnOf(arguments, i, c, u, h, v, e, o, w) =
        IF K1 THEN F(0, p) ELSE IF K2 THEN F(0, LineOf(c, u, h, v, e, o, w \o rest))
        ELSE IF K3 THEN F(i + 1, LineOf(c, u, h, v, e, o, Append(w, text)))
        ELSE IF K4 THEN F(i + 1, LineOf(c, u, TRUE, v, e, o, w))
        ELSE IF K5 THEN F(i + 1, LineOf(c, u, h, TRUE, e, o, w))
        ELSE IF K6 THEN F(0, LineOf(c, u, h, v, "short option", o, w))
        ELSE IF K7 THEN F(0, LineOf(c, u, h, v, "unknown option", o, w))
        ELSE IF K8 THEN F(i + 1, LineOf(c, u, h, v, e, GivenIn(o, name, <<text>>), w))
        ELSE IF K9 THEN F(i + 1, LineOf(c, u, h, v, e, GivenIn(o, name, <<>>), w))
        ELSE IF K10 THEN F(0, LineOf(c, u, h, v, "value missing", o, w))
        ELSE F(i + 2, LineOf(c, u, h, v, e, GivenIn(o, name, <<arguments[i + 1].text>>), w))
  BY <1>1, Zenon DEF TurnOf
<1>15. ParseNext(arguments, at) = TurnOf(arguments, i, c, u, h, v, e, o, w)
  <2> HIDE DEF F, K1, K2, K3, K4, K5, K6, K7, K8, K9, K10, name, text, rest
  <2>1. RawTurn(arguments, i, p) = TurnOf(arguments, i, c, u, h, v, e, o, w)
    <3>1. F(0, [p EXCEPT !.positionals = @ \o rest]) = F(0, LineOf(c, u, h, v, e, o, w \o rest))  BY <1>11, Zenon
    <3>2. F(i + 1, [p EXCEPT !.positionals = Append(@, text)]) = F(i + 1, LineOf(c, u, h, v, e, o, Append(w, text)))
      BY <1>12, Zenon
    <3>3. F(i + 1, [p EXCEPT !.help = TRUE]) = F(i + 1, LineOf(c, u, TRUE, v, e, o, w))  BY <1>13, Zenon
    <3>4. F(i + 1, [p EXCEPT !.version = TRUE]) = F(i + 1, LineOf(c, u, h, TRUE, e, o, w))  BY <1>14, Zenon
    <3>5. \A y : F(0, [p EXCEPT !.error = y]) = F(0, LineOf(c, u, h, v, y, o, w))  BY <1>8, Zenon
    <3>6. \A n, y : F(n, Given(p, name, y)) = F(n, LineOf(c, u, h, v, e, GivenIn(o, name, y), w))  BY <1>10, Zenon
    <3>7. CASE K1  BY <1>b, <1>c, <3>7, Zenon
    <3>8. CASE ~K1 /\ K2  BY <1>b, <1>c, <3>1, <3>8, Zenon
    <3>9. CASE ~K1 /\ ~K2 /\ K3  BY <1>b, <1>c, <3>2, <3>9, Zenon
    <3>10. CASE ~K1 /\ ~K2 /\ ~K3 /\ K4  BY <1>b, <1>c, <3>3, <3>10, Zenon
    <3>11. CASE ~K1 /\ ~K2 /\ ~K3 /\ ~K4 /\ K5  BY <1>b, <1>c, <3>4, <3>11, Zenon
    <3>12. CASE ~K1 /\ ~K2 /\ ~K3 /\ ~K4 /\ ~K5 /\ (K6 \/ K7)  BY <1>b, <1>c, <3>5, <3>12, Zenon
    <3>13. CASE ~K1 /\ ~K2 /\ ~K3 /\ ~K4 /\ ~K5 /\ ~(K6 \/ K7)
      <4>1. CASE K8  BY <1>b, <1>c, <3>6, <3>13, <4>1, Zenon
      <4>2. CASE ~K8 /\ K9  BY <1>b, <1>c, <3>6, <3>13, <4>2, Zenon
      <4>3. CASE ~K8 /\ ~K9 /\ K10  BY <1>b, <1>c, <3>5, <3>13, <4>3, Zenon
      <4>4. CASE ~K8 /\ ~K9 /\ ~K10  BY <1>b, <1>c, <3>6, <3>13, <4>4, Zenon
      <4> QED BY <4>1, <4>2, <4>3, <4>4, Zenon
    <3> QED BY <3>7, <3>8, <3>9, <3>10, <3>11, <3>12, <3>13, Zenon
  <2> QED BY <1>a, <2>1, Zenon
<1> QED BY <1>1, <1>2, <1>15, Zenon

\* The turns of the parser's loop, one after the other.
Turns(f, arguments, start, N) ==
  f = [n \in 0..N |-> IF n = 0 THEN start ELSE ParseNext(arguments, f[n - 1])]

LEMMA TurnsExist ==
  ASSUME NEW arguments, NEW start, NEW last \in Nat
  PROVE  \E f : Turns(f, arguments, start, last)
<1> DEFINE D == {N \in Nat : \E f : Turns(f, arguments, start, N)}
           Body(f, n) == IF n = 0 THEN start ELSE ParseNext(arguments, f[n - 1])
<1>1. 0 \in D
  <2>1. PICK f : f = [n \in 0..0 |-> start]  OBVIOUS
  <2>2. \A n : n \in 0..0 <=> n = 0  OBVIOUS
  <2>3. \A n \in 0..0 : f[n] = Body(f, n)  BY <2>1, <2>2, Zenon
  <2>4. f = [n \in 0..0 |-> f[n]]  BY <2>1
  <2> HIDE DEF Body
  <2>5. f = [n \in 0..0 |-> Body(f, n)]  BY <2>3, <2>4, Zenon
  <2>6. Turns(f, arguments, start, 0)  BY <2>5, Zenon DEF Turns, Body
  <2>7. 0 \in Nat  OBVIOUS
  <2> QED BY <2>6, <2>7, Zenon
<1>2. ASSUME NEW N \in Nat, N \in D PROVE N + 1 \in D
  <2>1. PICK f : Turns(f, arguments, start, N)  BY <1>2, Zenon
  <2>2. f = [n \in 0..N |-> Body(f, n)]  BY <2>1, Zenon DEF Turns
  <2>3. \A n \in 0..N : f[n] = Body(f, n)
    <3> HIDE DEF Body
    <3> QED BY <2>2, Zenon
  <2>4. PICK g : g = [n \in 0..(N + 1) |-> IF n \in 0..N THEN f[n] ELSE Body(f, n)]  OBVIOUS
  <2>5. \A n \in 0..N : n \in 0..(N + 1)  OBVIOUS
  <2>6. \A n \in 0..(N + 1) : n # 0 => n - 1 \in 0..N  OBVIOUS
  <2>7. \A n \in 0..N : g[n] = f[n]
    <3> HIDE DEF Body
    <3> QED BY <2>4, <2>5, Zenon
  <2>8. \A n \in 0..(N + 1) : Body(g, n) = Body(f, n)  BY <2>6, <2>7, Zenon
  <2> HIDE DEF Body
  <2>9. \A n \in 0..(N + 1) : g[n] = Body(g, n)  BY <2>3, <2>4, <2>8, Zenon
  <2>10. g = [n \in 0..(N + 1) |-> g[n]]  BY <2>4
  <2>11. g = [n \in 0..(N + 1) |-> Body(g, n)]  BY <2>9, <2>10, Zenon
  <2>12. Turns(g, arguments, start, N + 1)  BY <2>11, Zenon DEF Turns, Body
  <2>13. N + 1 \in Nat  OBVIOUS
  <2> QED BY <2>12, <2>13, Zenon
<1>3. Nat \subseteq D
  <2> HIDE DEF D
  <2>1. \A N \in Nat : N \in D => N + 1 \in D  BY <1>2
  <2> QED BY <1>1, <2>1, SetInduction, Zenon
<1> QED BY <1>3, Zenon

\* A function that holds the loop's state after every turn.
Parses(f, arguments, i, parsed) ==
  /\ f[0] = StepOf(i, parsed)
  /\ \A n \in 0..Len(arguments) : f[n + 1] = ParseNext(arguments, f[n])
  /\ ParseFrom(arguments, i, parsed) = f[Len(arguments) + 1].parsed

LEMMA ParseFromIs ==
  ASSUME NEW arguments, NEW i, NEW parsed, Len(arguments) \in Nat
  PROVE  \E f : Parses(f, arguments, i, parsed)
<1> DEFINE f == CHOOSE g : Turns(g, arguments, StepOf(i, parsed), Len(arguments) + 1)
<1>1. ParseFrom(arguments, i, parsed) = f[Len(arguments) + 1].parsed  BY DEF ParseFrom, Turns, StepOf
<1>2. Turns(f, arguments, StepOf(i, parsed), Len(arguments) + 1)
  <2>1. PICK l \in Nat : l = Len(arguments) + 1  OBVIOUS
  <2>2. \E g : Turns(g, arguments, StepOf(i, parsed), l)  BY TurnsExist, Zenon
  <2> QED BY <2>1, <2>2, Zenon
<1> HIDE DEF f
<1>3. f = [n \in 0..(Len(arguments) + 1) |-> IF n = 0 THEN StepOf(i, parsed) ELSE ParseNext(arguments, f[n - 1])]
  BY <1>2, Zenon DEF Turns
<1>4. \A n \in 0..(Len(arguments) + 1) : f[n] = IF n = 0 THEN StepOf(i, parsed) ELSE ParseNext(arguments, f[n - 1])
  BY <1>3, Zenon
<1>5. 0 \in 0..(Len(arguments) + 1)  OBVIOUS
<1>6. \A n \in 0..Len(arguments) : n + 1 \in 0..(Len(arguments) + 1) /\ n + 1 # 0 /\ (n + 1) - 1 = n  OBVIOUS
<1>7. \A n \in 0..Len(arguments) : f[n + 1] = ParseNext(arguments, f[n])  BY <1>4, <1>6, Zenon
<1>8. f[0] = StepOf(i, parsed)  BY <1>4, <1>5, Zenon
<1> QED BY <1>1, <1>7, <1>8, Zenon DEF Parses

\* The options of a line to which a number of shards and one of them were added.
WithShards(o, ask) ==
  [n \in DOMAIN o \cup {"shards", "shard"} |->
     IF n = "shards" THEN <<<<ask[1]>>>> ELSE IF n = "shard" THEN <<<<ask[2]>>>> ELSE o[n]]

NoShards(o) == "shards" \notin DOMAIN o /\ "shard" \notin DOMAIN o

LEMMA GivenBoth ==
  ASSUME NEW o, NEW ask, NEW name, NEW values, name \notin {"shards", "shard"}
  PROVE  /\ GivenIn(WithShards(o, ask), name, values) = WithShards(GivenIn(o, name, values), ask)
         /\ NoShards(o) => NoShards(GivenIn(o, name, values))
<1> DEFINE W == WithShards(o, ask)
           G == GivenIn(o, name, values)
           Part(f, n) == (IF n \in DOMAIN f THEN f[n] ELSE <<>>) \o (IF n = name THEN values ELSE <<>>)
           Over(f, n) == IF n = "shards" THEN <<<<ask[1]>>>> ELSE IF n = "shard" THEN <<<<ask[2]>>>> ELSE f[n]
<1>1. W = [n \in DOMAIN o \cup {"shards", "shard"} |-> Over(o, n)]  BY Zenon DEF WithShards
<1>2. G = [n \in DOMAIN o \cup {name} |-> Part(o, n)]  BY Zenon DEF GivenIn
<1>3. GivenIn(W, name, values) = [n \in DOMAIN W \cup {name} |-> Part(W, n)]  BY Zenon DEF GivenIn
<1>4. WithShards(G, ask) = [n \in DOMAIN G \cup {"shards", "shard"} |-> Over(G, n)]  BY Zenon DEF WithShards
<1>5. DOMAIN W = DOMAIN o \cup {"shards", "shard"}
  <2> HIDE DEF W, Over
  <2> QED BY <1>1
<1>6. DOMAIN G = DOMAIN o \cup {name}
  <2> HIDE DEF G, Part
  <2> QED BY <1>2
<1>a. /\ \A n \in DOMAIN W : W[n] = Over(o, n)
      /\ \A n \in DOMAIN G : G[n] = Part(o, n)
  <2> HIDE DEF W, G, Over, Part
  <2> QED BY <1>1, <1>2, <1>5, <1>6, Zenon
<1>7. DOMAIN W \cup {name} = DOMAIN G \cup {"shards", "shard"}
  <2> HIDE DEF W, G
  <2> QED BY <1>5, <1>6
<1>8. \A n \in DOMAIN W \cup {name} : Part(W, n) = Over(G, n)
  <2> TAKE n \in DOMAIN W \cup {name}
  <2>1. <<<<ask[1]>>>> \o <<>> = <<<<ask[1]>>>> /\ <<<<ask[2]>>>> \o <<>> = <<<<ask[2]>>>>  OBVIOUS
  <2>2. CASE n \in {"shards", "shard"}
    <3>1. n \in DOMAIN W /\ n # name  BY <1>5, <2>2, Zenon
    <3>2. W[n] = Over(o, n)
      <4> HIDE DEF W, Over
      <4> QED BY <1>a, <3>1, Zenon
    <3>3. Part(W, n) = W[n] \o <<>>
      <4> HIDE DEF W
      <4> QED BY <3>1, Zenon
    <3>4. Over(o, n) = Over(G, n)
      <4> HIDE DEF G
      <4> QED BY <2>2, Zenon
    <3>5. Over(G, n) \in {<<<<ask[1]>>>>, <<<<ask[2]>>>>}
      <4> HIDE DEF G
      <4> QED BY <2>2, Zenon
    <3> HIDE DEF W, G, Over, Part
    <3> QED BY <2>1, <3>2, <3>3, <3>4, <3>5, Zenon
  <2>3. CASE n \notin {"shards", "shard"}
    <3>1. n \in DOMAIN W <=> n \in DOMAIN o  BY <1>5, <2>3, Zenon
    <3>2. n \in DOMAIN o => W[n] = o[n]
      <4>1. Over(o, n) = o[n]  BY <2>3, Zenon
      <4> HIDE DEF W, Over
      <4> QED BY <1>a, <3>1, <4>1, Zenon
    <3>3. Part(W, n) = Part(o, n)
      <4> HIDE DEF W
      <4> QED BY <3>1, <3>2, Zenon
    <3>4. n \in DOMAIN G  BY <1>5, <1>6, <2>3, Zenon
    <3>5. G[n] = Part(o, n)
      <4> HIDE DEF G, Part
      <4> QED BY <1>a, <3>4, Zenon
    <3>6. Over(G, n) = G[n]
      <4> HIDE DEF G
      <4> QED BY <2>3, Zenon
    <3> HIDE DEF W, G, Over, Part
    <3> QED BY <3>3, <3>5, <3>6, Zenon
  <2> QED BY <2>2, <2>3, Zenon
<1>9. GivenIn(W, name, values) = WithShards(G, ask)
  <2> HIDE DEF W, G, Over, Part
  <2> QED BY <1>3, <1>4, <1>7, <1>8, Zenon
<1>10. NoShards(o) => NoShards(G)
  <2> HIDE DEF G
  <2> QED BY <1>6, Zenon DEF NoShards
<1> QED BY <1>9, <1>10

\* Two lines: the second has three more arguments behind the command.
Shifted(A, B) ==
  /\ Len(A) \in Nat /\ Len(B) = Len(A) + 3 /\ DOMAIN A = 1..Len(A) /\ DOMAIN B = 1..Len(B)
  /\ \A i \in 2..Len(A) : B[i + 3] = A[i] /\ A[i].name \notin {"shards", "shard"}

Onward(j) == IF j = 0 THEN 0 ELSE j + 3

\* What both lines come to in one turn.
Together(A, B, ask, i, c, u, h, v, e, o, w, j, hh, vv, ee, oo, ww) ==
  /\ TurnOf(A, i, c, u, h, v, e, o, w) = StepOf(j, LineOf(c, u, hh, vv, ee, oo, ww))
  /\ TurnOf(B, Onward(i), c, u, h, v, e, WithShards(o, ask), w) =
       StepOf(Onward(j), LineOf(c, u, hh, vv, ee, WithShards(oo, ask), ww))
  /\ j = 0 \/ (j \in Nat /\ j >= i + 1)
  /\ NoShards(o) => NoShards(oo)

LEMMA BothEnd ==
  ASSUME NEW A, NEW B, NEW ask, NEW i \in Nat, NEW c, NEW u, NEW h, NEW v, NEW e, NEW o, NEW w,
         Shifted(A, B), i \notin 1..Len(A)
  PROVE  Together(A, B, ask, i, c, u, h, v, e, o, w, 0, h, v, e, o, w)
<1>1. i \notin DOMAIN A  BY Zenon DEF Shifted
<1>2. Onward(i) \notin DOMAIN B
  <2>1. Len(A) \in Nat /\ DOMAIN B = 1..(Len(A) + 3)  BY Zenon DEF Shifted
  <2> QED BY <2>1 DEF Onward
<1>3. Onward(0) = 0  BY Zenon DEF Onward
<1>4. TurnOf(A, i, c, u, h, v, e, o, w) = StepOf(0, LineOf(c, u, h, v, e, o, w))  BY <1>1, Zenon DEF TurnOf
<1>5. TurnOf(B, Onward(i), c, u, h, v, e, WithShards(o, ask), w) =
        StepOf(0, LineOf(c, u, h, v, e, WithShards(o, ask), w))
  BY <1>2, Zenon DEF TurnOf
<1> QED BY <1>3, <1>4, <1>5, Zenon DEF Together

LEMMA SameTurn ==
  ASSUME NEW A, NEW B, NEW ask, NEW i \in Nat, NEW c, NEW u, NEW h, NEW v, NEW e, NEW o, NEW w,
         Shifted(A, B), i >= 2 \/ i = 0
  PROVE  \E j, hh, vv, ee, oo, ww : Together(A, B, ask, i, c, u, h, v, e, o, w, j, hh, vv, ee, oo, ww)
<1>0. CASE i \notin 1..Len(A)  BY <1>0, BothEnd, Zenon
<1>a. CASE i \in 1..Len(A)
  <2>0. Len(A) \in Nat /\ Len(B) = Len(A) + 3 /\ DOMAIN A = 1..Len(A) /\ DOMAIN B = 1..(Len(A) + 3)
    BY Zenon DEF Shifted
  <2>1. i \in 2..Len(A) /\ Onward(i) = i + 3 /\ i + 3 \in 1..(Len(A) + 3) /\ i # 0  BY <1>a, <2>0 DEF Onward
  <2>2. B[i + 3] = A[i] /\ A[i].name \notin {"shards", "shard"}
    <3>1. \A k \in 2..Len(A) : B[k + 3] = A[k] /\ A[k].name \notin {"shards", "shard"}  BY Zenon DEF Shifted
    <3>2. i \in 2..Len(A)  BY <2>1
    <3> QED BY <3>1, <3>2, Zenon
  <2>3. Onward(0) = 0 /\ Onward(i + 1) = (i + 3) + 1 /\ Onward(i + 2) = (i + 3) + 2  BY DEF Onward
  <2>4. /\ i + 1 \in Nat /\ i + 1 >= i + 1 /\ i + 2 \in Nat /\ i + 2 >= i + 1  OBVIOUS
  <2>5. i < Len(A) => B[(i + 3) + 1] = A[i + 1]
    <3> SUFFICES ASSUME i < Len(A) PROVE B[(i + 3) + 1] = A[i + 1]  OBVIOUS
    <3>1. i + 1 \in 2..Len(A) /\ (i + 1) + 3 = (i + 3) + 1  BY <2>0, <2>1
    <3> QED BY <3>1, Zenon DEF Shifted
  <2>6. TakesValue(B, i + 3) <=> TakesValue(A, i)
    <3>1. i + 3 < Len(B) <=> i < Len(A)  BY <2>0
    <3> QED BY <2>5, <3>1, Zenon DEF TakesValue
  <2> DEFINE rest(X, n) == [k \in 1..(Len(X) - n) |-> X[n + k].text]
  <2>7. rest(B, i + 3) = rest(A, i)
    <3>1. Len(B) - (i + 3) = Len(A) - i  BY <2>0
    <3>2. \A k \in 1..(Len(A) - i) : B[(i + 3) + k] = A[i + k]
      <4> TAKE k \in 1..(Len(A) - i)
      <4>1. i + k \in 2..Len(A) /\ (i + k) + 3 = (i + 3) + k  BY <2>0, <2>1
      <4> QED BY <4>1, Zenon DEF Shifted
    <3> QED BY <3>1, <3>2, Zenon
  <2> DEFINE W == WithShards(o, ask)
             name == A[i].name
             text == A[i].text
             K2 == A[i].kind = "dashdash"
             K3 == A[i].kind = "word"
             K4 == name \in {"-h", "help"}
             K5 == name \in {"-V", "version"}
             K6 == A[i].kind = "short"
             K7 == name \notin KnownOptions(c) \cup GlobalOptions
             K8 == A[i].inline
             K9 == name \in FlagOptions
             K10 == ~TakesValue(A, i)
             next == A[i + 1].text
             R == rest(A, i)
  <2>8. TurnOf(A, i, c, u, h, v, e, o, w) =
        IF K2 THEN StepOf(0, LineOf(c, u, h, v, e, o, w \o R))
        ELSE IF K3 THEN StepOf(i + 1, LineOf(c, u, h, v, e, o, Append(w, text)))
        ELSE IF K4 THEN StepOf(i + 1, LineOf(c, u, TRUE, v, e, o, w))
        ELSE IF K5 THEN StepOf(i + 1, LineOf(c, u, h, TRUE, e, o, w))
        ELSE IF K6 THEN StepOf(0, LineOf(c, u, h, v, "short option", o, w))
        ELSE IF K7 THEN StepOf(0, LineOf(c, u, h, v, "unknown option", o, w))
        ELSE IF K8 THEN StepOf(i + 1, LineOf(c, u, h, v, e, GivenIn(o, name, <<text>>), w))
        ELSE IF K9 THEN StepOf(i + 1, LineOf(c, u, h, v, e, GivenIn(o, name, <<>>), w))
        ELSE IF K10 THEN StepOf(0, LineOf(c, u, h, v, "value missing", o, w))
        ELSE StepOf(i + 2, LineOf(c, u, h, v, e, GivenIn(o, name, <<next>>), w))
    <3>1. ~(i \notin DOMAIN A)  BY <1>a, <2>0, Zenon
    <3> QED BY <3>1, Zenon DEF TurnOf
  <2>9. TurnOf(B, i + 3, c, u, h, v, e, W, w) =
        IF K2 THEN StepOf(0, LineOf(c, u, h, v, e, W, w \o R))
        ELSE IF K3 THEN StepOf((i + 3) + 1, LineOf(c, u, h, v, e, W, Append(w, text)))
        ELSE IF K4 THEN StepOf((i + 3) + 1, LineOf(c, u, TRUE, v, e, W, w))
        ELSE IF K5 THEN StepOf((i + 3) + 1, LineOf(c, u, h, TRUE, e, W, w))
        ELSE IF K6 THEN StepOf(0, LineOf(c, u, h, v, "short option", W, w))
        ELSE IF K7 THEN StepOf(0, LineOf(c, u, h, v, "unknown option", W, w))
        ELSE IF K8 THEN StepOf((i + 3) + 1, LineOf(c, u, h, v, e, GivenIn(W, name, <<text>>), w))
        ELSE IF K9 THEN StepOf((i + 3) + 1, LineOf(c, u, h, v, e, GivenIn(W, name, <<>>), w))
        ELSE IF K10 THEN StepOf(0, LineOf(c, u, h, v, "value missing", W, w))
        ELSE StepOf((i + 3) + 2, LineOf(c, u, h, v, e, GivenIn(W, name, <<next>>), w))
    <3> DEFINE argument == B[i + 3]
               there == B[(i + 3) + 1].text
    <3>1. ~(i + 3 \notin DOMAIN B)  BY <2>0, <2>1, Zenon
    <3>2. TurnOf(B, i + 3, c, u, h, v, e, W, w) =
        IF argument.kind = "dashdash" THEN StepOf(0, LineOf(c, u, h, v, e, W, w \o rest(B, i + 3)))
        ELSE IF argument.kind = "word" THEN StepOf((i + 3) + 1, LineOf(c, u, h, v, e, W, Append(w, argument.text)))
        ELSE IF argument.name \in {"-h", "help"} THEN StepOf((i + 3) + 1, LineOf(c, u, TRUE, v, e, W, w))
        ELSE IF argument.name \in {"-V", "version"} THEN StepOf((i + 3) + 1, LineOf(c, u, h, TRUE, e, W, w))
        ELSE IF argument.kind = "short" THEN StepOf(0, LineOf(c, u, h, v, "short option", W, w))
        ELSE IF argument.name \notin KnownOptions(c) \cup GlobalOptions THEN StepOf(0, LineOf(c, u, h, v, "unknown option", W, w))
        ELSE IF argument.inline THEN StepOf((i + 3) + 1, LineOf(c, u, h, v, e, GivenIn(W, argument.name, <<argument.text>>), w))
        ELSE IF argument.name \in FlagOptions THEN StepOf((i + 3) + 1, LineOf(c, u, h, v, e, GivenIn(W, argument.name, <<>>), w))
        ELSE IF ~TakesValue(B, i + 3) THEN StepOf(0, LineOf(c, u, h, v, "value missing", W, w))
        ELSE StepOf((i + 3) + 2, LineOf(c, u, h, v, e, GivenIn(W, argument.name, <<there>>), w))
      BY <3>1, Zenon DEF TurnOf
    <3>3. argument = A[i]  BY <2>2, Zenon
    <3>4. TakesValue(A, i) => there = next
      <4>1. TakesValue(A, i) => i < Len(A)  BY Zenon DEF TakesValue
      <4> QED BY <2>5, <4>1, Zenon
    <3>5. GivenIn(W, A[i].name, <<there>>) = GivenIn(W, A[i].name, <<next>>) \/ K10  BY <3>4, Zenon
    <3> HIDE DEF rest, W, there, next, argument
    <3> QED BY <3>2, <3>3, <3>5, <2>6, <2>7, Zenon
  <2>10. \A values : GivenIn(W, name, values) = WithShards(GivenIn(o, name, values), ask)
           /\ (NoShards(o) => NoShards(GivenIn(o, name, values)))
    BY <2>2, GivenBoth
  <2>11. W = WithShards(o, ask)  OBVIOUS
  <2> DEFINE T(j, hh, vv, ee, oo, ww) == Together(A, B, ask, i, c, u, h, v, e, o, w, j, hh, vv, ee, oo, ww)
  <2>12. ASSUME NEW j, NEW hh, NEW vv, NEW ee, NEW oo, NEW ww,
                TurnOf(A, i, c, u, h, v, e, o, w) = StepOf(j, LineOf(c, u, hh, vv, ee, oo, ww)),
                TurnOf(B, i + 3, c, u, h, v, e, W, w) =
                  StepOf(Onward(j), LineOf(c, u, hh, vv, ee, WithShards(oo, ask), ww)),
                j \in {0, i + 1, i + 2}, NoShards(o) => NoShards(oo)
         PROVE  T(j, hh, vv, ee, oo, ww)
    BY <2>1, <2>4, <2>12, Zenon DEF Together
  <2> HIDE DEF T, W, K2, K3, K4, K5, K6, K7, K8, K9, K10, R, name, text, next
  <2> DEFINE Option == ~K2 /\ ~K3 /\ ~K4 /\ ~K5
  <2>14. 0 \in {0, i + 1, i + 2} /\ i + 1 \in {0, i + 1, i + 2} /\ i + 2 \in {0, i + 1, i + 2}  BY Zenon
  <2>20. CASE K2
    <3>1. TurnOf(A, i, c, u, h, v, e, o, w) = StepOf(0, LineOf(c, u, h, v, e, o, w \o R))
      BY <2>8, <2>20, Zenon
    <3>2. TurnOf(B, i + 3, c, u, h, v, e, W, w) =
            StepOf(Onward(0), LineOf(c, u, h, v, e, WithShards(o, ask), w \o R))
      BY <2>3, <2>9, <2>10, <2>11, <2>20, Zenon
    <3>3. T(0, h, v, e, o, w \o R)  BY <2>10, <2>12, <2>14, <3>1, <3>2, Zenon
    <3> QED BY <3>3, Zenon DEF T
  <2>21. CASE ~K2 /\ K3
    <3>1. TurnOf(A, i, c, u, h, v, e, o, w) = StepOf(i + 1, LineOf(c, u, h, v, e, o, Append(w, text)))
      BY <2>8, <2>21, Zenon
    <3>2. TurnOf(B, i + 3, c, u, h, v, e, W, w) =
            StepOf(Onward(i + 1), LineOf(c, u, h, v, e, WithShards(o, ask), Append(w, text)))
      BY <2>3, <2>9, <2>10, <2>11, <2>21, Zenon
    <3>3. T(i + 1, h, v, e, o, Append(w, text))  BY <2>10, <2>12, <2>14, <3>1, <3>2, Zenon
    <3> QED BY <3>3, Zenon DEF T
  <2>22. CASE ~K2 /\ ~K3 /\ K4
    <3>1. TurnOf(A, i, c, u, h, v, e, o, w) = StepOf(i + 1, LineOf(c, u, TRUE, v, e, o, w))
      BY <2>8, <2>22, Zenon
    <3>2. TurnOf(B, i + 3, c, u, h, v, e, W, w) =
            StepOf(Onward(i + 1), LineOf(c, u, TRUE, v, e, WithShards(o, ask), w))
      BY <2>3, <2>9, <2>10, <2>11, <2>22, Zenon
    <3>3. T(i + 1, TRUE, v, e, o, w)  BY <2>10, <2>12, <2>14, <3>1, <3>2, Zenon
    <3> QED BY <3>3, Zenon DEF T
  <2>23. CASE ~K2 /\ ~K3 /\ ~K4 /\ K5
    <3>1. TurnOf(A, i, c, u, h, v, e, o, w) = StepOf(i + 1, LineOf(c, u, h, TRUE, e, o, w))
      BY <2>8, <2>23, Zenon
    <3>2. TurnOf(B, i + 3, c, u, h, v, e, W, w) =
            StepOf(Onward(i + 1), LineOf(c, u, h, TRUE, e, WithShards(o, ask), w))
      BY <2>3, <2>9, <2>10, <2>11, <2>23, Zenon
    <3>3. T(i + 1, h, TRUE, e, o, w)  BY <2>10, <2>12, <2>14, <3>1, <3>2, Zenon
    <3> QED BY <3>3, Zenon DEF T
  <2>24. CASE Option /\ K6
    <3>1. TurnOf(A, i, c, u, h, v, e, o, w) = StepOf(0, LineOf(c, u, h, v, "short option", o, w))
      BY <2>8, <2>24, Zenon
    <3>2. TurnOf(B, i + 3, c, u, h, v, e, W, w) =
            StepOf(Onward(0), LineOf(c, u, h, v, "short option", WithShards(o, ask), w))
      BY <2>3, <2>9, <2>10, <2>11, <2>24, Zenon
    <3>3. T(0, h, v, "short option", o, w)  BY <2>10, <2>12, <2>14, <3>1, <3>2, Zenon
    <3> QED BY <3>3, Zenon DEF T
  <2>25. CASE Option /\ ~K6 /\ K7
    <3>1. TurnOf(A, i, c, u, h, v, e, o, w) = StepOf(0, LineOf(c, u, h, v, "unknown option", o, w))
      BY <2>8, <2>25, Zenon
    <3>2. TurnOf(B, i + 3, c, u, h, v, e, W, w) =
            StepOf(Onward(0), LineOf(c, u, h, v, "unknown option", WithShards(o, ask), w))
      BY <2>3, <2>9, <2>10, <2>11, <2>25, Zenon
    <3>3. T(0, h, v, "unknown option", o, w)  BY <2>10, <2>12, <2>14, <3>1, <3>2, Zenon
    <3> QED BY <3>3, Zenon DEF T
  <2>26. CASE Option /\ ~K6 /\ ~K7 /\ K8
    <3>1. TurnOf(A, i, c, u, h, v, e, o, w) = StepOf(i + 1, LineOf(c, u, h, v, e, GivenIn(o, name, <<text>>), w))
      BY <2>8, <2>26, Zenon
    <3>2. TurnOf(B, i + 3, c, u, h, v, e, W, w) =
            StepOf(Onward(i + 1), LineOf(c, u, h, v, e, WithShards(GivenIn(o, name, <<text>>), ask), w))
      BY <2>3, <2>9, <2>10, <2>11, <2>26, Zenon
    <3>3. T(i + 1, h, v, e, GivenIn(o, name, <<text>>), w)  BY <2>10, <2>12, <2>14, <3>1, <3>2, Zenon
    <3> QED BY <3>3, Zenon DEF T
  <2>27. CASE Option /\ ~K6 /\ ~K7 /\ ~K8 /\ K9
    <3>1. TurnOf(A, i, c, u, h, v, e, o, w) = StepOf(i + 1, LineOf(c, u, h, v, e, GivenIn(o, name, <<>>), w))
      BY <2>8, <2>27, Zenon
    <3>2. TurnOf(B, i + 3, c, u, h, v, e, W, w) =
            StepOf(Onward(i + 1), LineOf(c, u, h, v, e, WithShards(GivenIn(o, name, <<>>), ask), w))
      BY <2>3, <2>9, <2>10, <2>11, <2>27, Zenon
    <3>3. T(i + 1, h, v, e, GivenIn(o, name, <<>>), w)  BY <2>10, <2>12, <2>14, <3>1, <3>2, Zenon
    <3> QED BY <3>3, Zenon DEF T
  <2>28. CASE Option /\ ~K6 /\ ~K7 /\ ~K8 /\ ~K9 /\ K10
    <3>1. TurnOf(A, i, c, u, h, v, e, o, w) = StepOf(0, LineOf(c, u, h, v, "value missing", o, w))
      BY <2>8, <2>28, Zenon
    <3>2. TurnOf(B, i + 3, c, u, h, v, e, W, w) =
            StepOf(Onward(0), LineOf(c, u, h, v, "value missing", WithShards(o, ask), w))
      BY <2>3, <2>9, <2>10, <2>11, <2>28, Zenon
    <3>3. T(0, h, v, "value missing", o, w)  BY <2>10, <2>12, <2>14, <3>1, <3>2, Zenon
    <3> QED BY <3>3, Zenon DEF T
  <2>29. CASE Option /\ ~K6 /\ ~K7 /\ ~K8 /\ ~K9 /\ ~K10
    <3>1. TurnOf(A, i, c, u, h, v, e, o, w) = StepOf(i + 2, LineOf(c, u, h, v, e, GivenIn(o, name, <<next>>), w))
      BY <2>8, <2>29, Zenon
    <3>2. TurnOf(B, i + 3, c, u, h, v, e, W, w) =
            StepOf(Onward(i + 2), LineOf(c, u, h, v, e, WithShards(GivenIn(o, name, <<next>>), ask), w))
      BY <2>3, <2>9, <2>10, <2>11, <2>29, Zenon
    <3>3. T(i + 2, h, v, e, GivenIn(o, name, <<next>>), w)  BY <2>10, <2>12, <2>14, <3>1, <3>2, Zenon
    <3> QED BY <3>3, Zenon DEF T
  <2> QED BY <2>20, <2>21, <2>22, <2>23, <2>24, <2>25, <2>26, <2>27, <2>28, <2>29, Zenon
<1> QED BY <1>0, <1>a, Zenon

RunOf(h, v, e, o, w) == LineOf("run", <<>>, h, v, e, o, w)

\* The record with which the options of `run` are parsed.
AtRun == RunOf(FALSE, FALSE, "none", <<>>, <<>>)

\* A line whose first argument is the command.
StartsRun(arguments) ==
  Len(arguments) \in Nat /\ DOMAIN arguments = 1..Len(arguments) /\ 1 <= Len(arguments)
  /\ arguments[1] = Word(<<"run">>)

LEMMA WordParts ==
  ASSUME NEW text
  PROVE  /\ Word(text).kind = "word" /\ Word(text).text = text /\ Word(text).name = Empty
<1>1. PICK no : no = FALSE  OBVIOUS
<1>2. Word(text) = [kind |-> "word", name |-> Empty, text |-> text, inline |-> no]  BY <1>1, Zenon DEF Word, Empty
<1> QED BY <1>2

LEMMA ParseRun ==
  ASSUME NEW arguments, StartsRun(arguments), ParseFrom(arguments, 2, AtRun).command = "run"
  PROVE  Parse(arguments) = ParseFrom(arguments, 2, AtRun)
<1> DEFINE leading == {"-h", "-V", "help", "version"}
           IsLeading(i) == arguments[i].name \in leading /\ ~arguments[i].inline
           first == CHOOSE n \in 1..(Len(arguments) + 1) :
                      /\ \A i \in 1..(n - 1) : IsLeading(i)
                      /\ n \in DOMAIN arguments => ~IsLeading(n)
           asked == {arguments[i].name : i \in 1..(first - 1)}
           Bare(n) == n \in DOMAIN arguments /\ ~IsDashed(arguments[n])
           command == IF Bare(first) /\ arguments[first].text # <<>> THEN Head(arguments[first].text) ELSE ""
           second == IF Bare(first) THEN first + 1 ELSE first
           hasSub == command \in {"ai", "db"} /\ Bare(second)
           start == [NoCommand EXCEPT !.command = command,
                     !.subcommand = IF hasSub THEN arguments[second].text ELSE <<>>,
                     !.help = asked \cap {"-h", "help"} # {},
                     !.version = asked \cap {"-V", "version"} # {}]
           parsed == ParseFrom(arguments, IF hasSub THEN second + 1 ELSE second, start)
<1>1. Parse(arguments) =
        IF parsed.error # "none" THEN parsed
        ELSE IF parsed.help \/ parsed.version THEN parsed
        ELSE IF parsed.command = "" THEN [parsed EXCEPT !.help = TRUE]
        ELSE IF parsed.command \notin Commands THEN [parsed EXCEPT !.error = "unknown command"]
        ELSE parsed
  BY DEF Parse
<1>2. Len(arguments) \in Nat /\ DOMAIN arguments = 1..Len(arguments) /\ 1 <= Len(arguments)
      /\ arguments[1] = Word(<<"run">>)
  BY Zenon DEF StartsRun
<1>3. arguments[1].kind = "word" /\ arguments[1].text = <<"run">> /\ arguments[1].name = Empty
  BY <1>2, WordParts, Zenon
<1>4. ~IsLeading(1)  BY <1>3, Zenon DEF Empty
<1>5. Bare(1)
  <2>1. 1 \in DOMAIN arguments  BY <1>2
  <2> QED BY <1>3, <2>1, Zenon DEF IsDashed
<1>6. first = 1
  <2> HIDE DEF IsLeading
  <2>1. \A n \in 1..(Len(arguments) + 1) :
          (\A i \in 1..(n - 1) : IsLeading(i)) /\ (n \in DOMAIN arguments => ~IsLeading(n)) <=> n = 1
    <3> TAKE n \in 1..(Len(arguments) + 1)
    <3>1. n # 1 => 1 \in 1..(n - 1)  BY <1>2
    <3>2. n = 1 => \A i \in 1..(n - 1) : FALSE  OBVIOUS
    <3> QED BY <1>4, <3>1, <3>2, Zenon
  <2>2. 1 \in 1..(Len(arguments) + 1)  BY <1>2
  <2>3. first \in 1..(Len(arguments) + 1) /\ (\A i \in 1..(first - 1) : IsLeading(i))
        /\ (first \in DOMAIN arguments => ~IsLeading(first))
    BY <2>1, <2>2, Zenon
  <2> HIDE DEF first
  <2> QED BY <2>1, <2>3, Zenon
<1> HIDE DEF first
<1>7. command = "run"
  <2>1. <<"run">> # <<>> /\ Head(<<"run">>) = "run"  OBVIOUS
  <2> HIDE DEF Bare
  <2> QED BY <1>3, <1>5, <1>6, <2>1, Zenon
<1> HIDE DEF command
<1>8. second = 2
  <2>1. 1 + 1 = 2  OBVIOUS
  <2> HIDE DEF Bare
  <2> QED BY <1>5, <1>6, <2>1, Zenon
<1>9. ~hasSub  BY <1>7
<1>10. \A y : y \notin asked
  <2>1. \A i : i \notin 1..(first - 1)  BY <1>6
  <2> QED BY <2>1, Zenon
<1>11. start = AtRun
  <2>1. NoCommand = LineOf(Empty, <<>>, FALSE, FALSE, "none", <<>>, <<>>)  BY Zenon DEF NoCommand, LineOf, Empty
  <2>a. PICK b, c, u, h, e : b = Empty /\ c = "run" /\ u = <<>> /\ h = FALSE /\ e = "none"  OBVIOUS
  <2>2. [LineOf(b, u, h, h, e, u, u) EXCEPT !.command = c, !.subcommand = u, !.help = h, !.version = h] =
          LineOf(c, u, h, h, e, u, u)
    <3>1. [LineOf(b, u, h, h, e, u, u) EXCEPT !.command = c] = LineOf(c, u, h, h, e, u, u)  BY DEF LineOf
    <3>2. [LineOf(c, u, h, h, e, u, u) EXCEPT !.subcommand = u] = LineOf(c, u, h, h, e, u, u)  BY DEF LineOf
    <3>3. [LineOf(c, u, h, h, e, u, u) EXCEPT !.help = h] = LineOf(c, u, h, h, e, u, u)  BY DEF LineOf
    <3>4. [LineOf(c, u, h, h, e, u, u) EXCEPT !.version = h] = LineOf(c, u, h, h, e, u, u)  BY DEF LineOf
    <3>5. PICK line : line = LineOf(b, u, h, h, e, u, u)  OBVIOUS
    <3>6. [line EXCEPT !.command = c, !.subcommand = u, !.help = h, !.version = h] =
            [[[[line EXCEPT !.command = c] EXCEPT !.subcommand = u] EXCEPT !.help = h] EXCEPT !.version = h]
      BY Zenon
    <3> QED BY <3>1, <3>2, <3>3, <3>4, <3>5, <3>6, Zenon
  <2>3. (asked \cap {"-h", "help"} # {}) = FALSE /\ (asked \cap {"-V", "version"} # {}) = FALSE
    <3> HIDE DEF asked
    <3> QED BY <1>10, Zenon
  <2>4. (IF hasSub THEN arguments[second].text ELSE <<>>) = <<>>
    <3> HIDE DEF hasSub
    <3> QED BY <1>9, Zenon
  <2>5. start = [LineOf(Empty, <<>>, FALSE, FALSE, "none", <<>>, <<>>)
                   EXCEPT !.command = "run", !.subcommand = <<>>, !.help = FALSE, !.version = FALSE]
    <3> HIDE DEF asked, hasSub
    <3> QED BY <1>7, <2>1, <2>3, <2>4, Zenon
  <2>6. AtRun = LineOf("run", <<>>, FALSE, FALSE, "none", <<>>, <<>>)  BY Zenon DEF AtRun, RunOf
  <2> HIDE DEF start
  <2>7. [LineOf(Empty, <<>>, FALSE, FALSE, "none", <<>>, <<>>)
           EXCEPT !.command = "run", !.subcommand = <<>>, !.help = FALSE, !.version = FALSE] =
          LineOf("run", <<>>, FALSE, FALSE, "none", <<>>, <<>>)
    BY <2>2, <2>a, Zenon
  <2> QED BY <2>5, <2>6, <2>7, Zenon
<1>12. parsed = ParseFrom(arguments, 2, AtRun)
  <2> HIDE DEF start, second, hasSub
  <2> QED BY <1>8, <1>9, <1>11, Zenon
<1>13. "run" \in Commands  BY DEF Commands, CommandOptions
<1> HIDE DEF parsed
<1>14. parsed.command = "run"  BY <1>12, Zenon
<1> QED BY <1>1, <1>12, <1>13, <1>14, Zenon

\* A line of `run` with a shard in front of its other options.
ShardLine(B, ask) ==
  /\ StartsRun(B) /\ 4 <= Len(B)
  /\ B[2] = LongWith("shards", <<ask[1]>>) /\ B[3] = Long("shard") /\ B[4] = Word(<<ask[2]>>)

LEMMA BothGiven ==
  ASSUME NEW ask
  PROVE  GivenIn(GivenIn(<<>>, "shards", <<<<ask[1]>>>>), "shard", <<<<ask[2]>>>>) = WithShards(<<>>, ask)
<1> DEFINE one == GivenIn(<<>>, "shards", <<<<ask[1]>>>>)
           two == GivenIn(one, "shard", <<<<ask[2]>>>>)
<1>1. PICK a, b : a = <<<<ask[1]>>>> /\ b = <<<<ask[2]>>>> /\ <<>> \o a = a /\ a \o <<>> = a /\ <<>> \o b = b
  <2>1. <<>> \o <<<<ask[1]>>>> = <<<<ask[1]>>>> /\ <<<<ask[1]>>>> \o <<>> = <<<<ask[1]>>>> /\ <<>> \o <<<<ask[2]>>>> = <<<<ask[2]>>>>
    OBVIOUS
  <2> QED BY <2>1, Zenon
<1>2. DOMAIN <<>> = {}  OBVIOUS
<1>3. one = [n \in {"shards"} |-> a]
  <2>1. one = [n \in {"shards"} |-> (IF n \in DOMAIN <<>> THEN <<>>[n] ELSE <<>>) \o (IF n = "shards" THEN a ELSE <<>>)]
    <3>1. DOMAIN <<>> \cup {"shards"} = {"shards"}  BY <1>2
    <3> QED BY <1>1, <3>1, Zenon DEF GivenIn
  <2>2. \A n \in {"shards"} : (IF n \in DOMAIN <<>> THEN <<>>[n] ELSE <<>>) \o (IF n = "shards" THEN a ELSE <<>>) = a
    BY <1>1, <1>2, Zenon
  <2> HIDE DEF one
  <2> QED BY <2>1, <2>2, Zenon
<1>4. DOMAIN one = {"shards"} /\ one["shards"] = a
  <2> HIDE DEF one
  <2> QED BY <1>3
<1>5. two = [n \in {"shards", "shard"} |-> IF n = "shards" THEN a ELSE b]
  <2> HIDE DEF one
  <2> DEFINE part(n) == (IF n \in DOMAIN one THEN one[n] ELSE <<>>) \o (IF n = "shard" THEN b ELSE <<>>)
  <2>1. two = [n \in {"shards", "shard"} |-> part(n)]
    <3>1. DOMAIN one \cup {"shard"} = {"shards", "shard"}  BY <1>4
    <3> QED BY <1>1, <3>1, Zenon DEF GivenIn
  <2>2. part("shards") = a
    <3>1. part("shards") = a \o <<>>
      <4>1. "shards" # "shard" /\ "shards" \in DOMAIN one  BY <1>4
      <4> QED BY <1>4, <4>1, Zenon
    <3> HIDE DEF part
    <3> QED BY <1>1, <3>1, Zenon
  <2>3. part("shard") = b
    <3>1. part("shard") = <<>> \o b
      <4>1. "shard" \notin DOMAIN one  BY <1>4
      <4> QED BY <4>1, Zenon
    <3> HIDE DEF part
    <3> QED BY <1>1, <3>1, Zenon
  <2>4. \A n \in {"shards", "shard"} : part(n) = IF n = "shards" THEN a ELSE b
    <3> HIDE DEF part
    <3> QED BY <2>2, <2>3, Zenon
  <2> HIDE DEF two, part
  <2> QED BY <2>1, <2>4, Zenon
<1>6. WithShards(<<>>, ask) = [n \in {"shards", "shard"} |-> IF n = "shards" THEN a ELSE b]
  <2>1. DOMAIN <<>> \cup {"shards", "shard"} = {"shards", "shard"}  BY <1>2
  <2>2. WithShards(<<>>, ask) =
          [n \in {"shards", "shard"} |-> IF n = "shards" THEN a ELSE IF n = "shard" THEN b ELSE <<>>[n]]
    BY <1>1, <2>1, Zenon DEF WithShards
  <2>3. \A n \in {"shards", "shard"} : (IF n = "shards" THEN a ELSE IF n = "shard" THEN b ELSE <<>>[n]) =
          IF n = "shards" THEN a ELSE b
    BY Zenon
  <2> QED BY <2>2, <2>3, Zenon
<1> QED BY <1>5, <1>6, Zenon

\* After two turns the shard is known.
LEMMA ShardKnown ==
  ASSUME NEW B, NEW ask, ShardLine(B, ask), NEW f, Parses(f, B, 2, AtRun)
  PROVE  f[2] = StepOf(5, RunOf(FALSE, FALSE, "none", WithShards(<<>>, ask), <<>>))
<1>1. /\ Len(B) \in Nat /\ DOMAIN B = 1..Len(B) /\ 4 <= Len(B)
      /\ B[2] = LongWith("shards", <<ask[1]>>) /\ B[3] = Long("shard") /\ B[4] = Word(<<ask[2]>>)
  BY Zenon DEF ShardLine, StartsRun
<1>2. f[0] = StepOf(2, AtRun) /\ \A n \in 0..Len(B) : f[n + 1] = ParseNext(B, f[n])  BY Zenon DEF Parses
<1>3. f[1] = ParseNext(B, f[0]) /\ f[2] = ParseNext(B, f[1])
  <2>1. 0 \in 0..Len(B) /\ 1 \in 0..Len(B) /\ 0 + 1 = 1 /\ 1 + 1 = 2  BY <1>1
  <2>2. f[0 + 1] = ParseNext(B, f[0]) /\ f[1 + 1] = ParseNext(B, f[1])  BY <1>2, <2>1, Zenon
  <2> QED BY <2>1, <2>2, Zenon
<1>4. /\ "shards" \in KnownOptions("run") \cup GlobalOptions /\ "shard" \in KnownOptions("run") \cup GlobalOptions
      /\ "shard" \notin FlagOptions
  <2>1. KnownOptions("run") = CommandOptions["run"]
    <3>1. "run" \in Commands  BY DEF Commands, CommandOptions
    <3> QED BY <3>1, Zenon DEF KnownOptions
  <2>2. "shards" \in SelectionOptions /\ "shard" \in SelectionOptions  BY Zenon DEF SelectionOptions
  <2>3. SelectionOptions \subseteq CommandOptions["run"]
    <3> HIDE DEF SelectionOptions
    <3>1. CommandOptions["run"] = SelectionOptions \cup
            {"workers", "timeout", "fail-fast", "retry-failed", "label", "report-dir", "no-report", "json", "no-persist", "dry-run"}
      BY DEF CommandOptions
    <3> QED BY <3>1, Zenon
  <2>4. "shard" \notin FlagOptions  BY DEF FlagOptions
  <2> QED BY <2>1, <2>2, <2>3, <2>4, Zenon
<1>5. PICK yes, no : yes = TRUE /\ no = FALSE  OBVIOUS
<1>6. LongWith("shards", <<ask[1]>>) = [kind |-> "long", name |-> "shards", text |-> <<ask[1]>>, inline |-> yes]
  BY <1>5, Zenon DEF LongWith
<1>7. Long("shard") = [kind |-> "long", name |-> "shard", text |-> <<>>, inline |-> no]  BY <1>5, Zenon DEF Long
<1>8. B[2].kind = "long" /\ B[2].name = "shards" /\ B[2].text = <<ask[1]>> /\ B[2].inline = yes  BY <1>1, <1>6
<1>9. B[3].kind = "long" /\ B[3].name = "shard" /\ B[3].inline = no  BY <1>1, <1>7
<1>10. B[4].kind = "word" /\ B[4].text = <<ask[2]>>  BY <1>1, WordParts
<1>11. f[1] = StepOf(3, RunOf(FALSE, FALSE, "none", GivenIn(<<>>, "shards", <<<<ask[1]>>>>), <<>>))
  <2>1. ParseNext(B, StepOf(2, LineOf("run", <<>>, FALSE, FALSE, "none", <<>>, <<>>))) =
          TurnOf(B, 2, "run", <<>>, FALSE, FALSE, "none", <<>>, <<>>)
    BY NextIs, Zenon
  <2>2. 2 \in DOMAIN B /\ 2 + 1 = 3  BY <1>1
  <2>3. TurnOf(B, 2, "run", <<>>, FALSE, FALSE, "none", <<>>, <<>>) =
          StepOf(2 + 1, LineOf("run", <<>>, FALSE, FALSE, "none", GivenIn(<<>>, "shards", <<<<ask[1]>>>>), <<>>))
    <3>1. B[2].kind \notin {"dashdash", "word", "short"} /\ B[2].name \notin {"-h", "help", "-V", "version"}
          /\ B[2].name \in KnownOptions("run") \cup GlobalOptions /\ B[2].inline
      BY <1>4, <1>5, <1>8, Zenon
    <3>2. TurnOf(B, 2, "run", <<>>, FALSE, FALSE, "none", <<>>, <<>>) =
            StepOf(2 + 1, LineOf("run", <<>>, FALSE, FALSE, "none", GivenIn(<<>>, B[2].name, <<B[2].text>>), <<>>))
      BY <2>2, <3>1, Zenon DEF TurnOf
    <3> QED BY <1>8, <3>2, Zenon
  <2> QED BY <1>2, <1>3, <2>1, <2>2, <2>3, Zenon DEF AtRun, RunOf
<1>12. f[2] = StepOf(5, RunOf(FALSE, FALSE, "none", GivenIn(GivenIn(<<>>, "shards", <<<<ask[1]>>>>), "shard", <<<<ask[2]>>>>), <<>>))
  <2>a. PICK o : o = GivenIn(<<>>, "shards", <<<<ask[1]>>>>)  OBVIOUS
  <2>1. ParseNext(B, StepOf(3, LineOf("run", <<>>, FALSE, FALSE, "none", o, <<>>))) =
          TurnOf(B, 3, "run", <<>>, FALSE, FALSE, "none", o, <<>>)
    BY NextIs, Zenon
  <2>2. 3 \in DOMAIN B /\ 3 + 2 = 5 /\ 3 < Len(B) /\ 3 + 1 = 4  BY <1>1
  <2>b. TakesValue(B, 3)  BY <1>10, <2>2, Zenon DEF TakesValue
  <2>3. TurnOf(B, 3, "run", <<>>, FALSE, FALSE, "none", o, <<>>) =
          StepOf(3 + 2, LineOf("run", <<>>, FALSE, FALSE, "none", GivenIn(o, "shard", <<<<ask[2]>>>>), <<>>))
    <3>1. B[3].kind \notin {"dashdash", "word", "short"} /\ B[3].name \notin {"-h", "help", "-V", "version"}
          /\ B[3].name \in KnownOptions("run") \cup GlobalOptions /\ ~B[3].inline /\ B[3].name \notin FlagOptions
      BY <1>4, <1>5, <1>9, Zenon
    <3>2. TurnOf(B, 3, "run", <<>>, FALSE, FALSE, "none", o, <<>>) =
            StepOf(3 + 2, LineOf("run", <<>>, FALSE, FALSE, "none", GivenIn(o, B[3].name, <<B[3 + 1].text>>), <<>>))
      BY <2>2, <2>b, <3>1, Zenon DEF TurnOf
    <3> QED BY <1>9, <1>10, <2>2, <3>2, Zenon
  <2> QED BY <1>3, <1>11, <2>1, <2>2, <2>3, <2>a, Zenon DEF RunOf
<1> QED BY <1>12, BothGiven, Zenon

\* What is left of two lines when one of them has a shard.
SameBut(P, Q, ask, h, v, e, o, w) ==
  P = RunOf(h, v, e, o, w) /\ Q = RunOf(h, v, e, WithShards(o, ask), w) /\ NoShards(o)

\* Where the two loops are after a turn.
Beside(at, bt, ask, i, h, v, e, o, w) ==
  /\ at = StepOf(i, RunOf(h, v, e, o, w)) /\ bt = StepOf(Onward(i), RunOf(h, v, e, WithShards(o, ask), w))
  /\ NoShards(o)

\* The shard is the only thing that the longer line adds.
LEMMA BothParse ==
  ASSUME NEW A, NEW B, NEW ask, Shifted(A, B), StartsRun(A), ShardLine(B, ask)
  PROVE  \E h, v, e, o, w : SameBut(ParseFrom(A, 2, AtRun), ParseFrom(B, 2, AtRun), ask, h, v, e, o, w)
<1>1. PICK l \in Nat : l = Len(A) /\ Len(B) = l + 3 /\ DOMAIN B = 1..(l + 3)  BY Zenon DEF Shifted
<1>2. PICK f : Parses(f, A, 2, AtRun)  BY <1>1, ParseFromIs, Zenon
<1>3. PICK g : Parses(g, B, 2, AtRun)
  <2>1. Len(B) \in Nat  BY <1>1
  <2> QED BY <2>1, ParseFromIs, Zenon
<1>4. /\ f[0] = StepOf(2, AtRun) /\ \A n \in 0..l : f[n + 1] = ParseNext(A, f[n])
      /\ ParseFrom(A, 2, AtRun) = f[l + 1].parsed
  BY <1>1, <1>2, Zenon DEF Parses
<1>5. /\ \A n \in 0..(l + 3) : g[n + 1] = ParseNext(B, g[n])
      /\ ParseFrom(B, 2, AtRun) = g[(l + 3) + 1].parsed
  BY <1>1, <1>3, Zenon DEF Parses
<1>6. g[2] = StepOf(5, RunOf(FALSE, FALSE, "none", WithShards(<<>>, ask), <<>>))  BY <1>3, ShardKnown
<1> DEFINE Near(n, i) == i = 0 \/ (i \in Nat /\ i >= n + 2)
           D == {n \in Nat : n <= l + 1 => \E i, h, v, e, o, w : Near(n, i) /\ Beside(f[n], g[n + 2], ask, i, h, v, e, o, w)}
<1>7. 0 \in D
  <2>1. Near(0, 2) /\ 0 + 2 = 2 /\ Onward(2) = 5  BY DEF Onward
  <2>2. NoShards(<<>>)
    <3>1. DOMAIN <<>> = {}  OBVIOUS
    <3> QED BY <3>1, Zenon DEF NoShards
  <2>3. Beside(f[0], g[0 + 2], ask, 2, FALSE, FALSE, "none", <<>>, <<>>)
    BY <1>4, <1>6, <2>1, <2>2, Zenon DEF Beside, AtRun
  <2>4. 0 \in Nat  OBVIOUS
  <2> HIDE DEF Near
  <2> QED BY <2>1, <2>3, <2>4, Zenon
<1>8. ASSUME NEW n \in Nat, n \in D PROVE n + 1 \in D
  <2> SUFFICES ASSUME n + 1 <= l + 1
               PROVE  \E i, h, v, e, o, w : Near(n + 1, i) /\ Beside(f[n + 1], g[(n + 1) + 2], ask, i, h, v, e, o, w)
    <3>1. n + 1 \in Nat  OBVIOUS
    <3> QED BY <3>1, Zenon
  <2>1. n <= l + 1 /\ n \in 0..l /\ n + 2 \in 0..(l + 3) /\ (n + 2) + 1 = (n + 1) + 2  OBVIOUS
  <2>2. PICK i, h, v, e, o, w : Near(n, i) /\ Beside(f[n], g[n + 2], ask, i, h, v, e, o, w)
    BY <1>8, <2>1, Zenon
  <2>3. i \in Nat /\ (i >= 2 \/ i = 0)  BY <2>2
  <2>4. PICK j, hh, vv, ee, oo, ww :
          Together(A, B, ask, i, "run", <<>>, h, v, e, o, w, j, hh, vv, ee, oo, ww)
    BY <2>3, SameTurn
  <2>5. f[n + 1] = TurnOf(A, i, "run", <<>>, h, v, e, o, w)
    <3>1. f[n + 1] = ParseNext(A, f[n])  BY <1>4, <2>1, Zenon
    <3>2. f[n] = StepOf(i, LineOf("run", <<>>, h, v, e, o, w))  BY <2>2, Zenon DEF Beside, RunOf
    <3> QED BY <3>1, <3>2, NextIs, Zenon
  <2>6. g[(n + 1) + 2] = TurnOf(B, Onward(i), "run", <<>>, h, v, e, WithShards(o, ask), w)
    <3>1. g[(n + 2) + 1] = ParseNext(B, g[n + 2])  BY <1>5, <2>1, Zenon
    <3>2. g[n + 2] = StepOf(Onward(i), LineOf("run", <<>>, h, v, e, WithShards(o, ask), w))
      BY <2>2, Zenon DEF Beside, RunOf
    <3> QED BY <2>1, <3>1, <3>2, NextIs, Zenon
  <2>7. NoShards(o)  BY <2>2, Zenon DEF Beside
  <2>8. Beside(f[n + 1], g[(n + 1) + 2], ask, j, hh, vv, ee, oo, ww)
    BY <2>4, <2>5, <2>6, <2>7, Zenon DEF Together, Beside, RunOf
  <2>9. Near(n + 1, j)
    <3>1. j = 0 \/ (j \in Nat /\ j >= i + 1)  BY <2>4, Zenon DEF Together
    <3>2. i = 0 => j = 0
      <4> SUFFICES ASSUME i = 0 PROVE j = 0  OBVIOUS
      <4>1. 0 \notin DOMAIN A  BY DEF Shifted
      <4>2. TurnOf(A, 0, "run", <<>>, h, v, e, o, w) = StepOf(0, LineOf("run", <<>>, h, v, e, o, w))
        BY <4>1, Zenon DEF TurnOf
      <4>3. StepOf(0, LineOf("run", <<>>, h, v, e, o, w)) = StepOf(j, LineOf("run", <<>>, hh, vv, ee, oo, ww))
        BY <2>4, <4>2, Zenon DEF Together
      <4>4. StepOf(0, LineOf("run", <<>>, h, v, e, o, w)).i = 0  BY StepParts
      <4>5. StepOf(j, LineOf("run", <<>>, hh, vv, ee, oo, ww)).i = j  BY StepParts
      <4> QED BY <4>3, <4>4, <4>5, Zenon
    <3> QED BY <2>2, <2>3, <3>1, <3>2
  <2> QED BY <2>8, <2>9, Zenon
<1>9. l + 1 \in D
  <2> HIDE DEF D
  <2>1. \A n \in Nat : n \in D => n + 1 \in D  BY <1>8
  <2>2. Nat \subseteq D  BY <1>7, <2>1, SetInduction, Zenon
  <2> QED BY <2>2
<1>10. PICK i, h, v, e, o, w : Near(l + 1, i) /\ Beside(f[l + 1], g[(l + 1) + 2], ask, i, h, v, e, o, w)
  <2>1. l + 1 <= l + 1  OBVIOUS
  <2> QED BY <1>9, <2>1, Zenon
<1>11. f[l + 1].parsed = RunOf(h, v, e, o, w)
  <2>1. f[l + 1] = StepOf(i, RunOf(h, v, e, o, w))  BY <1>10, Zenon DEF Beside
  <2> QED BY <2>1, StepParts
<1>12. Onward(i) \notin DOMAIN B
  <2>1. i = 0 \/ (i \in Nat /\ i >= (l + 1) + 2)  BY <1>10
  <2>2. i = 0 => Onward(i) = 0  BY Zenon DEF Onward
  <2>3. i # 0 => Onward(i) = i + 3  BY Zenon DEF Onward
  <2> QED BY <1>1, <2>1, <2>2, <2>3
<1>13. g[(l + 3) + 1] = StepOf(0, RunOf(h, v, e, WithShards(o, ask), w))
  <2>1. (l + 1) + 2 = l + 3 /\ l + 3 \in 0..(l + 3)  OBVIOUS
  <2>2. g[l + 3] = StepOf(Onward(i), LineOf("run", <<>>, h, v, e, WithShards(o, ask), w))
    BY <1>10, <2>1, Zenon DEF Beside, RunOf
  <2>3. g[(l + 3) + 1] = ParseNext(B, g[l + 3])  BY <1>5, <2>1, Zenon
  <2>4. g[(l + 3) + 1] = TurnOf(B, Onward(i), "run", <<>>, h, v, e, WithShards(o, ask), w)
    BY <2>2, <2>3, NextIs, Zenon
  <2> QED BY <1>12, <2>4, Zenon DEF TurnOf, RunOf
<1>14. g[(l + 3) + 1].parsed = RunOf(h, v, e, WithShards(o, ask), w)  BY <1>13, StepParts
<1>15. NoShards(o)  BY <1>10, Zenon DEF Beside
<1> QED BY <1>4, <1>5, <1>11, <1>14, <1>15, Zenon DEF SameBut

\* Further arguments of a line that has no shard of its own.
WithoutShards(extra) == \A i \in DOMAIN extra : extra[i].name \notin {"shards", "shard"}

LEMMA RunLines ==
  ASSUME NEW S, NEW extra \in Seq(S), WithoutShards(extra), NEW ask
  PROVE  /\ Shifted(<<Word(<<"run">>)>> \o extra, RunLine(extra, ask[1], ask[2]))
         /\ StartsRun(<<Word(<<"run">>)>> \o extra)
         /\ ShardLine(RunLine(extra, ask[1], ask[2]), ask)
<1>1. PICK a, b, c, d : /\ a = Word(<<"run">>) /\ b = LongWith("shards", <<ask[1]>>)
                        /\ c = Long("shard") /\ d = Word(<<ask[2]>>)
  OBVIOUS
<1>2. PICK A, B : A = <<a>> \o extra /\ B = <<a, b, c, d>> \o extra  OBVIOUS
<1>3. PICK n \in Nat : n = Len(extra) /\ DOMAIN extra = 1..n
  <2>1. Len(extra) \in Nat /\ DOMAIN extra = 1..Len(extra)  OBVIOUS
  <2> QED BY <2>1
<1>4. Len(A) = n + 1 /\ DOMAIN A = 1..(n + 1) /\ A[1] = a /\ \A i \in 1..n : A[i + 1] = extra[i]  BY <1>2, <1>3
<1>5. /\ Len(B) = n + 4 /\ DOMAIN B = 1..(n + 4) /\ B[1] = a /\ B[2] = b /\ B[3] = c /\ B[4] = d
      /\ \A i \in 1..n : B[i + 4] = extra[i]
  BY <1>2, <1>3
<1>6. ASSUME NEW i \in 2..(n + 1) PROVE B[i + 3] = A[i] /\ A[i].name \notin {"shards", "shard"}
  <2>1. PICK k \in 1..n : i = k + 1 /\ i + 3 = k + 4
    <3>1. i - 1 \in 1..n /\ i = (i - 1) + 1 /\ i + 3 = (i - 1) + 4  OBVIOUS
    <3> QED BY <3>1
  <2>2. B[i + 3] = extra[k] /\ A[i] = extra[k]  BY <1>4, <1>5, <2>1, Zenon
  <2> QED BY <1>3, <2>2, Zenon DEF WithoutShards
<1>7. (n + 1) + 3 = n + 4 /\ n + 1 \in Nat /\ n + 4 \in Nat /\ 1 <= n + 1 /\ 1 <= n + 4 /\ 4 <= n + 4  OBVIOUS
<1>8. Shifted(A, B)  BY <1>4, <1>5, <1>6, <1>7, Zenon DEF Shifted
<1>9. StartsRun(A) /\ StartsRun(B)  BY <1>1, <1>4, <1>5, <1>7, Zenon DEF StartsRun
<1>10. ShardLine(B, ask)  BY <1>1, <1>5, <1>7, <1>9, Zenon DEF ShardLine
<1>11. A = <<Word(<<"run">>)>> \o extra /\ B = RunLine(extra, ask[1], ask[2])  BY <1>1, <1>2, Zenon DEF RunLine
<1> QED BY <1>8, <1>9, <1>10, <1>11, Zenon

\* The filter of a line does not depend on its shard.
LEMMA SameFilter ==
  ASSUME NEW P, NEW Q, NEW ask, NEW h, NEW v, NEW e, NEW o, NEW w, SameBut(P, Q, ask, h, v, e, o, w)
  PROVE  FilterFrom(Q) = FilterFrom(P)
<1>1. P.options = o /\ P.positionals = w /\ Q.options = WithShards(o, ask) /\ Q.positionals = w
  <2>1. P = LineOf("run", <<>>, h, v, e, o, w) /\ Q = LineOf("run", <<>>, h, v, e, WithShards(o, ask), w)
    BY Zenon DEF SameBut, RunOf
  <2> QED BY <2>1, LineParts
<1>2. PICK W : W = WithShards(o, ask)  OBVIOUS
<1>3. ASSUME NEW n, n \notin {"shards", "shard"}
      PROVE  (n \in DOMAIN W <=> n \in DOMAIN o) /\ (n \in DOMAIN o => W[n] = o[n])
  <2> DEFINE value(k) == IF k = "shards" THEN <<<<ask[1]>>>> ELSE IF k = "shard" THEN <<<<ask[2]>>>> ELSE o[k]
  <2>1. W = [k \in DOMAIN o \cup {"shards", "shard"} |-> value(k)]  BY <1>2, Zenon DEF WithShards
  <2>2. value(n) = o[n]  BY <1>3, Zenon
  <2> HIDE DEF value
  <2>3. DOMAIN W = DOMAIN o \cup {"shards", "shard"}  BY <2>1
  <2>4. n \in DOMAIN o => W[n] = value(n)  BY <2>1, Zenon
  <2> QED BY <1>3, <2>2, <2>3, <2>4, Zenon
<1>4. ASSUME NEW n, n \notin {"shards", "shard"}
      PROVE  ValuesOf(Q, n) = ValuesOf(P, n) /\ (FlagOf(Q, n) = FlagOf(P, n))
  <2>1. (n \in DOMAIN W <=> n \in DOMAIN o) /\ (n \in DOMAIN o => W[n] = o[n])  BY <1>3, <1>4, Zenon
  <2>2. ValuesOf(Q, n) = ValuesOf(P, n)  BY <1>1, <1>2, <2>1, Zenon DEF ValuesOf
  <2>3. FlagOf(Q, n) <=> FlagOf(P, n)  BY <1>1, <1>2, <2>1, Zenon DEF FlagOf
  <2>4. FlagOf(Q, n) \in BOOLEAN /\ FlagOf(P, n) \in BOOLEAN  BY Zenon DEF FlagOf
  <2>5. FlagOf(Q, n) = FlagOf(P, n)  BY <2>3, <2>4
  <2> QED BY <2>2, <2>5, Zenon
<1>5. /\ ValuesOf(Q, "suite") = ValuesOf(P, "suite") /\ ValuesOf(Q, "test") = ValuesOf(P, "test")
      /\ ValuesOf(Q, "tag") = ValuesOf(P, "tag") /\ ValuesOf(Q, "exclude-tag") = ValuesOf(P, "exclude-tag")
      /\ ValuesOf(Q, "exclude-suite") = ValuesOf(P, "exclude-suite")
      /\ FlagOf(Q, "include-disabled") = FlagOf(P, "include-disabled")
  <2>1. \A n \in {"suite", "test", "tag", "exclude-tag", "exclude-suite", "include-disabled"} : n \notin {"shards", "shard"}
    BY Zenon
  <2> QED BY <1>4, <2>1, Zenon
<1> QED BY <1>1, <1>5, Zenon DEF FilterFrom

\* What a line with one of the pairs asks for: 2^32 + 1 shards are one.
ShardAsks == {<<"2", "0">>, <<"2", "1">>, <<"4294967297", "0">>}
ShardsOf(count) == IF count = "2" THEN 2 ELSE 1
IndexOf(index) == IF index = "1" THEN 1 ELSE 0

LEMMA Amounts ==
  ASSUME NEW ask \in ShardAsks
  PROVE  /\ <<ask[1]>> \in {<<numeral>> : numeral \in Numerals} /\ <<ask[2]>> \in {<<numeral>> : numeral \in Numerals}
         /\ Narrow(NumberOf(<<ask[1]>>)) = ShardsOf(ask[1]) /\ Narrow(NumberOf(<<ask[2]>>)) = IndexOf(ask[2])
<1>1. PICK none, one, two, wide : none = <<"0">> /\ one = <<"1">> /\ two = <<"2">> /\ wide = <<"4294967297">>  OBVIOUS
<1>2. /\ none # one /\ none # two /\ none # wide /\ one # two /\ one # wide /\ two # wide
  BY <1>1
<1>3. \A text : NumberOf(text) = CASE text = one -> 1 [] text = two -> 2 [] text = wide -> 2 * IntHalf + 1 [] OTHER -> 0
  BY <1>1, Zenon DEF NumberOf
<1>4. NumberOf(none) = 0 /\ NumberOf(one) = 1 /\ NumberOf(two) = 2 /\ NumberOf(wide) = 2 * IntHalf + 1
  <2>1. NumberOf(none) = 0  BY <1>2, <1>3
  <2>2. NumberOf(one) = 1  BY <1>2, <1>3
  <2>3. NumberOf(two) = 2  BY <1>2, <1>3
  <2>4. NumberOf(wide) = 2 * IntHalf + 1  BY <1>2, <1>3
  <2> QED BY <2>1, <2>2, <2>3, <2>4
<1>5. Narrow(0) = 0 /\ Narrow(1) = 1 /\ Narrow(2) = 2
  <2>1. /\ 0 \in (-IntHalf)..(IntHalf - 1) /\ 1 \in (-IntHalf)..(IntHalf - 1) /\ 2 \in (-IntHalf)..(IntHalf - 1)
    BY IntHalfAssumption
  <2> QED BY <2>1, NarrowFits
<1>6. Narrow(2 * IntHalf + 1) = 1
  <2>1. IntHalf \in Nat /\ IntHalf > 513  BY IntHalfAssumption
  <2>2. PICK h, w : h = 2 * IntHalf /\ w = 1 + IntHalf  OBVIOUS
  <2>3. h \in Nat /\ w \in Nat /\ w < h /\ (2 * IntHalf + 1) + IntHalf = w + h  BY <2>1, <2>2
  <2>4. (w + h) % h = w  BY <2>3
  <2>5. Narrow(2 * IntHalf + 1) = (((2 * IntHalf + 1) + IntHalf) % h) - IntHalf  BY <2>2, Zenon DEF Narrow
  <2> QED BY <2>1, <2>2, <2>3, <2>4, <2>5
<1>7. \A numeral \in Numerals : <<numeral>> \in {<<other>> : other \in Numerals}  OBVIOUS
<1>8. "0" \in Numerals /\ "1" \in Numerals /\ "2" \in Numerals /\ "4294967297" \in Numerals  BY Zenon DEF Numerals
<1>9. /\ ShardsOf("2") = 2 /\ ShardsOf("4294967297") = 1 /\ IndexOf("0") = 0 /\ IndexOf("1") = 1
  BY DEF ShardsOf, IndexOf
<1>10. CASE ask = <<"2", "0">>
  <2>1. ask[1] = "2" /\ ask[2] = "0"  BY <1>10
  <2> QED BY <1>1, <1>4, <1>5, <1>7, <1>8, <1>9, <2>1, Zenon
<1>11. CASE ask = <<"2", "1">>
  <2>1. ask[1] = "2" /\ ask[2] = "1"  BY <1>11
  <2> QED BY <1>1, <1>4, <1>5, <1>7, <1>8, <1>9, <2>1, Zenon
<1>12. CASE ask = <<"4294967297", "0">>
  <2>1. ask[1] = "4294967297" /\ ask[2] = "0"  BY <1>12
  <2> QED BY <1>1, <1>4, <1>5, <1>6, <1>7, <1>8, <1>9, <2>1, Zenon
<1> QED BY <1>10, <1>11, <1>12, Zenon DEF ShardAsks

\* The line without a shard asks for everything, the other for its share.
LEMMA ShardsAsked ==
  ASSUME NEW P, NEW Q, NEW ask \in ShardAsks, NEW h, NEW v, NEW e, NEW o, NEW w, SameBut(P, Q, ask, h, v, e, o, w)
  PROVE  /\ ShardsFrom(P) = [count |-> 1, index |-> 0]
         /\ ShardsFrom(Q) = [count |-> ShardsOf(ask[1]), index |-> IndexOf(ask[2])]
<1>1. P.options = o /\ Q.options = WithShards(o, ask)
  <2>1. P = LineOf("run", <<>>, h, v, e, o, w) /\ Q = LineOf("run", <<>>, h, v, e, WithShards(o, ask), w)
    BY Zenon DEF SameBut, RunOf
  <2> QED BY <2>1, LineParts
<1>2. "shards" \notin DOMAIN o /\ "shard" \notin DOMAIN o  BY Zenon DEF SameBut, NoShards
<1>3. IntOf(P, "shards", 1) = 1 /\ IntOf(P, "shard", 0) = 0  BY <1>1, <1>2, Zenon DEF IntOf
<1>4. PICK W : W = WithShards(o, ask)  OBVIOUS
<1>5. "shards" \in DOMAIN W /\ "shard" \in DOMAIN W /\ W["shards"] = <<<<ask[1]>>>> /\ W["shard"] = <<<<ask[2]>>>>
  <2> DEFINE value(k) == IF k = "shards" THEN <<<<ask[1]>>>> ELSE IF k = "shard" THEN <<<<ask[2]>>>> ELSE o[k]
  <2>1. W = [k \in DOMAIN o \cup {"shards", "shard"} |-> value(k)]  BY <1>4, Zenon DEF WithShards
  <2>2. value("shards") = <<<<ask[1]>>>> /\ value("shard") = <<<<ask[2]>>>>  BY Zenon
  <2> HIDE DEF value
  <2>3. DOMAIN W = DOMAIN o \cup {"shards", "shard"}  BY <2>1
  <2>4. W["shards"] = value("shards") /\ W["shard"] = value("shard")  BY <2>1, Zenon
  <2> QED BY <2>2, <2>3, <2>4, Zenon
<1>6. \A y : <<y>> # <<>> /\ Last(<<y>>) = y  BY DEF Last
<1>7. /\ IntOf(Q, "shards", 1) = ShardsOf(ask[1])
      /\ IntOf(Q, "shard", 0) = IndexOf(ask[2])
  BY <1>1, <1>4, <1>5, <1>6, Amounts, Zenon DEF IntOf
<1>8. /\ AtLeast(1, 1) = 1 /\ AtLeast(0, 0) = 0
      /\ AtLeast(1, ShardsOf(ask[1])) = ShardsOf(ask[1]) /\ AtLeast(0, IndexOf(ask[2])) = IndexOf(ask[2])
  BY DEF AtLeast, ShardsOf, IndexOf
<1>9. ShardsFrom(P) = [count |-> 1, index |-> 0]  BY <1>3, <1>8, Zenon DEF ShardsFrom
<1>10. ShardsFrom(Q) = [count |-> ShardsOf(ask[1]), index |-> IndexOf(ask[2])]  BY <1>7, <1>8, Zenon DEF ShardsFrom
<1> QED BY <1>9, <1>10, Zenon

\* What the shards of a run come to, next to the run without shards.
Divided(extra, count, tests, without, excluded, hash) ==
  LET all == RunSelects(Parse(<<Word(<<"run">>)>> \o extra), tests, excluded, hash)
      shard(index) == RunSelects(Parse(RunLine(extra, count, index)), tests, excluded, hash)
      fewer(index) == RunSelects(Parse(RunLine(extra, count, index)), tests \ {without}, excluded, hash)
      indices == ShardNumbers[count]
  IN /\ UNION {shard(index) : index \in indices} = all
     /\ \A i, j \in indices : i # j => shard(i) \cap shard(j) = {}
     /\ \A index \in indices : fewer(index) = shard(index) \ {without}

\* Two shards, or as many as no int holds, which are one.
LEMMA Numbered ==
  ASSUME NEW count \in DOMAIN ShardNumbers, NEW indices, indices = ShardNumbers[count]
  PROVE  /\ \A index \in indices : <<count, index>> \in ShardAsks /\ IndexOf(index) \in 0..(ShardsOf(count) - 1)
         /\ \A k \in 0..(ShardsOf(count) - 1) : \E index \in indices : IndexOf(index) = k
         /\ \A i, j \in indices : i # j => IndexOf(i) # IndexOf(j)
         /\ ShardsOf(count) \in Nat \ {0}
<1>1. PICK zero, one, two, wide : zero = "0" /\ one = "1" /\ two = "2" /\ wide = "4294967297"  OBVIOUS
<1>2. zero # one /\ two # wide  BY <1>1
<1> DEFINE value(c) == IF c = "2" THEN {"0", "1"} ELSE {"0"}
<1>3. ShardNumbers = [c \in {two, wide} |-> value(c)]  BY <1>1, Zenon DEF ShardNumbers
<1>4. value(two) = {zero, one} /\ value(wide) = {zero}  BY <1>1, <1>2, Zenon
<1> HIDE DEF value
<1>5. count \in {two, wide} /\ indices = value(count)  BY <1>3
<1>6. ShardsOf(two) = 2 /\ ShardsOf(wide) = 1 /\ IndexOf(zero) = 0 /\ IndexOf(one) = 1
  BY <1>1, <1>2 DEF ShardsOf, IndexOf
<1>7. <<two, zero>> \in ShardAsks /\ <<two, one>> \in ShardAsks /\ <<wide, zero>> \in ShardAsks  BY <1>1, Zenon DEF ShardAsks
<1>8. CASE count = two
  <2>1. indices = {zero, one} /\ ShardsOf(count) = 2  BY <1>4, <1>5, <1>6, <1>8, Zenon
  <2>2. \A k \in 0..(2 - 1) : k = 0 \/ k = 1  OBVIOUS
  <2>3. 0 \in 0..(2 - 1) /\ 1 \in 0..(2 - 1) /\ 0 # 1 /\ 2 \in Nat \ {0}  OBVIOUS
  <2> QED BY <1>6, <1>7, <1>8, <2>1, <2>2, <2>3, Zenon
<1>9. CASE count = wide
  <2>1. indices = {zero} /\ ShardsOf(count) = 1  BY <1>4, <1>5, <1>6, <1>9, Zenon
  <2>2. \A k \in 0..(1 - 1) : k = 0  OBVIOUS
  <2>3. 0 \in 0..(1 - 1) /\ 1 \in Nat \ {0}  OBVIOUS
  <2> QED BY <1>6, <1>7, <1>9, <2>1, <2>2, <2>3, Zenon
<1> QED BY <1>5, <1>8, <1>9, Zenon

\* A run in shards executes each test once that the run without shards would,
\* whatever else the line asks for, right or wrong, and whatever the tests and
\* their hashes are; and a test that is removed moves no other.
THEOREM ShardedRun ==
  ASSUME NEW S, NEW extra \in Seq(S), WithoutShards(extra), NEW count \in DOMAIN ShardNumbers,
         NEW tests, NEW without, NEW excluded, NEW hash \in [tests -> Nat]
  PROVE  Divided(extra, count, tests, without, excluded, hash)
<1> DEFINE whole == Parse(<<Word(<<"run">>)>> \o extra)
           part(index) == Parse(RunLine(extra, count, index))
<1>1. PICK filter : filter = RunFilter(FilterFrom(whole), excluded)  OBVIOUS
<1>2. PICK indices, K : indices = ShardNumbers[count] /\ K = ShardsOf(count)  OBVIOUS
<1>3. /\ \A index \in indices : <<count, index>> \in ShardAsks /\ IndexOf(index) \in 0..(K - 1)
      /\ \A k \in 0..(K - 1) : \E index \in indices : IndexOf(index) = k
      /\ \A i, j \in indices : i # j => IndexOf(i) # IndexOf(j)
      /\ K \in Nat \ {0}
  <2>1. indices = ShardNumbers[count]  BY <1>2
  <2>2. /\ \A index \in indices : <<count, index>> \in ShardAsks /\ IndexOf(index) \in 0..(ShardsOf(count) - 1)
        /\ \A k \in 0..(ShardsOf(count) - 1) : \E index \in indices : IndexOf(index) = k
        /\ \A i, j \in indices : i # j => IndexOf(i) # IndexOf(j)
        /\ ShardsOf(count) \in Nat \ {0}
    BY <2>1, Numbered, Zenon
  <2> QED BY <1>2, <2>2, Zenon
<1> DEFINE chosen(k) == SelectFrom(tests, filter, hash, K, k)
<1>4. ASSUME NEW index \in indices
      PROVE  /\ ShardsFrom(whole) = [count |-> 1, index |-> 0]
             /\ ShardsFrom(part(index)) = [count |-> K, index |-> IndexOf(index)]
             /\ FilterFrom(part(index)) = FilterFrom(whole)
  <2>0. PICK ask : ask = <<count, index>>  OBVIOUS
  <2>a. ask[1] = count /\ ask[2] = index  BY <2>0
  <2>b. ask \in ShardAsks  BY <1>3, <2>0, Zenon
  <2>1. PICK A, B : A = <<Word(<<"run">>)>> \o extra /\ B = RunLine(extra, count, index)  OBVIOUS
  <2>2. Shifted(A, B) /\ StartsRun(A) /\ ShardLine(B, ask)
    <3>1. B = RunLine(extra, ask[1], ask[2])  BY <2>1, <2>a, Zenon
    <3> QED BY <2>1, <3>1, RunLines
  <2>3. PICK P, Q : P = ParseFrom(A, 2, AtRun) /\ Q = ParseFrom(B, 2, AtRun)  OBVIOUS
  <2>4. PICK h, v, e, o, w : SameBut(P, Q, ask, h, v, e, o, w)  BY <2>2, <2>3, BothParse, Zenon
  <2>5. P.command = "run" /\ Q.command = "run"
    <3>1. P = LineOf("run", <<>>, h, v, e, o, w) /\ Q = LineOf("run", <<>>, h, v, e, WithShards(o, ask), w)
      BY <2>4, Zenon DEF SameBut, RunOf
    <3> QED BY <3>1, LineParts
  <2>6. StartsRun(B)  BY <2>2, Zenon DEF ShardLine
  <2>7. Parse(A) = P /\ Parse(B) = Q  BY <2>2, <2>3, <2>5, <2>6, ParseRun
  <2>8. whole = P /\ part(index) = Q  BY <2>1, <2>7, Zenon
  <2>9. FilterFrom(Q) = FilterFrom(P)  BY <2>4, SameFilter, Zenon
  <2>10. ShardsFrom(P) = [count |-> 1, index |-> 0]
         /\ ShardsFrom(Q) = [count |-> ShardsOf(ask[1]), index |-> IndexOf(ask[2])]
    BY <2>4, <2>b, ShardsAsked, Zenon
  <2> HIDE DEF whole, part
  <2> QED BY <1>2, <2>8, <2>9, <2>10, <2>a, Zenon
<1> HIDE DEF whole, part
<1>5. \A candidates : RunSelects(whole, candidates, excluded, hash) = SelectFrom(candidates, filter, hash, 1, 0)
  <2>0. PICK index : index \in indices
    <3>1. 0 \in 0..(K - 1)  BY <1>3
    <3> QED BY <1>3, <3>1, Zenon
  <2>1. ShardsFrom(whole) = [count |-> 1, index |-> 0]  BY <1>4, <2>0, Zenon
  <2>2. ShardsFrom(whole).count = 1 /\ ShardsFrom(whole).index = 0  BY <2>1
  <2> QED BY <1>1, <2>2, Zenon DEF RunSelects
<1>6. ASSUME NEW index \in indices
      PROVE  \A candidates : RunSelects(part(index), candidates, excluded, hash) =
                               SelectFrom(candidates, filter, hash, K, IndexOf(index))
  <2>1. PICK k : k = IndexOf(index)  OBVIOUS
  <2>2. ShardsFrom(part(index)) = [count |-> K, index |-> k] /\ FilterFrom(part(index)) = FilterFrom(whole)
    BY <1>4, <2>1, Zenon
  <2>3. ShardsFrom(part(index)).count = K /\ ShardsFrom(part(index)).index = k  BY <2>2
  <2> QED BY <1>1, <2>1, <2>2, <2>3, Zenon DEF RunSelects
<1> DEFINE all == SelectFrom(tests, filter, hash, 1, 0)
           few(k) == SelectFrom(tests \ {without}, filter, hash, K, k)
<1>7. /\ \A t \in all : \E k \in 0..(K - 1) : t \in chosen(k)
      /\ \A k \in 0..(K - 1) :
           /\ chosen(k) \subseteq all
           /\ \A other \in 0..(K - 1) : k # other => chosen(k) \cap chosen(other) = {}
           /\ few(k) = chosen(k) \ {without}
  <2>2. Shared(tests, without, hash, filter, K)  BY <1>3, ShardsDivide
  <2> QED BY <2>2, Zenon DEF Shared
<1> DEFINE shard(index) == RunSelects(part(index), tests, excluded, hash)
<1>8. /\ RunSelects(whole, tests, excluded, hash) = all
      /\ \A index \in indices : shard(index) = chosen(IndexOf(index))
      /\ \A index \in indices : RunSelects(part(index), tests \ {without}, excluded, hash) = few(IndexOf(index))
  BY <1>5, <1>6, Zenon
<1> HIDE DEF all, few, chosen
<1>9. UNION {shard(index) : index \in indices} = all
  <2>1. \A t : t \in UNION {shard(index) : index \in indices} <=> \E index \in indices : t \in shard(index)
    <3> HIDE DEF shard
    <3> QED OBVIOUS
  <2>2. \A t : (\E index \in indices : t \in shard(index)) <=> t \in all
    <3> TAKE t
    <3>1. ASSUME NEW index \in indices, t \in shard(index) PROVE t \in all
      <4>1. t \in chosen(IndexOf(index))  BY <1>8, <3>1, Zenon
      <4> QED BY <1>3, <1>7, <4>1, Zenon
    <3>2. ASSUME t \in all PROVE \E index \in indices : t \in shard(index)
      <4>1. PICK k \in 0..(K - 1) : t \in chosen(k)  BY <1>7, <3>2, Zenon
      <4>2. PICK index \in indices : IndexOf(index) = k  BY <1>3, Zenon
      <4> QED BY <1>8, <4>1, <4>2, Zenon
    <3> QED BY <3>1, <3>2, Zenon
  <2> HIDE DEF shard
  <2> QED BY <2>1, <2>2
<1>10. \A i, j \in indices : i # j => shard(i) \cap shard(j) = {}
  <2> SUFFICES ASSUME NEW i \in indices, NEW j \in indices, i # j PROVE shard(i) \cap shard(j) = {}  BY Zenon
  <2> HIDE DEF shard
  <2>1. PICK a, b : a = IndexOf(i) /\ b = IndexOf(j)  OBVIOUS
  <2>2. a \in 0..(K - 1) /\ b \in 0..(K - 1) /\ a # b  BY <1>3, <2>1, Zenon
  <2>3. chosen(a) \cap chosen(b) = {}  BY <1>7, <2>2, Zenon
  <2>4. shard(i) = chosen(a) /\ shard(j) = chosen(b)  BY <1>8, <2>1, Zenon
  <2> QED BY <2>3, <2>4, Zenon
<1>11. \A index \in indices : RunSelects(part(index), tests \ {without}, excluded, hash) = shard(index) \ {without}
  <2> HIDE DEF shard
  <2> QED BY <1>3, <1>7, <1>8, Zenon
<1>12. RunSelects(whole, tests, excluded, hash) = all  BY <1>8
<1> QED BY <1>2, <1>9, <1>10, <1>11, <1>12, Zenon DEF Divided, whole, part

LEMMA ExtraLine == ASSUME NEW extra \in Extras PROVE WithoutShards(extra) /\ \E S : extra \in Seq(S)
<1>1. PICK a, b, c, d, e : /\ a = Word(<<"t1">>) /\ b = LongWith("tag", <<"slow", "failures">>)
                           /\ c = Long("exclude-tag") /\ d = Word(<<"slow">>) /\ e = Long("include-disabled")
  OBVIOUS
<1>2. extra \in {<<>>, <<a>>, <<b>>, <<c, d>>, <<e>>}  BY <1>1, Zenon DEF Extras
<1>3. extra \in Seq({a, b, c, d, e})
  <2> DEFINE S == {a, b, c, d, e}
  <2>1. a \in S /\ b \in S /\ c \in S /\ d \in S /\ e \in S  OBVIOUS
  <2> HIDE DEF S
  <2>2. <<>> \in Seq(S) /\ <<a>> \in Seq(S) /\ <<b>> \in Seq(S) /\ <<c, d>> \in Seq(S) /\ <<e>> \in Seq(S)  BY <2>1
  <2>3. extra \in Seq(S)  BY <1>2, <2>2, Zenon
  <2> QED BY <2>3 DEF S
<1>4. \A y \in {a, b, c, d, e} : y.name \notin {"shards", "shard"}
  <2>1. a.name = Empty /\ d.name = Empty  BY <1>1, WordParts
  <2>2. Empty \notin {"shards", "shard"}  BY Zenon DEF Empty
  <2>3. PICK yes, no : yes = TRUE /\ no = FALSE  OBVIOUS
  <2>4. /\ b = [kind |-> "long", name |-> "tag", text |-> <<"slow", "failures">>, inline |-> yes]
        /\ c = [kind |-> "long", name |-> "exclude-tag", text |-> <<>>, inline |-> no]
        /\ e = [kind |-> "long", name |-> "include-disabled", text |-> <<>>, inline |-> no]
    BY <1>1, <2>3, Zenon DEF Long, LongWith
  <2>5. b.name = "tag" /\ c.name = "exclude-tag" /\ e.name = "include-disabled"  BY <2>4
  <2> QED BY <2>1, <2>2, <2>5, Zenon
<1>5. \A i \in DOMAIN extra : extra[i] \in {a, b, c, d, e}  BY <1>3
<1> QED BY <1>3, <1>4, <1>5, Zenon DEF WithoutShards

\* The same of the lines, the tests, the hashes, the patterns and the names the
\* model checker looks at.
THEOREM AlwaysExact == DecisionsSpec => []SelectionExact
<1>1. IsItem => SelectionExact
  <2> SUFFICES ASSUME IsItem PROVE SelectionExact  OBVIOUS
  <2>1. ASSUME Is("selection")
        PROVE  Divided(item.extra, item.shards, TestPool, item.without, {"failures"}, item.hash)
    <3>1. item \in SelectionItems  BY <2>1, ItemOf
    <3>2. item.extra \in Extras /\ item.hash \in [TestPool -> 0..3] /\ item.shards \in DOMAIN ShardNumbers
      <4> HIDE DEF TestPool, Extras, ShardNumbers
      <4> QED BY <3>1 DEF SelectionItems
    <3>3. item.hash \in [TestPool -> Nat]
      <4> HIDE DEF TestPool
      <4>1. 0..3 \subseteq Nat  OBVIOUS
      <4> QED BY <3>2, <4>1
    <3> QED BY <3>2, <3>3, ExtraLine, ShardedRun, Zenon
  <2>2. ASSUME Is("glob")
        PROVE  /\ GlobMatch(item.pattern, item.text) => Means(item.pattern, item.text)
               /\ IsStarless(item.text) /\ Means(item.pattern, item.text) => GlobMatch(item.pattern, item.text)
    <3>1. item \in GlobItems  BY <2>2, ItemOf
    <3>2. /\ item.pattern \in BoundedSeq({"a", "b", "*", "?"}, 4)
          /\ item.text \in BoundedSeq({"a", "b"}, 4) \cup BoundedSeq({"a", "*"}, 3)
      BY <3>1 DEF GlobItems
    <3>3. item.pattern \in Seq({"a", "b", "*", "?"}) /\ (item.text \in Seq({"a", "b"}) \/ item.text \in Seq({"a", "*"}))
      BY <3>2, BoundedIsSeq, Zenon
    <3>4. Len(item.pattern) \in Nat /\ Len(item.text) \in Nat /\ DOMAIN item.text = 1..Len(item.text)  BY <3>3
    <3>5. IsStarless(item.text) => \A i \in 1..Len(item.text) : item.text[i] # "*"  BY <3>4, Zenon DEF IsStarless
    <3>6. GlobMatch(item.pattern, item.text) => Means(item.pattern, item.text)  BY <3>4, GlobSound
    <3>7. ASSUME IsStarless(item.text), Means(item.pattern, item.text) PROVE GlobMatch(item.pattern, item.text)
      BY <3>4, <3>5, <3>7, GlobExact
    <3> QED BY <3>6, <3>7, Zenon
  <2> QED BY <2>1, <2>2, Zenon DEF SelectionExact, Divided, Selects
<1> QED BY <1>1, AlwaysItem, PTL

-----------------------------------------------------------------------------
(* Every line: the arguments are counted as the loop uses them up, and the   *)
(* two ways to write a value are parsed side by side.                        *)

\* How many members of a set of places come before the one after n.
Upto(X, n) == Cardinality(X \cap (1..n))

LEMMA UptoSteps ==
  ASSUME NEW X, NEW n \in Nat
  PROVE  /\ Upto(X, n) \in Nat /\ Upto(X, 0) = 0
         /\ Upto(X, n + 1) = Upto(X, n) + (IF n + 1 \in X THEN 1 ELSE 0)
<1>1. IsFiniteSet(X \cap (1..n))
  <2>1. IsFiniteSet(1..n)  BY FS_Interval
  <2> QED BY <2>1, FS_Intersection
<1>2. Upto(X, n) \in Nat  BY <1>1, FS_CardinalityType DEF Upto
<1>3. X \cap (1..0) = {}  OBVIOUS
<1>4. Upto(X, 0) = 0  BY <1>3, FS_EmptySet DEF Upto
<1>5. CASE n + 1 \in X
  <2>1. X \cap (1..(n + 1)) = (X \cap (1..n)) \cup {n + 1}  BY <1>5
  <2>2. n + 1 \notin X \cap (1..n)  OBVIOUS
  <2>3. Upto(X, n + 1) = Upto(X, n) + 1  BY <1>1, <2>1, <2>2, FS_AddElement DEF Upto
  <2> QED BY <1>2, <1>4, <1>5, <2>3
<1>6. CASE n + 1 \notin X
  <2>1. X \cap (1..(n + 1)) = X \cap (1..n)  BY <1>6
  <2>2. Upto(X, n + 1) = Upto(X, n)  BY <2>1 DEF Upto
  <2> QED BY <1>2, <1>4, <1>6, <2>2
<1> QED BY <1>5, <1>6

\* The values that the options of a line of l arguments have.
ValuesIn(o, l) == {v \in (DOMAIN o) \X (1..l) : v[2] <= Len(o[v[1]])}

\* Options with values from T, none with more than m of them.
Lists(o, T, m) ==
  IsFiniteSet(DOMAIN o) /\ \A n \in DOMAIN o : o[n] \in Seq(T) /\ Len(o[n]) <= m

LEMMA ValuesFinite ==
  ASSUME NEW o, NEW T, NEW m, NEW l \in Nat, Lists(o, T, m)
  PROVE  IsFiniteSet(ValuesIn(o, l)) /\ Cardinality(ValuesIn(o, l)) \in Nat
<1>1. IsFiniteSet(DOMAIN o)  BY Zenon DEF Lists
<1>2. IsFiniteSet(1..l)  BY FS_Interval
<1>3. IsFiniteSet((DOMAIN o) \X (1..l))  BY <1>1, <1>2, FS_Product
<1>4. ValuesIn(o, l) \subseteq (DOMAIN o) \X (1..l)  BY DEF ValuesIn
<1>5. IsFiniteSet(ValuesIn(o, l))  BY <1>3, <1>4, FS_Subset
<1> QED BY <1>5, FS_CardinalityType

\* The values an option has so far.
Had(o, n) == IF n \in DOMAIN o THEN o[n] ELSE <<>>

\* What GivenIn() does to one option.
Made(H, o, name, values) ==
  /\ DOMAIN H = DOMAIN o \cup {name} /\ H[name] = Had(o, name) \o values
  /\ \A n \in DOMAIN o : n # name => H[n] = Had(o, n) \o <<>>

LEMMA GivenInMakes ==
  ASSUME NEW o, NEW name, NEW values PROVE Made(GivenIn(o, name, values), o, name, values)
<1> DEFINE Part(n) == (IF n \in DOMAIN o THEN o[n] ELSE <<>>) \o (IF n = name THEN values ELSE <<>>)
<1>1. PICK D : D = DOMAIN o \cup {name}  OBVIOUS
<1>2. GivenIn(o, name, values) = [n \in D |-> Part(n)]  BY <1>1, Zenon DEF GivenIn
<1>3. Part(name) = Had(o, name) \o values  BY Zenon DEF Had
<1>4. \A n : n # name => Part(n) = Had(o, n) \o <<>>  BY Zenon DEF Had
<1> HIDE DEF Part
<1>5. DOMAIN GivenIn(o, name, values) = D /\ \A n \in D : GivenIn(o, name, values)[n] = Part(n)
  BY <1>2
<1>6. name \in D /\ \A n \in DOMAIN o : n \in D  BY <1>1
<1>7. GivenIn(o, name, values)[name] = Had(o, name) \o values  BY <1>3, <1>5, <1>6, Zenon
<1>8. \A n \in DOMAIN o : n # name => GivenIn(o, name, values)[n] = Had(o, n) \o <<>>
  BY <1>4, <1>5, <1>6, Zenon
<1> QED BY <1>1, <1>5, <1>7, <1>8, Zenon DEF Made

\* Options G are options o with d values more.
Counted(G, T, l, m, o, d) ==
  Lists(G, T, m) /\ Cardinality(ValuesIn(G, l)) = Cardinality(ValuesIn(o, l)) + d

\* A value more is one pair more, a flag is none.
LEMMA GivenCounts ==
  ASSUME NEW T, NEW l \in Nat, NEW m \in Nat, m < l, NEW o, Lists(o, T, m), NEW name, NEW text \in T
  PROVE  /\ Counted(GivenIn(o, name, <<text>>), T, l, m + 1, o, 1)
         /\ Counted(GivenIn(o, name, <<>>), T, l, m, o, 0)
<1> DEFINE old(n) == Had(o, n)
<1>1. \A n : old(n) \in Seq(T) /\ Len(old(n)) \in Nat /\ Len(old(n)) <= m
  <2> TAKE n
  <2>1. <<>> \in Seq(T) /\ Len(<<>>) = 0  OBVIOUS
  <2>2. n \in DOMAIN o => o[n] \in Seq(T) /\ Len(o[n]) <= m  BY Zenon DEF Lists
  <2> QED BY <2>1, <2>2 DEF Had
<1>2. IsFiniteSet(DOMAIN o \cup {name})
  <2>1. IsFiniteSet(DOMAIN o)  BY Zenon DEF Lists
  <2> QED BY <2>1, FS_AddElement
<1>3. \A n, k : <<n, k>> \in ValuesIn(o, l) <=> k \in 1..l /\ k <= Len(old(n))
  <2> TAKE n, k
  <2>1. <<n, k>> \in ValuesIn(o, l) <=> n \in DOMAIN o /\ k \in 1..l /\ k <= Len(o[n])  BY DEF ValuesIn
  <2>2. Len(<<>>) = 0  OBVIOUS
  <2> QED BY <2>1, <2>2 DEF Had
<1>a. \A v \in ValuesIn(o, l) : v = <<v[1], v[2]>>  BY DEF ValuesIn
<1> HIDE DEF old
<1>4. \A s \in Seq(T) : s \o <<>> = s /\ s \o <<text>> \in Seq(T) /\ Len(s \o <<text>>) = Len(s) + 1  OBVIOUS
<1>5. PICK G : G = GivenIn(o, name, <<text>>)  OBVIOUS
<1>6. DOMAIN G = DOMAIN o \cup {name} /\ G[name] = old(name) \o <<text>>
      /\ \A n \in DOMAIN o : n # name => G[n] = old(n)
  <2>a. PICK values : values = <<text>>  OBVIOUS
  <2>b. Made(G, o, name, values)  BY <1>5, <2>a, GivenInMakes, Zenon
  <2>1. DOMAIN G = DOMAIN o \cup {name}  BY <2>b, Zenon DEF Made
  <2>2. G[name] = old(name) \o <<text>>  BY <2>a, <2>b DEF old, Made
  <2>3. \A n \in DOMAIN o : n # name => G[n] = old(n) \o <<>>  BY <2>b, Zenon DEF old, Made
  <2>4. \A n \in DOMAIN o : n # name => G[n] = old(n)  BY <1>1, <1>4, <2>3, Zenon
  <2> QED BY <2>1, <2>2, <2>4
<1>7. Lists(G, T, m + 1)
  <2>1. \A n \in DOMAIN G : G[n] \in Seq(T) /\ Len(G[n]) <= m + 1
    <3> TAKE n \in DOMAIN G
    <3>1. CASE n = name
      <4>1. G[n] = old(name) \o <<text>>  BY <1>6, <3>1
      <4>2. old(name) \in Seq(T) /\ Len(old(name)) \in Nat /\ Len(old(name)) <= m  BY <1>1
      <4>3. G[n] \in Seq(T) /\ Len(G[n]) = Len(old(name)) + 1  BY <1>4, <4>1, <4>2, Zenon
      <4> QED BY <4>2, <4>3
    <3>2. CASE n # name
      <4>1. n \in DOMAIN o  BY <1>6, <3>2
      <4>2. G[n] = old(n)  BY <1>6, <3>2, <4>1
      <4>3. old(n) \in Seq(T) /\ Len(old(n)) \in Nat /\ Len(old(n)) <= m  BY <1>1
      <4> QED BY <4>2, <4>3
    <3> QED BY <3>1, <3>2
  <2> QED BY <1>2, <1>6, <2>1, Zenon DEF Lists
<1>8. ValuesIn(G, l) = ValuesIn(o, l) \cup {<<name, Len(old(name)) + 1>>}
  <2>1. \A n, k : <<n, k>> \in ValuesIn(G, l) <=>
          n \in DOMAIN o \cup {name} /\ k \in 1..l /\ k <= Len(G[n])
    BY <1>6 DEF ValuesIn
  <2>2. \A n, k : <<n, k>> \in ValuesIn(G, l) <=>
          <<n, k>> \in ValuesIn(o, l) \/ (n = name /\ k = Len(old(name)) + 1)
    <3> TAKE n, k
    <3>1. CASE n = name
      <4>1. Len(G[n]) = Len(old(name)) + 1  BY <1>1, <1>4, <1>6, <3>1
      <4>2. Len(old(name)) \in Nat /\ Len(old(name)) <= m  BY <1>1
      <4>3. <<n, k>> \in ValuesIn(G, l) <=> k \in 1..l /\ k <= Len(old(name)) + 1  BY <2>1, <3>1, <4>1
      <4>4. <<n, k>> \in ValuesIn(o, l) <=> k \in 1..l /\ k <= Len(old(name))  BY <1>3, <3>1
      <4> QED BY <3>1, <4>2, <4>3, <4>4
    <3>2. CASE n # name /\ n \in DOMAIN o
      <4>1. G[n] = old(n)  BY <1>6, <3>2
      <4> QED BY <1>3, <2>1, <3>2, <4>1, Zenon
    <3>3. CASE n # name /\ n \notin DOMAIN o
      <4>1. ~(<<n, k>> \in ValuesIn(G, l))  BY <2>1, <3>3
      <4>2. ~(<<n, k>> \in ValuesIn(o, l))  BY <3>3 DEF ValuesIn
      <4> QED BY <3>3, <4>1, <4>2
    <3> QED BY <3>1, <3>2, <3>3
  <2>3. \A v \in ValuesIn(G, l) : v = <<v[1], v[2]>>  BY DEF ValuesIn
  <2>4. PICK x : x = Len(old(name)) + 1  OBVIOUS
  <2>5. \A v : v \in ValuesIn(G, l) <=> v \in ValuesIn(o, l) \cup {<<name, x>>}
    <3> TAKE v
    <3>1. ASSUME v \in ValuesIn(G, l) PROVE v \in ValuesIn(o, l) \cup {<<name, x>>}
      <4>1. PICK n, k : v = <<n, k>>  BY <2>3, <3>1
      <4> QED BY <2>2, <2>4, <3>1, <4>1
    <3>2. ASSUME v \in ValuesIn(o, l) PROVE v \in ValuesIn(G, l)
      <4>1. PICK n, k : v = <<n, k>>  BY <1>a, <3>2
      <4> QED BY <2>2, <3>2, <4>1
    <3>3. <<name, x>> \in ValuesIn(G, l)  BY <2>2, <2>4
    <3> QED BY <3>1, <3>2, <3>3
  <2> QED BY <2>4, <2>5
<1>9. <<name, Len(old(name)) + 1>> \notin ValuesIn(o, l)
  <2>1. Len(old(name)) \in Nat  BY <1>1
  <2> QED BY <1>3, <2>1
<1>10. Cardinality(ValuesIn(G, l)) = Cardinality(ValuesIn(o, l)) + 1
  <2>1. IsFiniteSet(ValuesIn(o, l))  BY ValuesFinite
  <2> QED BY <1>8, <1>9, <2>1, FS_AddElement
<1>11. PICK F : F = GivenIn(o, name, <<>>)  OBVIOUS
<1>12. DOMAIN F = DOMAIN o \cup {name} /\ \A n \in DOMAIN o \cup {name} : F[n] = old(n)
  <2>a. PICK values : values = <<>>  OBVIOUS
  <2>b. Made(F, o, name, values)  BY <1>11, <2>a, GivenInMakes, Zenon
  <2>1. DOMAIN F = DOMAIN o \cup {name}  BY <2>b, Zenon DEF Made
  <2>2. F[name] = old(name) \o <<>>  BY <2>a, <2>b DEF old, Made
  <2>3. \A n \in DOMAIN o : n # name => F[n] = old(n) \o <<>>  BY <2>b, Zenon DEF old, Made
  <2>4. \A n \in DOMAIN o \cup {name} : F[n] = old(n)  BY <1>1, <1>4, <2>2, <2>3
  <2> QED BY <2>1, <2>4
<1>13. Lists(F, T, m)
  <2>1. \A n \in DOMAIN F : F[n] \in Seq(T) /\ Len(F[n]) <= m  BY <1>1, <1>12
  <2> QED BY <1>2, <1>12, <2>1, Zenon DEF Lists
<1>14. ValuesIn(F, l) = ValuesIn(o, l)
  <2>1. \A n, k : <<n, k>> \in ValuesIn(F, l) <=>
          n \in DOMAIN o \cup {name} /\ k \in 1..l /\ k <= Len(F[n])
    BY <1>12 DEF ValuesIn
  <2>2. \A n, k : <<n, k>> \in ValuesIn(F, l) <=> <<n, k>> \in ValuesIn(o, l)
    <3> TAKE n, k
    <3>1. CASE n \in DOMAIN o \cup {name}
      <4>1. F[n] = old(n)  BY <1>12, <3>1
      <4> QED BY <1>3, <2>1, <3>1, <4>1, Zenon
    <3>2. CASE n \notin DOMAIN o \cup {name}
      <4>1. ~(<<n, k>> \in ValuesIn(F, l))  BY <2>1, <3>2
      <4>2. ~(<<n, k>> \in ValuesIn(o, l))  BY <3>2 DEF ValuesIn
      <4> QED BY <4>1, <4>2
    <3> QED BY <3>1, <3>2
  <2>3. \A v \in ValuesIn(F, l) : v = <<v[1], v[2]>>  BY DEF ValuesIn
  <2> QED BY <1>a, <2>2, <2>3
<1>15. Cardinality(ValuesIn(F, l)) = Cardinality(ValuesIn(o, l)) + 0
  <2>1. Cardinality(ValuesIn(o, l)) \in Nat  BY ValuesFinite
  <2> QED BY <1>14, <2>1
<1>16. Counted(G, T, l, m + 1, o, 1) /\ Counted(F, T, l, m, o, 0)  BY <1>7, <1>10, <1>13, <1>15, Zenon DEF Counted
<1> QED BY <1>5, <1>11, <1>16

\* An argument as the shell hands it over: a word has a text, what begins with
\* one dash is no long option, and help and version are asked for without a value.
PlainArgument(argument) ==
  /\ argument.kind \in {"word", "long", "short", "dashdash"}
  /\ argument.kind = "word" => argument.text # <<>> /\ Head(argument.text) # Empty
  /\ argument.kind \in {"word", "dashdash"} => argument.name = Empty
  /\ argument.kind = "long" => argument.name \notin {"-h", "-V"}
  /\ argument.inline => argument.kind = "long" /\ argument.name \notin {"help", "version"}

PlainLine(line, T) ==
  /\ Len(line) \in Nat /\ DOMAIN line = 1..Len(line)
  /\ \A i \in 1..Len(line) : line[i].text \in T /\ PlainArgument(line[i])

\* The part before the first "--" are the first b arguments.
IsBefore(line, before, b) ==
  /\ b \in 0..Len(line) /\ Len(before) = b /\ DOMAIN before = 1..b
  /\ \A i \in 1..b : before[i] = line[i] /\ line[i].kind # "dashdash"
  /\ b < Len(line) => line[b + 1].kind = "dashdash"

LEMMA BeforeIs ==
  ASSUME NEW S, NEW line \in Seq(S)
  PROVE  \E b : IsBefore(line, Before(line), b)
<1> DEFINE dashes == {i \in DOMAIN line : line[i].kind = "dashdash"}
           least == CHOOSE i \in dashes : \A j \in dashes : i <= j
<1>1. Len(line) \in Nat /\ DOMAIN line = 1..Len(line)  OBVIOUS
<1>2. Before(line) = IF dashes = {} THEN line ELSE SubSeq(line, 1, least - 1)  BY Zenon DEF Before
<1>3. CASE dashes = {}
  <2>1. Before(line) = line  BY <1>2, <1>3
  <2>2. \A i \in 1..Len(line) : line[i].kind # "dashdash"  BY <1>1, <1>3
  <2>3. IsBefore(line, line, Len(line))  BY <1>1, <2>2 DEF IsBefore
  <2> QED BY <2>1, <2>3
<1>4. CASE dashes # {}
  <2>1. dashes \subseteq Nat /\ dashes \subseteq 1..Len(line)  BY <1>1
  <2>2. \E i \in dashes : \A j \in dashes : i <= j
    <3> HIDE DEF dashes
    <3>1. PICK i \in dashes : \A j \in dashes : ~(<<j, i>> \in OpToRel(<, Nat))
      BY <1>4, <2>1, NatLessThanWellFounded, WFMin, Zenon
    <3>2. \A j \in dashes : ~(j < i)  BY <2>1, <3>1 DEF OpToRel
    <3> QED BY <2>1, <3>2
  <2>3. PICK b : b = least - 1  OBVIOUS
  <2>4. least \in dashes /\ \A j \in dashes : least <= j
    <3> HIDE DEF dashes
    <3> QED BY <2>2
  <2>5. line[least].kind = "dashdash"
    <3> HIDE DEF least
    <3> QED BY <2>4
  <2> HIDE DEF least
  <2>6. b \in 0..Len(line) /\ b < Len(line) /\ least = b + 1  BY <2>1, <2>3, <2>4
  <2>7. \A i \in 1..b : line[i].kind # "dashdash"
    <3> SUFFICES ASSUME NEW i \in 1..b, line[i].kind = "dashdash" PROVE FALSE  OBVIOUS
    <3>1. i \in dashes  BY <1>1, <2>6
    <3>2. ~(least <= i)  BY <2>6
    <3> QED BY <2>4, <3>1, <3>2
  <2>8. PICK before : before = SubSeq(line, 1, b)  OBVIOUS
  <2>9. Len(before) = b /\ DOMAIN before = 1..b /\ \A i \in 1..b : before[i] = line[i]  BY <2>6, <2>8
  <2>10. IsBefore(line, before, b)  BY <2>5, <2>6, <2>7, <2>9 DEF IsBefore
  <2>11. Before(line) = before
    <3> HIDE DEF dashes
    <3> QED BY <1>2, <1>4, <2>3, <2>8
  <2> QED BY <2>10, <2>11
<1> QED BY <1>3, <1>4

Words(line, b) == {i \in 1..b : line[i].kind = "word"}
Inlines(line, b) == {i \in 1..b : line[i].inline}

\* A short option that the option in front of it takes for its value.
IsEaten(line, i) == i # 1 /\ line[i].kind = "short" /\ WantsValue(line[i - 1])
Eaten(line, b) == {i \in 1..b : IsEaten(line, i)}

\* Where a turn begins no option is waiting for its value.
Fresh(line, i) == i = 1 \/ ~WantsValue(line[i - 1])

\* How the arguments in front of the i-th have been used: k is the number of
\* words that the command and its subcommand took.
Taken(line, b, T, k, i, o, w) ==
  /\ w \in Seq(T) /\ Lists(o, T, i - 1)
  /\ k + Cardinality(ValuesIn(o, Len(line))) + Len(w) =
       Upto(Words(line, b), i - 1) + Upto(Inlines(line, b), i - 1) + Upto(Eaten(line, b), i - 1)

\* What an argument that is used up may add to values and positionals.
UsesUp(line, i, d) ==
  \/ line[i].kind = "word" /\ d = 1
  \/ line[i].kind = "long" /\ line[i].inline /\ d = 1
  \/ line[i].kind = "long" /\ ~line[i].inline /\ d = 0
  \/ line[i].kind = "short" /\ ~IsEaten(line, i) /\ d = 0
  \/ line[i].kind = "short" /\ IsEaten(line, i) /\ d = 1

LEMMA ListsMore ==
  ASSUME NEW T, NEW m \in Int, NEW n \in Int, m <= n, NEW o, Lists(o, T, m) PROVE Lists(o, T, n)
<1>1. IsFiniteSet(DOMAIN o)  BY Zenon DEF Lists
<1>2. \A x \in DOMAIN o : o[x] \in Seq(T) /\ Len(o[x]) <= n
  <2> TAKE x \in DOMAIN o
  <2>1. o[x] \in Seq(T) /\ Len(o[x]) <= m  BY Zenon DEF Lists
  <2>2. Len(o[x]) \in Nat  BY <2>1
  <2> QED BY <2>1, <2>2
<1> QED BY <1>1, <1>2, Zenon DEF Lists

LEMMA TakeAny ==
  ASSUME NEW line, NEW T, PlainLine(line, T), NEW before, NEW b, IsBefore(line, before, b),
         NEW i \in 1..b, NEW k \in Nat, NEW o, NEW w, Taken(line, b, T, k, i, o, w),
         NEW kk \in Nat, NEW oo, NEW ww \in Seq(T), Lists(oo, T, i), NEW d, UsesUp(line, i, d),
         kk + Cardinality(ValuesIn(oo, Len(line))) + Len(ww) = k + Cardinality(ValuesIn(o, Len(line))) + Len(w) + d
  PROVE  Taken(line, b, T, kk, i + 1, oo, ww)
<1>1. PICK n \in Nat : n = i - 1 /\ i = n + 1 /\ (i + 1) - 1 = i
  <2>1. i \in Nat /\ i >= 1  BY DEF IsBefore
  <2> QED BY <2>1
<1>2. Len(line) \in Nat /\ i \in 1..Len(line)  BY DEF IsBefore, PlainLine, PlainArgument
<1>3. line[i].inline => line[i].kind = "long"  BY <1>2 DEF PlainLine, PlainArgument
<1> DEFINE words == Words(line, b)
           eaten == Eaten(line, b)
           inlines == Inlines(line, b)
<1>4. /\ i \in words <=> line[i].kind = "word"
      /\ i \in eaten <=> IsEaten(line, i)
      /\ i \in inlines <=> line[i].inline
  BY Zenon DEF Words, Eaten, Inlines
<1>b. IsEaten(line, i) => line[i].kind = "short"  BY Zenon DEF IsEaten
<1> HIDE DEF words, eaten, inlines
<1>5. \A X : /\ Upto(X, n) \in Nat /\ Upto(X, i) \in Nat
              /\ Upto(X, i) = IF i \in X THEN Upto(X, n) + 1 ELSE Upto(X, n)
  <2> TAKE X
  <2>1. Upto(X, n) \in Nat /\ Upto(X, n + 1) = Upto(X, n) + (IF n + 1 \in X THEN 1 ELSE 0)
    BY UptoSteps
  <2> QED BY <1>1, <2>1
<1>a. PICK W \in Nat, S \in Nat, I \in Nat : W = Upto(words, n) /\ S = Upto(eaten, n) /\ I = Upto(inlines, n)
  BY <1>5
<1>6. k + Cardinality(ValuesIn(o, Len(line))) + Len(w) = Upto(words, n) + Upto(inlines, n) + Upto(eaten, n)
  BY <1>1 DEF Taken, words, eaten, inlines
<1>7. /\ w \in Seq(T) /\ Lists(o, T, n) /\ Len(w) \in Nat /\ Len(ww) \in Nat
  BY <1>1 DEF Taken
<1>8. PICK x \in Nat, y \in Nat : x = Cardinality(ValuesIn(o, Len(line))) /\ y = Cardinality(ValuesIn(oo, Len(line)))
  <2>1. \A p, m : Lists(p, T, m) => Cardinality(ValuesIn(p, Len(line))) \in Nat  BY <1>2, ValuesFinite
  <2> QED BY <1>7, <2>1
<1>10. kk + y + Len(ww) = Upto(words, i) + Upto(inlines, i) + Upto(eaten, i)
  <2>0. PICK p \in Nat, q \in Nat : p = Len(w) /\ q = Len(ww)  BY <1>7
  <2>1. kk + y + q = k + x + p + d  BY <1>8, <2>0
  <2>2. k + x + p = W + I + S  BY <1>6, <1>8, <1>a, <2>0
  <2>3. CASE line[i].kind = "word" /\ d = 1
    <3>0. line[i].kind # "long" /\ line[i].kind # "short"  BY <2>3
    <3>a. ~IsEaten(line, i)  BY <1>b, <3>0
    <3>1. Upto(words, i) = W + 1 /\ Upto(eaten, i) = S /\ Upto(inlines, i) = I
      BY <1>3, <1>4, <1>5, <1>a, <2>3, <3>0, <3>a
    <3>2. kk + y + q = W + 1 + I + S  BY <2>1, <2>2, <2>3
    <3> QED BY <2>0, <3>1, <3>2
  <2>4. CASE line[i].kind = "long" /\ line[i].inline /\ d = 1
    <3>0. line[i].kind # "word" /\ line[i].kind # "short"  BY <2>4
    <3>a. ~IsEaten(line, i)  BY <1>b, <3>0
    <3>1. Upto(words, i) = W /\ Upto(eaten, i) = S /\ Upto(inlines, i) = I + 1
      BY <1>4, <1>5, <1>a, <2>4, <3>0, <3>a
    <3>2. kk + y + q = W + (I + 1) + S  BY <2>1, <2>2, <2>4
    <3> QED BY <2>0, <3>1, <3>2
  <2>5. CASE line[i].kind = "long" /\ ~line[i].inline /\ d = 0
    <3>0. line[i].kind # "word" /\ line[i].kind # "short"  BY <2>5
    <3>a. ~IsEaten(line, i)  BY <1>b, <3>0
    <3>1. Upto(words, i) = W /\ Upto(eaten, i) = S /\ Upto(inlines, i) = I
      BY <1>4, <1>5, <1>a, <2>5, <3>0, <3>a
    <3>2. kk + y + q = W + I + S  BY <2>1, <2>2, <2>5
    <3> QED BY <2>0, <3>1, <3>2
  <2>6. CASE line[i].kind = "short" /\ ~IsEaten(line, i) /\ d = 0
    <3>0. line[i].kind # "word" /\ line[i].kind # "long"  BY <2>6
    <3>1. Upto(words, i) = W /\ Upto(eaten, i) = S /\ Upto(inlines, i) = I
      BY <1>3, <1>4, <1>5, <1>a, <2>6, <3>0
    <3>2. kk + y + q = W + I + S  BY <2>1, <2>2, <2>6
    <3> QED BY <2>0, <3>1, <3>2
  <2>7. CASE line[i].kind = "short" /\ IsEaten(line, i) /\ d = 1
    <3>0. line[i].kind # "word" /\ line[i].kind # "long"  BY <2>7
    <3>1. Upto(words, i) = W /\ Upto(eaten, i) = S + 1 /\ Upto(inlines, i) = I
      BY <1>3, <1>4, <1>5, <1>a, <2>7, <3>0
    <3>2. kk + y + q = W + I + (S + 1)  BY <2>1, <2>2, <2>7
    <3> QED BY <2>0, <3>1, <3>2
  <2> QED BY <2>3, <2>4, <2>5, <2>6, <2>7, Zenon DEF UsesUp
<1>11. Taken(line, b, T, kk, i + 1, oo, ww)
  <2>1. Lists(oo, T, (i + 1) - 1)  BY <1>1
  <2>2. kk + Cardinality(ValuesIn(oo, Len(line))) + Len(ww) =
           Upto(words, (i + 1) - 1) + Upto(inlines, (i + 1) - 1) + Upto(eaten, (i + 1) - 1)
    BY <1>1, <1>8, <1>10
  <2> QED BY <2>1, <2>2, Zenon DEF Taken, words, eaten, inlines
<1> QED BY <1>11

LEMMA TakeOne ==
  ASSUME NEW line, NEW T, PlainLine(line, T), NEW before, NEW b, IsBefore(line, before, b),
         NEW i \in 1..b, NEW k \in Nat, NEW o, NEW w, Taken(line, b, T, k, i, o, w),
         NEW oo, NEW ww \in Seq(T), Lists(oo, T, i), NEW d, UsesUp(line, i, d),
         Cardinality(ValuesIn(oo, Len(line))) + Len(ww) = Cardinality(ValuesIn(o, Len(line))) + Len(w) + d
  PROVE  Taken(line, b, T, k, i + 1, oo, ww)
<1>1. Len(line) \in Nat /\ i - 1 \in Nat /\ d \in Nat
  <2>1. d \in {0, 1}  BY Zenon DEF UsesUp
  <2> QED BY <2>1 DEF PlainLine, PlainArgument, IsBefore
<1>2. w \in Seq(T) /\ Lists(o, T, i - 1)  BY Zenon DEF Taken
<1>3. \A p, m : Lists(p, T, m) => Cardinality(ValuesIn(p, Len(line))) \in Nat  BY <1>1, ValuesFinite
<1>4. PICK x \in Nat, y \in Nat : x = Cardinality(ValuesIn(o, Len(line))) /\ y = Cardinality(ValuesIn(oo, Len(line)))
  BY <1>2, <1>3
<1>5. PICK p \in Nat, q \in Nat : p = Len(w) /\ q = Len(ww)  BY <1>2
<1>6. y + q = x + p + d  BY <1>4, <1>5
<1>7. k + y + q = k + x + p + d  BY <1>1, <1>6
<1>8. k + Cardinality(ValuesIn(oo, Len(line))) + Len(ww) = k + Cardinality(ValuesIn(o, Len(line))) + Len(w) + d
  BY <1>4, <1>5, <1>7
<1> QED BY <1>8, TakeAny, Zenon

Behind(line, b) == Len(line) - b - (IF b < Len(line) THEN 1 ELSE 0)

\* How all arguments have been used.
AllTaken(line, b, T, k, o, w) ==
  /\ w \in Seq(T) /\ Lists(o, T, Len(line))
  /\ k + Cardinality(ValuesIn(o, Len(line))) + Len(w) =
       Upto(Words(line, b), b) + Upto(Inlines(line, b), b) + Behind(line, b) + Upto(Eaten(line, b), b)

OnlyKnown(o, c) == DOMAIN o \subseteq KnownOptions(c) \cup GlobalOptions

Problems == {"short option", "unknown option", "value missing"}

\* The loop is at an argument, or was left with an error or at the end.
Turned(line, b, T, k, c, j, e, o, w) ==
  /\ OnlyKnown(o, c)
  /\ \/ j \in 1..(b + 1) /\ e = "none" /\ Taken(line, b, T, k, j, o, w) /\ Fresh(line, j)
     \/ j = 0 /\ e \in Problems
     \/ j = 0 /\ e = "none" /\ AllTaken(line, b, T, k, o, w)

LEMMA KnownStays ==
  ASSUME NEW o, NEW c, NEW name, NEW values, OnlyKnown(o, c), name \in KnownOptions(c) \cup GlobalOptions
  PROVE  OnlyKnown(GivenIn(o, name, values), c)
<1>1. DOMAIN GivenIn(o, name, values) = DOMAIN o \cup {name}  BY GivenInMakes, Zenon DEF Made
<1> QED BY <1>1 DEF OnlyKnown

\* The loop ends behind the last argument or takes what follows "--".
LEMMA LastTurn ==
  ASSUME NEW line, NEW T, PlainLine(line, T), NEW before, NEW b, IsBefore(line, before, b),
         NEW k \in Nat, NEW c, NEW u, NEW h, NEW v, NEW o, NEW w,
         Turned(line, b, T, k, c, b + 1, "none", o, w)
  PROVE  \E ww : /\ TurnOf(line, b + 1, c, u, h, v, "none", o, w) = StepOf(0, LineOf(c, u, h, v, "none", o, ww))
                 /\ Turned(line, b, T, k, c, 0, "none", o, ww)
<1>1. PICK l \in Nat : l = Len(line) /\ DOMAIN line = 1..l  BY DEF PlainLine, PlainArgument
<1>2. b \in 0..l /\ (b < l => line[b + 1].kind = "dashdash")  BY <1>1 DEF IsBefore
<1>3. OnlyKnown(o, c) /\ Taken(line, b, T, k, b + 1, o, w)
  <2>1. b + 1 # 0  BY <1>2
  <2> QED BY <2>1, Zenon DEF Turned
<1>4. w \in Seq(T) /\ Lists(o, T, b)
  <2>1. (b + 1) - 1 = b  BY <1>2
  <2> QED BY <1>3, <2>1, Zenon DEF Taken
<1>5. k + Cardinality(ValuesIn(o, l)) + Len(w) =
        Upto(Words(line, b), b) + Upto(Inlines(line, b), b) + Upto(Eaten(line, b), b)
  <2>1. (b + 1) - 1 = b  BY <1>2
  <2> QED BY <1>1, <1>3, <2>1, Zenon DEF Taken
<1>6. Lists(o, T, l)
  <2>1. b \in Int /\ l \in Int /\ b <= l  BY <1>2
  <2> QED BY <1>4, <2>1, ListsMore, Zenon
<1>7. PICK x \in Nat, W \in Nat, I \in Nat, s \in Nat :
         /\ x = Cardinality(ValuesIn(o, l)) /\ W = Upto(Words(line, b), b) /\ I = Upto(Inlines(line, b), b)
         /\ s = Upto(Eaten(line, b), b)
  <2>1. Cardinality(ValuesIn(o, l)) \in Nat  BY <1>6, ValuesFinite, Zenon
  <2>2. b \in Nat  BY <1>2
  <2>3. \A X : Upto(X, b) \in Nat  BY <2>2, UptoSteps, Zenon
  <2> QED BY <2>1, <2>3
<1>8. ASSUME NEW ww \in Seq(T), Len(ww) = Len(w) + Behind(line, b) PROVE AllTaken(line, b, T, k, o, ww)
  <2>1. PICK p \in Nat, q \in Nat : p = Len(w) /\ q = Len(ww)  BY <1>4, <1>8
  <2>2. PICK d : d = Behind(line, b)  OBVIOUS
  <2>3. k + x + p = W + I + s /\ q = p + d  BY <1>5, <1>7, <1>8, <2>1, <2>2
  <2>a. d \in Int  BY <1>1, <1>2, <2>2 DEF Behind
  <2>4. k + x + q = W + I + d + s  BY <2>3, <2>a
  <2>5. k + Cardinality(ValuesIn(o, Len(line))) + Len(ww) =
          Upto(Words(line, b), b) + Upto(Inlines(line, b), b) + Behind(line, b) + Upto(Eaten(line, b), b)
    BY <1>1, <1>7, <2>1, <2>2, <2>4
  <2> QED BY <1>1, <1>6, <1>8, <2>5, Zenon DEF AllTaken
<1>9. ASSUME NEW ww \in Seq(T), Len(ww) = Len(w) + Behind(line, b) PROVE Turned(line, b, T, k, c, 0, "none", o, ww)
  BY <1>3, <1>8, <1>9, Zenon DEF Turned
<1>10. CASE b = l
  <2>1. b + 1 \notin DOMAIN line  BY <1>1, <1>10
  <2>2. TurnOf(line, b + 1, c, u, h, v, "none", o, w) = StepOf(0, LineOf(c, u, h, v, "none", o, w))
    BY <2>1, Zenon DEF TurnOf
  <2>3. Len(w) = Len(w) + Behind(line, b)
    <3>1. Len(w) \in Nat  BY <1>4
    <3> QED BY <1>1, <1>10, <3>1 DEF Behind
  <2> QED BY <1>4, <1>9, <2>2, <2>3, Zenon
<1>11. CASE b # l
  <2>1. b + 1 \in DOMAIN line /\ b < l  BY <1>1, <1>2, <1>11
  <2>2. line[b + 1].kind = "dashdash"  BY <1>2, <2>1
  <2>3. PICK rest : rest = [n \in 1..(Len(line) - (b + 1)) |-> line[(b + 1) + n].text]  OBVIOUS
  <2>4. TurnOf(line, b + 1, c, u, h, v, "none", o, w) = StepOf(0, LineOf(c, u, h, v, "none", o, w \o rest))
    BY <2>1, <2>2, <2>3, Zenon DEF TurnOf
  <2>5. rest \in Seq(T) /\ Len(rest) = l - (b + 1)
    <3>1. \A n \in 1..(l - (b + 1)) : line[(b + 1) + n].text \in T
      <4> TAKE n \in 1..(l - (b + 1))
      <4>1. (b + 1) + n \in 1..l  BY <1>2
      <4> QED BY <1>1, <4>1 DEF PlainLine, PlainArgument
    <3>2. PICK m \in Nat : m = l - (b + 1)  BY <1>2, <2>1
    <3>3. rest = [n \in 1..m |-> line[(b + 1) + n].text]  BY <1>1, <2>3, <3>2
    <3> QED BY <3>1, <3>2, <3>3
  <2>6. w \o rest \in Seq(T) /\ Len(w \o rest) = Len(w) + Behind(line, b)
    <3>1. Behind(line, b) = l - (b + 1)  BY <1>1, <1>2, <2>1 DEF Behind
    <3> QED BY <1>4, <2>5, <3>1
  <2> QED BY <1>9, <2>4, <2>6, Zenon
<1> QED BY <1>10, <1>11

\* One turn of the loop uses up an argument or two, or finds an error.
LEMMA OneTurn ==
  ASSUME NEW line, NEW T, PlainLine(line, T), NEW before, NEW b, IsBefore(line, before, b),
         NEW k \in Nat, NEW c, NEW u, NEW h, NEW v, NEW o, NEW w, NEW i \in 1..b,
         Turned(line, b, T, k, c, i, "none", o, w)
  PROVE  \E j, hh, vv, ee, oo, ww :
           /\ TurnOf(line, i, c, u, h, v, "none", o, w) = StepOf(j, LineOf(c, u, hh, vv, ee, oo, ww))
           /\ Turned(line, b, T, k, c, j, ee, oo, ww) /\ (j = 0 \/ j \in {i + 1, i + 2})
<1>1. PICK l \in Nat : l = Len(line) /\ DOMAIN line = 1..l  BY DEF PlainLine, PlainArgument
<1>2. b \in 0..l /\ i \in 1..l /\ i + 1 \in 1..(b + 1)  BY <1>1 DEF IsBefore
<1>3. /\ line[i].text \in T /\ line[i].kind \in {"word", "long", "short"}
      /\ line[i].kind = "word" => line[i].name = Empty
      /\ line[i].inline => line[i].kind = "long" /\ line[i].name \notin {"help", "version"}
      /\ line[i].kind = "long" => line[i].name \notin {"-h", "-V"}
  BY <1>1, <1>2 DEF PlainLine, PlainArgument, IsBefore
<1>4. OnlyKnown(o, c) /\ Taken(line, b, T, k, i, o, w) /\ Fresh(line, i)
  <2>1. i # 0  BY <1>2
  <2> QED BY <2>1, Zenon DEF Turned
<1>5. w \in Seq(T) /\ Lists(o, T, i - 1) /\ i \in Nat /\ i - 1 \in Nat /\ i - 1 <= i /\ i - 1 < l /\ (i - 1) + 1 = i
  BY <1>2, <1>4 DEF Taken
<1>6. Lists(o, T, i)
  <2>1. i - 1 \in Int /\ i \in Int  BY <1>2
  <2> QED BY <1>5, <2>1, ListsMore, Zenon
<1> DEFINE name == line[i].name
           text == line[i].text
           K3 == line[i].kind = "word"
           K4 == name \in {"-h", "help"}
           K5 == name \in {"-V", "version"}
           K6 == line[i].kind = "short"
           K7 == name \notin KnownOptions(c) \cup GlobalOptions
           K8 == line[i].inline
           K9 == name \in FlagOptions
           K10 == ~TakesValue(line, i)
           next == line[i + 1].text
           turn == TurnOf(line, i, c, u, h, v, "none", o, w)
<1>7. turn =
        IF K3 THEN StepOf(i + 1, LineOf(c, u, h, v, "none", o, Append(w, text)))
        ELSE IF K4 THEN StepOf(i + 1, LineOf(c, u, TRUE, v, "none", o, w))
        ELSE IF K5 THEN StepOf(i + 1, LineOf(c, u, h, TRUE, "none", o, w))
        ELSE IF K6 THEN StepOf(0, LineOf(c, u, h, v, "short option", o, w))
        ELSE IF K7 THEN StepOf(0, LineOf(c, u, h, v, "unknown option", o, w))
        ELSE IF K8 THEN StepOf(i + 1, LineOf(c, u, h, v, "none", GivenIn(o, name, <<text>>), w))
        ELSE IF K9 THEN StepOf(i + 1, LineOf(c, u, h, v, "none", GivenIn(o, name, <<>>), w))
        ELSE IF K10 THEN StepOf(0, LineOf(c, u, h, v, "value missing", o, w))
        ELSE StepOf(i + 2, LineOf(c, u, h, v, "none", GivenIn(o, name, <<next>>), w))
  <2>1. i \in DOMAIN line  BY <1>1, <1>2
  <2>2. line[i].kind # "dashdash"  BY <1>3
  <2>3. ~(i \notin DOMAIN line)  BY <2>1, Zenon
  <2> QED BY <2>2, <2>3, Zenon DEF TurnOf
<1> DEFINE Goes(j, hh, vv, ee, oo, ww) ==
             /\ turn = StepOf(j, LineOf(c, u, hh, vv, ee, oo, ww))
             /\ Turned(line, b, T, k, c, j, ee, oo, ww) /\ (j = 0 \/ j \in {i + 1, i + 2})
<1>8. ASSUME NEW hh, NEW vv, NEW oo, NEW ww \in Seq(T), Lists(oo, T, i), OnlyKnown(oo, c), NEW d, UsesUp(line, i, d),
             Cardinality(ValuesIn(oo, l)) + Len(ww) = Cardinality(ValuesIn(o, l)) + Len(w) + d,
             turn = StepOf(i + 1, LineOf(c, u, hh, vv, "none", oo, ww)), ~WantsValue(line[i])
      PROVE  Goes(i + 1, hh, vv, "none", oo, ww)
  <2>1. Taken(line, b, T, k, i + 1, oo, ww)  BY <1>1, <1>4, <1>8, TakeOne
  <2>a. Fresh(line, i + 1)
    <3>1. (i + 1) - 1 = i  BY <1>2
    <3> QED BY <1>8, <3>1, Zenon DEF Fresh
  <2>2. Turned(line, b, T, k, c, i + 1, "none", oo, ww)  BY <1>2, <1>8, <2>1, <2>a, Zenon DEF Turned
  <2> HIDE DEF turn
  <2> QED BY <1>8, <2>2, Zenon
<1>9. ASSUME NEW ee \in Problems, turn = StepOf(0, LineOf(c, u, h, v, ee, o, w))
      PROVE  Goes(0, h, v, ee, o, w)
  <2>1. Turned(line, b, T, k, c, 0, ee, o, w)  BY <1>4, <1>9, Zenon DEF Turned
  <2> HIDE DEF turn
  <2> QED BY <1>9, <2>1, Zenon
<1>10. PICK x \in Nat, p \in Nat : x = Cardinality(ValuesIn(o, l)) /\ p = Len(w)
  <2>1. Cardinality(ValuesIn(o, l)) \in Nat  BY <1>6, ValuesFinite, Zenon
  <2> QED BY <1>5, <2>1
<1> HIDE DEF Goes, turn
<1>11. CASE K3
  <2>1. turn = StepOf(i + 1, LineOf(c, u, h, v, "none", o, Append(w, text)))  BY <1>7, <1>11, Zenon
  <2>2. PICK ww : ww = Append(w, text)  OBVIOUS
  <2>3. ww \in Seq(T) /\ Len(ww) = Len(w) + 1  BY <1>3, <1>5, <2>2
  <2>4. UsesUp(line, i, 1) /\ ~WantsValue(line[i])  BY <1>11 DEF UsesUp, WantsValue
  <2>5. Cardinality(ValuesIn(o, l)) + Len(ww) = Cardinality(ValuesIn(o, l)) + Len(w) + 1  BY <1>10, <2>3
  <2>6. turn = StepOf(i + 1, LineOf(c, u, h, v, "none", o, ww))  BY <2>1, <2>2, Zenon
  <2>7. Goes(i + 1, h, v, "none", o, ww)  BY <1>4, <1>6, <1>8, <2>3, <2>4, <2>5, <2>6, Zenon
  <2> QED BY <2>7, Zenon DEF Goes, turn
<1>12. CASE ~K3 /\ (K4 \/ K5)
  <2>1. PICK hh, vv : turn = StepOf(i + 1, LineOf(c, u, hh, vv, "none", o, w))
    <3>1. CASE K4  BY <1>7, <1>12, <3>1, Zenon
    <3>2. CASE ~K4 /\ K5  BY <1>7, <1>12, <3>2, Zenon
    <3> QED BY <1>12, <3>1, <3>2, Zenon
  <2>2. ~line[i].inline /\ line[i].kind \in {"long", "short"}  BY <1>3, <1>12
  <2>a. ~WantsValue(line[i])
    <3>1. "help" \in FlagOptions /\ "version" \in FlagOptions  BY Zenon DEF FlagOptions
    <3>2. line[i].kind = "long" => name = "help" \/ name = "version"  BY <1>3, <1>12, Zenon
    <3> QED BY <3>1, <3>2, Zenon DEF WantsValue
  <2>b. ~IsEaten(line, i)  BY <1>4, Zenon DEF Fresh, IsEaten
  <2>3. UsesUp(line, i, 0)  BY <2>2, <2>b, Zenon DEF UsesUp
  <2>4. Cardinality(ValuesIn(o, l)) + Len(w) = Cardinality(ValuesIn(o, l)) + Len(w) + 0  BY <1>10
  <2>5. Goes(i + 1, hh, vv, "none", o, w)  BY <1>4, <1>5, <1>6, <1>8, <2>1, <2>3, <2>4, <2>a, Zenon
  <2> QED BY <2>5, Zenon DEF Goes, turn
<1> DEFINE Option == ~K3 /\ ~K4 /\ ~K5
<1>13. CASE Option /\ (K6 \/ K7)
  <2>1. PICK ee : ee \in Problems /\ turn = StepOf(0, LineOf(c, u, h, v, ee, o, w))
    <3>1. "short option" \in Problems /\ "unknown option" \in Problems  BY DEF Problems
    <3>2. CASE K6  BY <1>7, <1>13, <3>1, <3>2, Zenon
    <3>3. CASE ~K6 /\ K7  BY <1>7, <1>13, <3>1, <3>3, Zenon
    <3> QED BY <1>13, <3>2, <3>3, Zenon
  <2>2. Goes(0, h, v, ee, o, w)  BY <1>9, <2>1, Zenon
  <2> QED BY <2>2, Zenon DEF Goes, turn
<1> DEFINE Known == Option /\ ~K6 /\ ~K7
<1>14. Known => line[i].kind = "long" /\ name \in KnownOptions(c) \cup GlobalOptions  BY <1>3
<1>15. CASE Known /\ K8
  <2>1. turn = StepOf(i + 1, LineOf(c, u, h, v, "none", GivenIn(o, name, <<text>>), w))  BY <1>7, <1>15, Zenon
  <2>2. PICK oo : oo = GivenIn(o, name, <<text>>)  OBVIOUS
  <2>3. Lists(oo, T, i) /\ Cardinality(ValuesIn(oo, l)) = Cardinality(ValuesIn(o, l)) + 1
    <3>1. PICK m \in Nat : m = i - 1  BY <1>5
    <3>2. m < l /\ Lists(o, T, m) /\ m + 1 = i /\ text \in T  BY <1>3, <1>5, <3>1
    <3>3. PICK y : y = text  OBVIOUS
    <3>4. oo = GivenIn(o, name, <<y>>) /\ y \in T  BY <2>2, <3>2, <3>3
    <3>5. Counted(GivenIn(o, name, <<y>>), T, l, m + 1, o, 1)  BY <3>2, <3>4, GivenCounts, Zenon
    <3> QED BY <3>2, <3>4, <3>5, Zenon DEF Counted
  <2>4. OnlyKnown(oo, c)  BY <1>4, <1>14, <1>15, <2>2, KnownStays, Zenon
  <2>5. UsesUp(line, i, 1) /\ ~WantsValue(line[i])  BY <1>14, <1>15 DEF UsesUp, WantsValue
  <2>6. Cardinality(ValuesIn(oo, l)) + Len(w) = Cardinality(ValuesIn(o, l)) + Len(w) + 1  BY <1>10, <2>3
  <2>7. turn = StepOf(i + 1, LineOf(c, u, h, v, "none", oo, w))  BY <2>1, <2>2, Zenon
  <2>8. Goes(i + 1, h, v, "none", oo, w)  BY <1>5, <1>8, <2>3, <2>4, <2>5, <2>6, <2>7, Zenon
  <2> QED BY <2>8, Zenon DEF Goes, turn
<1>16. CASE Known /\ ~K8 /\ K9
  <2>1. turn = StepOf(i + 1, LineOf(c, u, h, v, "none", GivenIn(o, name, <<>>), w))  BY <1>7, <1>16, Zenon
  <2>2. PICK oo : oo = GivenIn(o, name, <<>>)  OBVIOUS
  <2>3. Lists(oo, T, i) /\ Cardinality(ValuesIn(oo, l)) = Cardinality(ValuesIn(o, l))
    <3>1. PICK m \in Nat : m = i - 1  BY <1>5
    <3>2. m < l /\ Lists(o, T, m) /\ m + 1 = i /\ text \in T /\ m \in Int /\ i \in Int /\ m <= i
      BY <1>3, <1>5, <3>1
    <3>3. PICK y \in T : y = text  BY <3>2
    <3>4. Counted(GivenIn(o, name, <<>>), T, l, m, o, 0)  BY <3>2, <3>3, GivenCounts, Zenon
    <3>a. Lists(oo, T, m) /\ Cardinality(ValuesIn(oo, l)) = Cardinality(ValuesIn(o, l)) + 0
      BY <2>2, <3>4, Zenon DEF Counted
    <3>5. Lists(oo, T, m) /\ Cardinality(ValuesIn(oo, l)) = Cardinality(ValuesIn(o, l))  BY <1>10, <3>a
    <3> QED BY <3>2, <3>5, ListsMore, Zenon
  <2>4. OnlyKnown(oo, c)  BY <1>4, <1>14, <1>16, <2>2, KnownStays, Zenon
  <2>5. UsesUp(line, i, 0) /\ ~WantsValue(line[i])  BY <1>14, <1>16, Zenon DEF UsesUp, WantsValue
  <2>6. Cardinality(ValuesIn(oo, l)) + Len(w) = Cardinality(ValuesIn(o, l)) + Len(w) + 0  BY <1>10, <2>3
  <2>7. turn = StepOf(i + 1, LineOf(c, u, h, v, "none", oo, w))  BY <2>1, <2>2, Zenon
  <2>8. Goes(i + 1, h, v, "none", oo, w)  BY <1>5, <1>8, <2>3, <2>4, <2>5, <2>6, <2>7, Zenon
  <2> QED BY <2>8, Zenon DEF Goes, turn
<1>17. CASE Known /\ ~K8 /\ ~K9 /\ K10
  <2>1. turn = StepOf(0, LineOf(c, u, h, v, "value missing", o, w))  BY <1>7, <1>17, Zenon
  <2>2. "value missing" \in Problems  BY DEF Problems
  <2>3. Goes(0, h, v, "value missing", o, w)  BY <1>9, <2>1, <2>2, Zenon
  <2> QED BY <2>3, Zenon DEF Goes, turn
<1>18. CASE Known /\ ~K8 /\ ~K9 /\ ~K10
  <2>1. turn = StepOf(i + 2, LineOf(c, u, h, v, "none", GivenIn(o, name, <<next>>), w))  BY <1>7, <1>18, Zenon
  <2>2. i < l /\ line[i + 1].kind \notin {"long", "dashdash"}  BY <1>1, <1>18 DEF TakesValue
  <2>3. i + 1 \in 1..b
    <3>1. b < l => line[b + 1].kind = "dashdash"  BY <1>1 DEF IsBefore
    <3>2. i # b  BY <2>2, <3>1
    <3> QED BY <1>2, <3>2
  <2>4. i + 1 \in 1..l /\ i + 2 \in 1..(b + 1) /\ (i + 1) + 1 = i + 2  BY <1>2, <2>3
  <2>5. line[i + 1].kind \in {"word", "short"} /\ next \in T  BY <1>1, <2>2, <2>4 DEF PlainLine, PlainArgument
  <2>6. Taken(line, b, T, k, i + 1, o, w)
    <3>1. UsesUp(line, i, 0)  BY <1>14, <1>18, Zenon DEF UsesUp
    <3>2. Cardinality(ValuesIn(o, Len(line))) + Len(w) = Cardinality(ValuesIn(o, Len(line))) + Len(w) + 0
      BY <1>1, <1>10
    <3> QED BY <1>4, <1>5, <1>6, <3>1, <3>2, TakeOne
  <2>7. PICK oo : oo = GivenIn(o, name, <<next>>)  OBVIOUS
  <2>8. Lists(oo, T, i + 1) /\ Cardinality(ValuesIn(oo, l)) = Cardinality(ValuesIn(o, l)) + 1
    <3>1. PICK y \in T : y = next  BY <2>5
    <3>2. oo = GivenIn(o, name, <<y>>)  BY <2>7, <3>1
    <3>3. Counted(GivenIn(o, name, <<y>>), T, l, i + 1, o, 1)  BY <1>5, <1>6, <2>2, <3>1, GivenCounts, Zenon
    <3> QED BY <3>2, <3>3, Zenon DEF Counted
  <2>9. OnlyKnown(oo, c)  BY <1>4, <1>14, <1>18, <2>7, KnownStays, Zenon
  <2>a. WantsValue(line[i])  BY <1>14, <1>18, Zenon DEF WantsValue
  <2>b. ~WantsValue(line[i + 1]) /\ Fresh(line, i + 2)
    <3>1. line[i + 1].kind # "long"  BY <2>2
    <3>2. ~WantsValue(line[i + 1])  BY <3>1, Zenon DEF WantsValue
    <3>3. (i + 2) - 1 = i + 1  BY <1>2
    <3> QED BY <3>2, <3>3, Zenon DEF Fresh
  <2>10. UsesUp(line, i + 1, 1)
    <3>1. i + 1 # 1 /\ (i + 1) - 1 = i  BY <1>2
    <3>2. line[i + 1].kind = "short" => IsEaten(line, i + 1)  BY <2>a, <3>1, Zenon DEF IsEaten
    <3> QED BY <2>5, <3>2, Zenon DEF UsesUp
  <2>11. Cardinality(ValuesIn(oo, Len(line))) + Len(w) = Cardinality(ValuesIn(o, Len(line))) + Len(w) + 1
    BY <1>1, <1>10, <2>8
  <2>12. Taken(line, b, T, k, (i + 1) + 1, oo, w)
    <3>1. PICK n \in 1..b : n = i + 1  BY <2>3
    <3>2. Taken(line, b, T, k, n, o, w) /\ Lists(oo, T, n) /\ UsesUp(line, n, 1)  BY <2>6, <2>8, <2>10, <3>1
    <3>3. Taken(line, b, T, k, n + 1, oo, w)  BY <1>5, <2>11, <3>2, TakeOne
    <3> QED BY <3>1, <3>3
  <2>13. Turned(line, b, T, k, c, i + 2, "none", oo, w)  BY <2>4, <2>9, <2>12, <2>b, Zenon DEF Turned
  <2>14. turn = StepOf(i + 2, LineOf(c, u, h, v, "none", oo, w))  BY <2>1, <2>7, Zenon
  <2> QED BY <2>13, <2>14, Zenon DEF turn
<1> QED BY <1>11, <1>12, <1>13, <1>15, <1>16, <1>17, <1>18, Zenon

\* Where the loop leads from an argument.
Leaves(line, b, T, k, c, u, h, v, start, o, w) ==
  \E hh, vv, ee, oo, ww :
    /\ ParseFrom(line, start, LineOf(c, u, h, v, "none", o, w)) = LineOf(c, u, hh, vv, ee, oo, ww)
    /\ Turned(line, b, T, k, c, 0, ee, oo, ww)

\* Every turn uses up an argument, so the loop is left in the end.
LEMMA LoopEnds ==
  ASSUME NEW line, NEW T, PlainLine(line, T), NEW before, NEW b, IsBefore(line, before, b),
         NEW k \in Nat, NEW c, NEW u, NEW h, NEW v, NEW o, NEW w, NEW start \in 1..(b + 1),
         Turned(line, b, T, k, c, start, "none", o, w)
  PROVE  Leaves(line, b, T, k, c, u, h, v, start, o, w)
<1>1. PICK l \in Nat : l = Len(line) /\ DOMAIN line = 1..l /\ b \in 0..l  BY DEF PlainLine, PlainArgument, IsBefore
<1>2. PICK first : first = LineOf(c, u, h, v, "none", o, w)  OBVIOUS
<1>3. PICK f : Parses(f, line, start, first)  BY <1>1, ParseFromIs, Zenon
<1>4. /\ f[0] = StepOf(start, first) /\ \A n \in 0..l : f[n + 1] = ParseNext(line, f[n])
      /\ ParseFrom(line, start, first) = f[l + 1].parsed
  BY <1>1, <1>3, Zenon DEF Parses
<1> DEFINE State(n, j, hh, vv, ee, oo, ww) ==
             /\ f[n] = StepOf(j, LineOf(c, u, hh, vv, ee, oo, ww))
             /\ Turned(line, b, T, k, c, j, ee, oo, ww) /\ (j = 0 \/ (j \in Nat /\ j >= n + 1))
           D == {n \in Nat : n <= l + 1 => \E j, hh, vv, ee, oo, ww : State(n, j, hh, vv, ee, oo, ww)}
<1>5. 0 \in D
  <2>1. start \in Nat /\ start >= 0 + 1 /\ 0 \in Nat  BY <1>1
  <2>2. State(0, start, h, v, "none", o, w)  BY <1>2, <1>4, <2>1, Zenon
  <2> HIDE DEF State
  <2> QED BY <2>1, <2>2, Zenon
<1>6. ASSUME NEW n \in Nat, n \in D PROVE n + 1 \in D
  <2> SUFFICES ASSUME n + 1 <= l + 1
               PROVE  \E j, hh, vv, ee, oo, ww : State(n + 1, j, hh, vv, ee, oo, ww)
    <3> HIDE DEF State
    <3>1. n + 1 \in Nat  OBVIOUS
    <3> QED BY <3>1, Zenon
  <2>1. n <= l + 1 /\ n \in 0..l  OBVIOUS
  <2>2. PICK j, hh, vv, ee, oo, ww : State(n, j, hh, vv, ee, oo, ww)
    <3> HIDE DEF State
    <3> QED BY <1>6, <2>1, Zenon
  <2>3. f[n + 1] = TurnOf(line, j, c, u, hh, vv, ee, oo, ww)  BY <1>4, <2>1, <2>2, NextIs, Zenon
  <2>4. CASE j = 0
    <3>1. j \notin DOMAIN line  BY <1>1, <2>4
    <3>2. TurnOf(line, j, c, u, hh, vv, ee, oo, ww) = StepOf(0, LineOf(c, u, hh, vv, ee, oo, ww))
      BY <3>1, Zenon DEF TurnOf
    <3>3. State(n + 1, 0, hh, vv, ee, oo, ww)  BY <2>2, <2>3, <2>4, <3>2, Zenon
    <3> HIDE DEF State
    <3> QED BY <3>3, Zenon
  <2>5. CASE j # 0
    <3>1. j \in 1..(b + 1) /\ ee = "none" /\ j >= n + 1 /\ Turned(line, b, T, k, c, j, "none", oo, ww)
      BY <2>2, <2>5, Zenon DEF Turned
    <3>2. CASE j = b + 1
      <4>1. PICK w2 : /\ TurnOf(line, j, c, u, hh, vv, "none", oo, ww) = StepOf(0, LineOf(c, u, hh, vv, "none", oo, w2))
                      /\ Turned(line, b, T, k, c, 0, "none", oo, w2)
        BY <3>1, <3>2, LastTurn
      <4>2. State(n + 1, 0, hh, vv, "none", oo, w2)  BY <2>3, <3>1, <4>1, Zenon
      <4> HIDE DEF State
      <4> QED BY <4>2, Zenon
    <3>3. CASE j # b + 1
      <4>1. j \in 1..b  BY <1>1, <3>1, <3>3
      <4>2. PICK j2, h2, v2, e2, o2, w2 :
              /\ TurnOf(line, j, c, u, hh, vv, "none", oo, ww) = StepOf(j2, LineOf(c, u, h2, v2, e2, o2, w2))
              /\ Turned(line, b, T, k, c, j2, e2, o2, w2) /\ (j2 = 0 \/ j2 \in {j + 1, j + 2})
        BY <3>1, <4>1, OneTurn
      <4>3. j2 = 0 \/ (j2 \in Nat /\ j2 >= (n + 1) + 1)  BY <3>1, <4>1, <4>2
      <4>4. State(n + 1, j2, h2, v2, e2, o2, w2)  BY <2>3, <3>1, <4>2, <4>3, Zenon
      <4> HIDE DEF State
      <4> QED BY <4>4, Zenon
    <3> QED BY <3>2, <3>3
  <2> QED BY <2>4, <2>5
<1>7. l + 1 \in D
  <2> HIDE DEF D
  <2>1. \A n \in Nat : n \in D => n + 1 \in D  BY <1>6
  <2>2. Nat \subseteq D  BY <1>5, <2>1, SetInduction, Zenon
  <2> QED BY <2>2
<1>8. PICK j, hh, vv, ee, oo, ww : State(l + 1, j, hh, vv, ee, oo, ww)
  <2>1. l + 1 <= l + 1  OBVIOUS
  <2> HIDE DEF State
  <2> QED BY <1>7, <2>1, Zenon
<1>9. j = 0
  <2>1. j = 0 \/ j \in 1..(b + 1)  BY <1>8, Zenon DEF Turned
  <2>2. j = 0 \/ j >= (l + 1) + 1  BY <1>8
  <2> QED BY <1>1, <2>1, <2>2
<1>10. f[l + 1].parsed = LineOf(c, u, hh, vv, ee, oo, ww)
  <2>1. f[l + 1] = StepOf(j, LineOf(c, u, hh, vv, ee, oo, ww))  BY <1>8, Zenon
  <2> QED BY <2>1, StepParts
<1>11. ParseFrom(line, start, LineOf(c, u, h, v, "none", o, w)) = LineOf(c, u, hh, vv, ee, oo, ww)
  BY <1>2, <1>4, <1>10, Zenon
<1>12. Turned(line, b, T, k, c, 0, ee, oo, ww)  BY <1>8, <1>9, Zenon
<1> QED BY <1>11, <1>12, Zenon DEF Leaves

\* The arguments before the command.
Leads(argument) == argument.name \in {"-h", "-V", "help", "version"} /\ ~argument.inline

Begins(line, first) ==
  /\ first \in 1..(Len(line) + 1) /\ \A i \in 1..(first - 1) : Leads(line[i])
  /\ first \in DOMAIN line => ~Leads(line[first])

LEMMA FirstExists ==
  ASSUME NEW line, Len(line) \in Nat, DOMAIN line = 1..Len(line)
  PROVE  \E first : Begins(line, first)
<1> DEFINE E == {n \in 1..(Len(line) + 1) : n \in DOMAIN line => ~Leads(line[n])}
<1>1. Len(line) + 1 \in E  OBVIOUS
<1>2. E \subseteq Nat /\ E # {}  BY <1>1
<1>3. PICK first \in E : \A j \in E : ~(j < first)
  <2> HIDE DEF E
  <2>1. PICK i \in E : \A j \in E : ~(<<j, i>> \in OpToRel(<, Nat))
    BY <1>2, NatLessThanWellFounded, WFMin, Zenon
  <2>2. \A j \in E : ~(j < i)  BY <1>2, <2>1 DEF OpToRel
  <2> QED BY <2>2
<1>4. \A i \in 1..(first - 1) : Leads(line[i])
  <2> SUFFICES ASSUME NEW i \in 1..(first - 1), ~Leads(line[i]) PROVE FALSE  OBVIOUS
  <2>1. i \in E /\ i < first  OBVIOUS
  <2> HIDE DEF E
  <2> QED BY <1>3, <2>1
<1>5. first \in 1..(Len(line) + 1) /\ (first \in DOMAIN line => ~Leads(line[first]))  OBVIOUS
<1>6. Begins(line, first)  BY <1>4, <1>5, Zenon DEF Begins
<1> QED BY <1>6

LEMMA FirstUnique ==
  ASSUME NEW line, Len(line) \in Nat, DOMAIN line = 1..Len(line), NEW m, NEW n, Begins(line, m), Begins(line, n)
  PROVE  m = n
<1>1. \A x \in 1..(Len(line) + 1), y \in 1..(Len(line) + 1) :
        x < y => x \in DOMAIN line /\ x \in 1..(y - 1)
  OBVIOUS
<1>2. m \in 1..(Len(line) + 1) /\ n \in 1..(Len(line) + 1)  BY Zenon DEF Begins
<1>3. ~(m < n)  BY <1>1, <1>2, Zenon DEF Begins
<1>4. ~(n < m)  BY <1>1, <1>2, Zenon DEF Begins
<1> QED BY <1>2, <1>3, <1>4

\* What the parser starts with.
BareAt(line, n) == n \in DOMAIN line /\ ~IsDashed(line[n])
CommandAt(line, first) == IF BareAt(line, first) /\ line[first].text # <<>> THEN Head(line[first].text) ELSE Empty
SecondAt(line, first) == IF BareAt(line, first) THEN first + 1 ELSE first
HasSub(line, first) == CommandAt(line, first) \in {"ai", "db"} /\ BareAt(line, SecondAt(line, first))
SubAt(line, first) == IF HasSub(line, first) THEN line[SecondAt(line, first)].text ELSE <<>>
StartAt(line, first) == IF HasSub(line, first) THEN SecondAt(line, first) + 1 ELSE SecondAt(line, first)
Asks(line, first, names) == {line[i].name : i \in 1..(first - 1)} \cap names # {}

\* What is made of the record that the loop leaves.
Finished(parsed) ==
  IF parsed.error # "none" THEN parsed
  ELSE IF parsed.help \/ parsed.version THEN parsed
  ELSE IF parsed.command = Empty THEN [parsed EXCEPT !.help = TRUE]
  ELSE IF parsed.command \notin Commands THEN [parsed EXCEPT !.error = "unknown command"]
  ELSE parsed

Begun(c, u, h, v) == [NoCommand EXCEPT !.command = c, !.subcommand = u, !.help = h, !.version = v]

LEMMA BegunIs ==
  ASSUME NEW c, NEW u, NEW h, NEW v
  PROVE  Begun(c, u, h, v) = LineOf(c, u, h, v, "none", <<>>, <<>>)
<1>1. PICK b, no, e, s : b = Empty /\ no = FALSE /\ e = "none" /\ s = <<>>  OBVIOUS
<1>2. PICK r : r = NoCommand  OBVIOUS
<1>3. r = LineOf(b, s, no, no, e, s, s)  BY <1>1, <1>2, Zenon DEF NoCommand, LineOf, Empty
<1>4. PICK r1 : r1 = [r EXCEPT !.command = c]  OBVIOUS
<1>5. PICK r2 : r2 = [r1 EXCEPT !.subcommand = u]  OBVIOUS
<1>6. PICK r3 : r3 = [r2 EXCEPT !.help = h]  OBVIOUS
<1>7. PICK r4 : r4 = [r3 EXCEPT !.version = v]  OBVIOUS
<1>8. r1 = LineOf(c, s, no, no, e, s, s)  BY <1>3, <1>4 DEF LineOf
<1>9. r2 = LineOf(c, u, no, no, e, s, s)  BY <1>5, <1>8 DEF LineOf
<1>10. r3 = LineOf(c, u, h, no, e, s, s)  BY <1>6, <1>9 DEF LineOf
<1>11. r4 = LineOf(c, u, h, v, e, s, s)  BY <1>7, <1>10 DEF LineOf
<1>12. Begun(c, u, h, v) = r4
  <2>1. Begun(c, u, h, v) =
          [[[[NoCommand EXCEPT !.command = c] EXCEPT !.subcommand = u] EXCEPT !.help = h] EXCEPT !.version = v]
    BY Zenon DEF Begun
  <2>2. [[[[r EXCEPT !.command = c] EXCEPT !.subcommand = u] EXCEPT !.help = h] EXCEPT !.version = v] = r4
    BY <1>4, <1>5, <1>6, <1>7
  <2> QED BY <1>2, <2>1, <2>2
<1> QED BY <1>1, <1>11, <1>12, Zenon

LEMMA ParseIs ==
  ASSUME NEW line, Len(line) \in Nat, DOMAIN line = 1..Len(line), NEW n, Begins(line, n)
  PROVE  Parse(line) = Finished(ParseFrom(line, StartAt(line, n),
           LineOf(CommandAt(line, n), SubAt(line, n), Asks(line, n, {"-h", "help"}), Asks(line, n, {"-V", "version"}),
                  "none", <<>>, <<>>)))
<1> DEFINE leading == {"-h", "-V", "help", "version"}
           IsLeading(i) == line[i].name \in leading /\ ~line[i].inline
           first == CHOOSE m \in 1..(Len(line) + 1) :
                      /\ \A i \in 1..(m - 1) : IsLeading(i)
                      /\ m \in DOMAIN line => ~IsLeading(m)
           asked == {line[i].name : i \in 1..(first - 1)}
           Bare(m) == m \in DOMAIN line /\ ~IsDashed(line[m])
           command == IF Bare(first) /\ line[first].text # <<>> THEN Head(line[first].text) ELSE ""
           second == IF Bare(first) THEN first + 1 ELSE first
           hasSub == command \in {"ai", "db"} /\ Bare(second)
           start == [NoCommand EXCEPT !.command = command,
                     !.subcommand = IF hasSub THEN line[second].text ELSE <<>>,
                     !.help = asked \cap {"-h", "help"} # {},
                     !.version = asked \cap {"-V", "version"} # {}]
           parsed == ParseFrom(line, IF hasSub THEN second + 1 ELSE second, start)
<1>1. Parse(line) =
        IF parsed.error # "none" THEN parsed
        ELSE IF parsed.help \/ parsed.version THEN parsed
        ELSE IF parsed.command = "" THEN [parsed EXCEPT !.help = TRUE]
        ELSE IF parsed.command \notin Commands THEN [parsed EXCEPT !.error = "unknown command"]
        ELSE parsed
  BY DEF Parse
<1>2. first = n
  <2>1. \A m : m \in 1..(Len(line) + 1) /\ (\A i \in 1..(m - 1) : IsLeading(i)) /\ (m \in DOMAIN line => ~IsLeading(m))
               <=> Begins(line, m)
    BY Zenon DEF Begins, Leads
  <2> HIDE DEF IsLeading
  <2>2. Begins(line, first)  BY <2>1, Zenon
  <2> HIDE DEF first
  <2> QED BY <2>2, FirstUnique
<1> HIDE DEF first
<1>3. /\ command = CommandAt(line, n) /\ second = SecondAt(line, n)
      /\ \A m : Bare(m) <=> BareAt(line, m)
  BY <1>2, Zenon DEF CommandAt, SecondAt, BareAt, Empty
<1> HIDE DEF command, second, Bare
<1>4. hasSub <=> HasSub(line, n)  BY <1>3, Zenon DEF HasSub
<1> HIDE DEF hasSub
<1>5. (IF hasSub THEN line[second].text ELSE <<>>) = SubAt(line, n)  BY <1>3, <1>4, Zenon DEF SubAt
<1>6. (IF hasSub THEN second + 1 ELSE second) = StartAt(line, n)  BY <1>3, <1>4, Zenon DEF StartAt
<1>7. asked = {line[i].name : i \in 1..(n - 1)}  BY <1>2, Zenon
<1> HIDE DEF asked
<1>8. start = LineOf(CommandAt(line, n), SubAt(line, n), Asks(line, n, {"-h", "help"}),
                     Asks(line, n, {"-V", "version"}), "none", <<>>, <<>>)
  <2>1. PICK c, u, h, v : /\ c = CommandAt(line, n) /\ u = SubAt(line, n)
                          /\ h = (asked \cap {"-h", "help"} # {}) /\ v = (asked \cap {"-V", "version"} # {})
    OBVIOUS
  <2>2. start = Begun(c, u, h, v)  BY <1>3, <1>5, <2>1, Zenon DEF Begun
  <2>3. Asks(line, n, {"-h", "help"}) = h /\ Asks(line, n, {"-V", "version"}) = v
    BY <1>7, <2>1, Zenon DEF Asks
  <2> QED BY <2>1, <2>2, <2>3, BegunIs, Zenon
<1> HIDE DEF start
<1>9. parsed = ParseFrom(line, StartAt(line, n),
           LineOf(CommandAt(line, n), SubAt(line, n), Asks(line, n, {"-h", "help"}), Asks(line, n, {"-V", "version"}),
                  "none", <<>>, <<>>))
  BY <1>6, <1>8, Zenon
<1> HIDE DEF parsed
<1>10. Parse(line) = Finished(parsed)  BY <1>1, Zenon DEF Finished, Empty
<1> QED BY <1>9, <1>10, Zenon

\* The arguments that the command and its subcommand take.
Used(c, u) == (IF c = Empty THEN 0 ELSE 1) + (IF u = <<>> THEN 0 ELSE 1)

LEMMA EmptyTaken ==
  ASSUME NEW line, NEW T, NEW b \in Nat, NEW n \in Nat, n > 0,
         \A i \in 1..(n - 1) : line[i].kind # "word" /\ ~line[i].inline /\ ~WantsValue(line[i])
  PROVE  Taken(line, b, T, 0, n, <<>>, <<>>)
<1>1. PICK o : o = <<>> /\ DOMAIN o = {}  OBVIOUS
<1>2. Lists(o, T, n - 1)  BY <1>1, FS_EmptySet DEF Lists
<1>3. ValuesIn(o, Len(line)) = {}  BY <1>1 DEF ValuesIn
<1>4. Cardinality(ValuesIn(o, Len(line))) = 0  BY <1>3, FS_EmptySet
<1>5. Words(line, b) \cap (1..(n - 1)) = {} /\ Inlines(line, b) \cap (1..(n - 1)) = {}  BY DEF Words, Inlines
<1>6. Upto(Words(line, b), n - 1) = 0 /\ Upto(Inlines(line, b), n - 1) = 0  BY <1>5, FS_EmptySet DEF Upto
<1>7. Upto(Eaten(line, b), n - 1) = 0
  <2>1. \A i \in 1..(n - 1) : i = 1 \/ i - 1 \in 1..(n - 1)  OBVIOUS
  <2>2. \A i \in 1..(n - 1) : ~IsEaten(line, i)  BY <2>1, Zenon DEF IsEaten
  <2>3. Eaten(line, b) \cap (1..(n - 1)) = {}  BY <2>2, Zenon DEF Eaten
  <2> QED BY <2>3, FS_EmptySet DEF Upto
<1>8. o \in Seq(T) /\ Len(o) = 0  BY <1>1
<1>10. 0 + Cardinality(ValuesIn(o, Len(line))) + Len(o) =
         Upto(Words(line, b), n - 1) + Upto(Inlines(line, b), n - 1) + Upto(Eaten(line, b), n - 1)
  BY <1>4, <1>6, <1>7, <1>8
<1>11. Taken(line, b, T, 0, n, o, o)  BY <1>2, <1>8, <1>10, Zenon DEF Taken
<1> QED BY <1>1, <1>11, Zenon

\* A word that the command or its subcommand takes.
LEMMA TakeWord ==
  ASSUME NEW line, NEW T, PlainLine(line, T), NEW before, NEW b, IsBefore(line, before, b),
         NEW i \in 1..(b + 1), NEW k \in Nat, Taken(line, b, T, k, i, <<>>, <<>>), BareAt(line, i)
  PROVE  /\ i + 1 \in 1..(b + 1) /\ Taken(line, b, T, k + 1, i + 1, <<>>, <<>>)
         /\ line[i].text # <<>> /\ Head(line[i].text) # Empty /\ ~WantsValue(line[i])
<1>1. Len(line) \in Nat /\ DOMAIN line = 1..Len(line) /\ b \in Nat  BY DEF PlainLine, PlainArgument, IsBefore
<1>2. i \in 1..Len(line) /\ line[i].kind = "word"  BY <1>1 DEF BareAt, IsDashed
<1>3. i \in 1..b  BY <1>1, <1>2 DEF IsBefore
<1>4. line[i].text # <<>> /\ Head(line[i].text) # Empty  BY <1>2 DEF PlainLine, PlainArgument
<1>5. UsesUp(line, i, 1) /\ ~WantsValue(line[i])  BY <1>2 DEF UsesUp, WantsValue
<1>a. PICK o : o = <<>>  OBVIOUS
<1>6. o = <<>> /\ o \in Seq(T) /\ Len(o) = 0  BY <1>a
<1>7. Lists(o, T, i - 1) /\ Taken(line, b, T, k, i, o, o)  BY <1>6 DEF Taken
<1>8. Lists(o, T, i)
  <2>1. i - 1 \in Int /\ i \in Int /\ i - 1 <= i  BY <1>3
  <2> QED BY <1>7, <2>1, ListsMore, Zenon
<1>9. PICK x \in Nat : x = Cardinality(ValuesIn(o, Len(line)))
  <2>1. Cardinality(ValuesIn(o, Len(line))) \in Nat  BY <1>1, <1>8, ValuesFinite, Zenon
  <2> QED BY <2>1
<1>10. PICK kk \in Nat : kk = k + 1  OBVIOUS
<1>11. kk + Cardinality(ValuesIn(o, Len(line))) + Len(o) = k + Cardinality(ValuesIn(o, Len(line))) + Len(o) + 1
  BY <1>6, <1>9, <1>10
<1>12. Taken(line, b, T, kk, i + 1, o, o)  BY <1>3, <1>5, <1>6, <1>7, <1>8, <1>11, TakeAny, Zenon
<1> QED BY <1>1, <1>3, <1>4, <1>5, <1>6, <1>10, <1>12

\* The loop starts behind the words that the command and its subcommand took.
LEMMA StartCounts ==
  ASSUME NEW line, NEW T, PlainLine(line, T), NEW before, NEW b, IsBefore(line, before, b), NEW n, Begins(line, n)
  PROVE  /\ StartAt(line, n) \in 1..(b + 1) /\ Used(CommandAt(line, n), SubAt(line, n)) \in Nat
         /\ Turned(line, b, T, Used(CommandAt(line, n), SubAt(line, n)), CommandAt(line, n), StartAt(line, n),
                   "none", <<>>, <<>>)
<1>1. Len(line) \in Nat /\ DOMAIN line = 1..Len(line) /\ b \in 0..Len(line)  BY DEF PlainLine, PlainArgument, IsBefore
<1>2. n \in 1..(Len(line) + 1) /\ \A i \in 1..(n - 1) : Leads(line[i])  BY Zenon DEF Begins
<1>3. \A i \in 1..(n - 1) : line[i].kind \notin {"word", "dashdash"} /\ ~line[i].inline
  <2> TAKE i \in 1..(n - 1)
  <2>1. i \in 1..Len(line) /\ Leads(line[i])  BY <1>1, <1>2
  <2>2. Empty \notin {"-h", "-V", "help", "version"}  BY Zenon DEF Empty
  <2>3. line[i].kind \in {"word", "dashdash"} => line[i].name = Empty  BY <2>1, Zenon DEF PlainLine, PlainArgument
  <2> QED BY <2>1, <2>2, <2>3, Zenon DEF Leads
<1>a. \A i \in 1..(n - 1) : ~WantsValue(line[i])
  <2> TAKE i \in 1..(n - 1)
  <2>1. i \in 1..Len(line) /\ Leads(line[i])  BY <1>1, <1>2
  <2>2. "help" \in FlagOptions /\ "version" \in FlagOptions  BY Zenon DEF FlagOptions
  <2>3. line[i].kind = "long" => line[i].name \notin {"-h", "-V"}  BY <2>1, Zenon DEF PlainLine, PlainArgument
  <2> QED BY <2>1, <2>2, <2>3, Zenon DEF WantsValue, Leads
<1>b. Fresh(line, n)
  <2>1. n = 1 \/ n - 1 \in 1..(n - 1)  BY <1>2
  <2> QED BY <1>a, <2>1, Zenon DEF Fresh
<1>4. n \in 1..(b + 1)
  <2>1. b < Len(line) => line[b + 1].kind = "dashdash"  BY DEF IsBefore
  <2> QED BY <1>1, <1>2, <1>3, <2>1
<1>5. Taken(line, b, T, 0, n, <<>>, <<>>)
  <2>1. \A i \in 1..(n - 1) : line[i].kind # "word" /\ ~line[i].inline /\ ~WantsValue(line[i])  BY <1>3, <1>a, Zenon
  <2>2. b \in Nat /\ n \in Nat /\ n > 0  BY <1>1, <1>2
  <2> QED BY <2>1, <2>2, EmptyTaken, Zenon
<1>6. PICK c, u, m, s : c = CommandAt(line, n) /\ u = SubAt(line, n) /\ m = SecondAt(line, n) /\ s = StartAt(line, n)
  OBVIOUS
<1>7. PICK k \in Nat : s \in 1..(b + 1) /\ Used(c, u) = k /\ Taken(line, b, T, k, s, <<>>, <<>>) /\ Fresh(line, s)
  <2>1. CASE ~BareAt(line, n)
    <3>1. c = Empty /\ m = n  BY <1>6, <2>1, Zenon DEF CommandAt, SecondAt
    <3>2. Empty \notin {"ai", "db"}  BY Zenon DEF Empty
    <3>3. ~HasSub(line, n)  BY <1>6, <3>1, <3>2, Zenon DEF HasSub
    <3>4. u = <<>> /\ s = n  BY <1>6, <3>1, <3>3, Zenon DEF SubAt, StartAt
    <3>5. Used(c, u) = 0  BY <3>1, <3>4 DEF Used
    <3> QED BY <1>4, <1>5, <1>b, <3>4, <3>5
  <2>2. CASE BareAt(line, n)
    <3>1. /\ n + 1 \in 1..(b + 1) /\ Taken(line, b, T, 0 + 1, n + 1, <<>>, <<>>)
          /\ line[n].text # <<>> /\ Head(line[n].text) # Empty /\ ~WantsValue(line[n])
      <4>1. 0 \in Nat  OBVIOUS
      <4> QED BY <1>4, <1>5, <2>2, <4>1, TakeWord
    <3>2. c # Empty /\ m = n + 1  BY <1>6, <2>2, <3>1, Zenon DEF CommandAt, SecondAt
    <3>3. CASE ~HasSub(line, n)
      <4>1. u = <<>> /\ s = n + 1  BY <1>6, <3>2, <3>3, Zenon DEF SubAt, StartAt
      <4>2. Used(c, u) = 0 + 1 /\ 0 + 1 \in Nat  BY <3>2, <4>1 DEF Used
      <4>3. Fresh(line, n + 1)
        <5>1. (n + 1) - 1 = n  BY <1>2
        <5> QED BY <3>1, <5>1, Zenon DEF Fresh
      <4> QED BY <3>1, <4>1, <4>2, <4>3
    <3>4. CASE HasSub(line, n)
      <4>1. BareAt(line, n + 1)  BY <1>6, <3>2, <3>4, Zenon DEF HasSub
      <4>2. /\ (n + 1) + 1 \in 1..(b + 1) /\ Taken(line, b, T, 1 + 1, (n + 1) + 1, <<>>, <<>>)
            /\ line[n + 1].text # <<>> /\ ~WantsValue(line[n + 1])
        <5>1. 1 \in Nat /\ 0 + 1 = 1  OBVIOUS
        <5>2. Taken(line, b, T, 1, n + 1, <<>>, <<>>)  BY <3>1, <5>1
        <5> QED BY <3>1, <4>1, <5>1, <5>2, TakeWord
      <4>3. u = line[n + 1].text /\ s = (n + 1) + 1  BY <1>6, <3>2, <3>4, Zenon DEF SubAt, StartAt
      <4>4. Used(c, u) = 1 + 1 /\ 1 + 1 \in Nat  BY <3>2, <4>2, <4>3 DEF Used
      <4>5. Fresh(line, (n + 1) + 1)
        <5>1. ((n + 1) + 1) - 1 = n + 1  BY <1>2
        <5> QED BY <4>2, <5>1, Zenon DEF Fresh
      <4> QED BY <4>2, <4>3, <4>4, <4>5
    <3> QED BY <3>3, <3>4
  <2> QED BY <2>1, <2>2
<1>8. OnlyKnown(<<>>, c)
  <2>1. DOMAIN <<>> = {}  OBVIOUS
  <2> QED BY <2>1 DEF OnlyKnown
<1>9. Turned(line, b, T, k, c, s, "none", <<>>, <<>>)  BY <1>7, <1>8, Zenon DEF Turned
<1> QED BY <1>6, <1>7, <1>9, Zenon

\* What is made of the loop's record changes no more than the request for help and the error.
Closes(f, c, u, h, v, e, o, w) ==
  \E hh, ee : /\ f = LineOf(c, u, hh, v, ee, o, w)
              /\ e # "none" => ee = e
              /\ e = "none" => ee = "none" \/ ee = "unknown command"

LEMMA FinishedCloses ==
  ASSUME NEW c, NEW u, NEW h, NEW v, NEW e, NEW o, NEW w
  PROVE  Closes(Finished(LineOf(c, u, h, v, e, o, w)), c, u, h, v, e, o, w)
<1>1. PICK p : p = LineOf(c, u, h, v, e, o, w)  OBVIOUS
<1>2. PICK none, unknown, yes : none = "none" /\ unknown = "unknown command" /\ yes = TRUE  OBVIOUS
<1>3. p.error = e  BY <1>1, LineParts
<1>4. [p EXCEPT !.help = yes] = LineOf(c, u, yes, v, e, o, w)  BY <1>1 DEF LineOf
<1>5. [p EXCEPT !.error = unknown] = LineOf(c, u, h, v, unknown, o, w)  BY <1>1 DEF LineOf
<1>6. PICK q, r : q = [p EXCEPT !.help = TRUE] /\ r = [p EXCEPT !.error = "unknown command"]  OBVIOUS
<1>7. q = LineOf(c, u, yes, v, e, o, w)
  <2>1. q = [p EXCEPT !.help = yes]  BY <1>2, <1>6
  <2> QED BY <1>4, <2>1, Zenon
<1>8. r = LineOf(c, u, h, v, unknown, o, w)
  <2>1. r = [p EXCEPT !.error = unknown]  BY <1>2, <1>6
  <2> QED BY <1>5, <2>1, Zenon
<1>9. /\ e # "none" => Finished(p) = p
      /\ Finished(p) = p \/ Finished(p) = q \/ Finished(p) = r
  BY <1>3, <1>6, Zenon DEF Finished
<1>10. Closes(p, c, u, h, v, e, o, w)  BY <1>1, Zenon DEF Closes
<1>11. Closes(q, c, u, h, v, e, o, w)  BY <1>7, Zenon DEF Closes
<1>12. e = "none" => Closes(r, c, u, h, v, e, o, w)  BY <1>2, <1>8, Zenon DEF Closes
<1> QED BY <1>1, <1>9, <1>10, <1>11, <1>12, Zenon

CommandNames == {"list", "run", "report", "diagnose", "history", "stats", "serve", "ai", "spec", "db", "version", "help"}

LEMMA CommandsAre == Commands = CommandNames
BY DEF Commands, CommandOptions, CommandNames

LEMMA SubcommandPart ==
  ASSUME NEW c, NEW u, NEW h, NEW v, NEW e, NEW o, NEW w
  PROVE  LineOf(c, u, h, v, e, o, w).subcommand = u
BY DEF LineOf

\* A command runs only with options it knows.
LEMMA RunsKnown ==
  ASSUME NEW c, NEW u, NEW h, NEW v, NEW e, NEW o, NEW w, OnlyKnown(o, c),
         MainDoes(LineOf(c, u, h, v, e, o, w)) \in Commands \ {"help"}
  PROVE  OnlyKnown(o, MainDoes(LineOf(c, u, h, v, e, o, w)))
<1>1. PICK p, d : p = LineOf(c, u, h, v, e, o, w) /\ d = MainDoes(p)  OBVIOUS
<1>2. p.command = c  BY <1>1, LineParts
<1>3. "usageError" \notin Commands /\ d \in Commands /\ d # "help"
  <2>1. "usageError" \notin CommandNames  BY Zenon DEF CommandNames
  <2> QED BY <1>1, <2>1, CommandsAre, Zenon
<1>4. d = c \/ c = Empty  BY <1>1, <1>2, <1>3, Zenon DEF MainDoes, Empty
<1>5. CASE c = Empty
  <2>1. Empty \notin CommandNames  BY Zenon DEF CommandNames, Empty
  <2>2. KnownOptions(c) = {}  BY <1>5, <2>1, CommandsAre, Zenon DEF KnownOptions
  <2>3. DOMAIN o \subseteq GlobalOptions  BY <2>2 DEF OnlyKnown
  <2>4. OnlyKnown(o, d)  BY <2>3 DEF OnlyKnown
  <2> QED BY <1>1, <2>4, Zenon
<1> QED BY <1>1, <1>4, <1>5, Zenon

\* What the loop and the end of Parse() leave.
Outcome(line, b, T, c, u, h, v, e, o, w) ==
  /\ Parse(line) = LineOf(c, u, h, v, e, o, w)
  /\ OnlyKnown(o, c) /\ Used(c, u) \in Nat
  /\ e \in {"none", "unknown command"} => AllTaken(line, b, T, Used(c, u), o, w)

LEMMA OutcomeIs ==
  ASSUME NEW line, NEW T, PlainLine(line, T), NEW before, NEW b, IsBefore(line, before, b)
  PROVE  \E c, u, h, v, e, o, w : Outcome(line, b, T, c, u, h, v, e, o, w)
<1>1. Len(line) \in Nat /\ DOMAIN line = 1..Len(line)  BY DEF PlainLine, PlainArgument
<1>2. PICK n : Begins(line, n)  BY <1>1, FirstExists
<1>3. PICK c, u, h, v, s, k : /\ c = CommandAt(line, n) /\ u = SubAt(line, n) /\ s = StartAt(line, n)
                              /\ h = Asks(line, n, {"-h", "help"}) /\ v = Asks(line, n, {"-V", "version"})
                              /\ k = Used(c, u)
  OBVIOUS
<1>4. s \in 1..(b + 1) /\ k \in Nat /\ Turned(line, b, T, k, c, s, "none", <<>>, <<>>)
  BY <1>2, <1>3, StartCounts
<1>5. PICK hh, vv, ee, oo, ww : /\ ParseFrom(line, s, LineOf(c, u, h, v, "none", <<>>, <<>>)) = LineOf(c, u, hh, vv, ee, oo, ww)
                                /\ Turned(line, b, T, k, c, 0, ee, oo, ww)
  <2>1. PICK o, w : o = <<>> /\ w = <<>>  OBVIOUS
  <2>2. Turned(line, b, T, k, c, s, "none", o, w)  BY <1>4, <2>1, Zenon
  <2>3. Leaves(line, b, T, k, c, u, h, v, s, o, w)  BY <1>4, <2>2, LoopEnds, Zenon
  <2> QED BY <2>1, <2>3, Zenon DEF Leaves
<1>6. Parse(line) = Finished(ParseFrom(line, s, LineOf(c, u, h, v, "none", <<>>, <<>>)))
  <2>1. Parse(line) = Finished(ParseFrom(line, StartAt(line, n),
           LineOf(CommandAt(line, n), SubAt(line, n), Asks(line, n, {"-h", "help"}), Asks(line, n, {"-V", "version"}),
                  "none", <<>>, <<>>)))
    BY <1>1, <1>2, ParseIs
  <2> QED BY <1>3, <2>1, Zenon
<1>7. PICK h2, e2 : /\ Parse(line) = LineOf(c, u, h2, vv, e2, oo, ww)
                    /\ ee # "none" => e2 = ee
                    /\ ee = "none" => e2 = "none" \/ e2 = "unknown command"
  <2>1. Closes(Finished(LineOf(c, u, hh, vv, ee, oo, ww)), c, u, hh, vv, ee, oo, ww)  BY FinishedCloses, Zenon
  <2>2. Parse(line) = Finished(LineOf(c, u, hh, vv, ee, oo, ww))  BY <1>5, <1>6, Zenon
  <2>3. Closes(Parse(line), c, u, hh, vv, ee, oo, ww)  BY <2>1, <2>2, Zenon
  <2> QED BY <2>3, Zenon DEF Closes
<1>8. OnlyKnown(oo, c)  BY <1>5, Zenon DEF Turned
<1>9. ASSUME e2 \in {"none", "unknown command"} PROVE AllTaken(line, b, T, k, oo, ww)
  <2>1. ee \notin Problems  BY <1>7, <1>9, Zenon DEF Problems
  <2>2. 0 \notin 1..(b + 1)  OBVIOUS
  <2> QED BY <1>5, <2>1, <2>2, Zenon DEF Turned
<1>10. Outcome(line, b, T, c, u, h2, vv, e2, oo, ww)  BY <1>3, <1>4, <1>7, <1>8, <1>9, Zenon DEF Outcome
<1> QED BY <1>10, Zenon

\* Every word in front of "--" is used, and beside words only what was taken for a value.
LEMMA WordsUsed ==
  ASSUME NEW line, NEW T, PlainLine(line, T), NEW before, NEW b, IsBefore(line, before, b),
         NEW k \in Nat, NEW o, NEW w, AllTaken(line, b, T, k, o, w)
  PROVE  k + Cardinality(ValuesIn(o, Len(line))) - Cardinality({i \in DOMAIN before : before[i].inline})
           + Len(w) - (Len(line) - Len(before) - (IF Len(before) < Len(line) THEN 1 ELSE 0)) =
         Cardinality({i \in DOMAIN before : before[i].kind = "word"}) + Cardinality(Swallowed(before))
<1>1. PICK l \in Nat : l = Len(line)  BY DEF PlainLine, PlainArgument
<1>2. b \in Nat /\ b \in 0..l /\ Len(before) = b /\ DOMAIN before = 1..b /\ \A i \in 1..b : before[i] = line[i]
  BY <1>1 DEF IsBefore
<1>3. /\ {i \in DOMAIN before : before[i].kind = "word"} = Words(line, b) \cap (1..b)
      /\ {i \in DOMAIN before : before[i].inline} = Inlines(line, b) \cap (1..b)
  BY <1>2 DEF Words, Inlines
<1>a. Swallowed(before) = Eaten(line, b) \cap (1..b)
  <2>1. Swallowed(before) = {i \in 2..b : before[i].kind = "short" /\ WantsValue(before[i - 1])}
    BY <1>2, Zenon DEF Swallowed
  <2>2. \A i : i \in 2..b <=> i \in 1..b /\ i # 1  BY <1>2
  <2>3. \A i \in 2..b : i \in 1..b /\ i - 1 \in 1..b  BY <1>2
  <2>4. \A i \in 2..b : before[i] = line[i] /\ before[i - 1] = line[i - 1]  BY <1>2, <2>3, Zenon
  <2>5. \A i : i \in Swallowed(before) <=> i \in Eaten(line, b) \cap (1..b)
    BY <2>1, <2>2, <2>4, Zenon DEF Eaten, IsEaten
  <2> QED BY <2>5, Zenon
<1>4. PICK W \in Nat, S \in Nat, I \in Nat :
        W = Upto(Words(line, b), b) /\ S = Upto(Eaten(line, b), b) /\ I = Upto(Inlines(line, b), b)
  <2>1. \A X : Upto(X, b) \in Nat  BY <1>2, UptoSteps
  <2> QED BY <2>1
<1>5. /\ Cardinality({i \in DOMAIN before : before[i].kind = "word"}) = W
      /\ Cardinality(Swallowed(before)) = S
      /\ Cardinality({i \in DOMAIN before : before[i].inline}) = I
  BY <1>3, <1>4, <1>a, Zenon DEF Upto
<1>6. k + Cardinality(ValuesIn(o, l)) + Len(w) = W + I + Behind(line, b) + S
  BY <1>1, <1>4, Zenon DEF AllTaken
<1>7. PICK x \in Nat, p \in Nat : x = Cardinality(ValuesIn(o, l)) /\ p = Len(w)
  <2>1. w \in Seq(T) /\ Lists(o, T, l)  BY <1>1, Zenon DEF AllTaken
  <2>2. Cardinality(ValuesIn(o, l)) \in Nat  BY <2>1, ValuesFinite, Zenon
  <2> QED BY <2>1, <2>2
<1>8. PICK d \in Int : d = Behind(line, b) /\ d = Len(line) - Len(before) - (IF Len(before) < Len(line) THEN 1 ELSE 0)
  <2>1. Behind(line, b) \in Int  BY <1>1, <1>2 DEF Behind
  <2>2. Behind(line, b) = Len(line) - Len(before) - (IF Len(before) < Len(line) THEN 1 ELSE 0)
    BY <1>1, <1>2 DEF Behind
  <2> QED BY <2>1, <2>2
<1>9. k + x + p = W + I + d + S  BY <1>6, <1>7, <1>8
<1>10. k + x - I + p - d = W + S  BY <1>9
<1> QED BY <1>1, <1>5, <1>7, <1>8, <1>10

\* Line B is line A with the i-th option and its value in one argument.
Joined(A, B, i) ==
  /\ Len(A) \in Nat /\ DOMAIN A = 1..Len(A) /\ i \in 1..(Len(A) - 1)
  /\ Len(B) = Len(A) - 1 /\ DOMAIN B = 1..(Len(A) - 1)
  /\ \A j \in 1..(i - 1) : B[j] = A[j]
  /\ B[i] = LongWith(A[i].name, A[i + 1].text)
  /\ \A j \in (i + 1)..(Len(A) - 1) : B[j] = A[j + 1]

\* The i-th argument is an option that takes the word behind it.
TakesWord(A, i) ==
  /\ A[i].kind = "long" /\ ~A[i].inline /\ A[i].name \notin FlagOptions \cup {"-h", "-V"}
  /\ A[i + 1].kind = "word" /\ \A j \in 1..i : A[j].kind # "dashdash"

LEMMA InlinedJoins ==
  ASSUME NEW S, NEW A \in Seq(S), NEW i \in 1..(Len(A) - 1)
  PROVE  Joined(A, Inlined(A, i), i)
<1>1. PICK l \in Nat : l = Len(A) /\ i + 1 \in 1..l /\ DOMAIN A = 1..l /\ \A j \in 1..l : A[j] \in S
  OBVIOUS
<1>2. PICK x : x = LongWith(A[i].name, A[i + 1].text)  OBVIOUS
<1>3. PICK front, back : front = SubSeq(A, 1, i - 1) /\ back = SubSeq(A, i + 2, l)  OBVIOUS
<1>4. front \in Seq(S) /\ Len(front) = i - 1 /\ \A j \in 1..(i - 1) : front[j] = A[j]  BY <1>1, <1>3
<1>5. back \in Seq(S) /\ Len(back) = l - (i + 1) /\ \A j \in 1..(l - (i + 1)) : back[j] = A[(i + 1) + j]  BY <1>1, <1>3
<1>6. PICK B : B = Inlined(A, i)  OBVIOUS
<1>7. B = front \o <<x>> \o back  BY <1>1, <1>2, <1>3, <1>6, Zenon DEF Inlined
<1>8. PICK head : head = front \o <<x>>  OBVIOUS
<1>9. PICK X : X = S \cup {x}  OBVIOUS
<1>10. front \in Seq(X) /\ back \in Seq(X) /\ x \in X
  <2>1. S \subseteq X /\ x \in X  BY <1>9
  <2> QED BY <1>4, <1>5, <2>1
<1>11. head \in Seq(X) /\ Len(head) = i /\ head[i] = x /\ \A j \in 1..(i - 1) : head[j] = A[j]  BY <1>4, <1>8, <1>10
<1>12. B = head \o back  BY <1>7, <1>8, Zenon
<1>13. Len(B) = l - 1 /\ DOMAIN B = 1..(l - 1)
  <2>a. head \in Seq(X) /\ back \in Seq(X)  BY <1>10, <1>11
  <2>1. B \in Seq(X) /\ Len(B) = Len(head) + Len(back)  BY <1>12, <2>a
  <2>2. Len(B) = l - 1  BY <1>1, <1>5, <1>11, <2>1
  <2> QED BY <2>1, <2>2
<1>14. \A j \in 1..i : B[j] = head[j]  BY <1>1, <1>5, <1>10, <1>11, <1>12
<1>15. \A j \in (i + 1)..(l - 1) : B[j] = A[j + 1]
  <2> TAKE j \in (i + 1)..(l - 1)
  <2>1. PICK d \in Nat : j = i + d /\ d \in 1..(l - (i + 1))  BY <1>1
  <2>2. B[j] = back[d]  BY <1>1, <1>5, <1>10, <1>11, <1>12, <2>1
  <2>3. (i + 1) + d = j + 1  BY <2>1
  <2> QED BY <1>5, <2>1, <2>2, <2>3
<1>16. B[i] = x /\ \A j \in 1..(i - 1) : B[j] = A[j]  BY <1>1, <1>11, <1>14
<1>17. Joined(A, B, i)  BY <1>1, <1>2, <1>13, <1>15, <1>16 DEF Joined
<1> QED BY <1>6, <1>17

\* The two lines begin alike.
LEMMA JoinedBegins ==
  ASSUME NEW A, NEW B, NEW i, Joined(A, B, i), TakesWord(A, i), NEW n, Begins(A, n)
  PROVE  n \in 1..i /\ Begins(B, n)
<1>1. PICK l \in Nat : l = Len(A) /\ i \in 1..(l - 1) /\ DOMAIN A = 1..l /\ Len(B) = l - 1 /\ DOMAIN B = 1..(l - 1)
  BY DEF Joined
<1>2. n \in 1..(l + 1) /\ (\A j \in 1..(n - 1) : Leads(A[j])) /\ (n \in DOMAIN A => ~Leads(A[n]))
  BY <1>1, Zenon DEF Begins
<1>3. ~Leads(A[i]) /\ ~Leads(B[i])
  <2>1. "help" \in FlagOptions /\ "version" \in FlagOptions  BY Zenon DEF FlagOptions
  <2>2. ~Leads(A[i])  BY <2>1, Zenon DEF TakesWord, Leads
  <2>3. PICK x, t : B[i] = LongWith(x, t)  BY Zenon DEF Joined
  <2>4. LongWith(x, t).inline  BY DEF LongWith
  <2> QED BY <2>2, <2>3, <2>4, Zenon DEF Leads
<1>4. n \in 1..i  BY <1>1, <1>2, <1>3
<1>5. \A j \in 1..(i - 1) : B[j] = A[j]  BY DEF Joined
<1>6. \A j \in 1..(n - 1) : Leads(B[j])  BY <1>1, <1>2, <1>4, <1>5
<1>7. ~Leads(B[n])  BY <1>1, <1>2, <1>3, <1>4, <1>5
<1>8. n \in 1..(Len(B) + 1)  BY <1>1, <1>4
<1>9. Begins(B, n)  BY <1>6, <1>7, <1>8, Zenon DEF Begins
<1> QED BY <1>4, <1>9

\* What the parser starts with is the same.
StartsAlike(A, B, n, i) ==
  /\ CommandAt(A, n) = CommandAt(B, n) /\ SubAt(A, n) = SubAt(B, n) /\ StartAt(A, n) = StartAt(B, n)
  /\ StartAt(A, n) \in 1..i
  /\ \A names : Asks(A, n, names) = Asks(B, n, names)

LEMMA JoinedStarts ==
  ASSUME NEW A, NEW B, NEW i, Joined(A, B, i), TakesWord(A, i), NEW n \in 1..i
  PROVE  StartsAlike(A, B, n, i)
<1>1. PICK l \in Nat : l = Len(A) /\ i \in 1..(l - 1) /\ DOMAIN A = 1..l /\ DOMAIN B = 1..(l - 1)
  BY DEF Joined
<1>2. \A j \in 1..(i - 1) : B[j] = A[j] /\ j \in DOMAIN A /\ j \in DOMAIN B  BY <1>1 DEF Joined
<1>3. ~BareAt(A, i) /\ ~BareAt(B, i)
  <2>1. IsDashed(A[i])  BY Zenon DEF TakesWord, IsDashed
  <2>2. PICK x, t : B[i] = LongWith(x, t)  BY Zenon DEF Joined
  <2>3. LongWith(x, t).kind = "long"  BY DEF LongWith
  <2>4. IsDashed(B[i])  BY <2>2, <2>3, Zenon DEF IsDashed
  <2> QED BY <2>1, <2>4, Zenon DEF BareAt
<1>4. ASSUME NEW m \in 1..i
      PROVE  (BareAt(A, m) <=> BareAt(B, m)) /\ (BareAt(A, m) => m + 1 \in 1..i /\ A[m] = B[m])
  <2>1. CASE m = i  BY <1>3, <2>1
  <2>2. CASE m # i
    <3>1. m \in 1..(i - 1) /\ m + 1 \in 1..i  BY <1>1, <2>2
    <3> QED BY <1>2, <3>1, Zenon DEF BareAt
  <2> QED BY <2>1, <2>2
<1>5. PICK c, m : c = CommandAt(A, n) /\ m = SecondAt(A, n)  OBVIOUS
<1>6. CommandAt(B, n) = c /\ SecondAt(B, n) = m  BY <1>4, <1>5, Zenon DEF CommandAt, SecondAt
<1>7. m \in 1..i  BY <1>4, <1>5, Zenon DEF SecondAt
<1>8. HasSub(A, n) <=> HasSub(B, n)  BY <1>4, <1>5, <1>6, <1>7, Zenon DEF HasSub
<1>9. HasSub(A, n) => m + 1 \in 1..i /\ A[m] = B[m]  BY <1>4, <1>5, <1>7, Zenon DEF HasSub
<1>10. SubAt(A, n) = SubAt(B, n)  BY <1>5, <1>6, <1>8, <1>9, Zenon DEF SubAt
<1>11. StartAt(A, n) = StartAt(B, n) /\ StartAt(A, n) \in 1..i  BY <1>5, <1>6, <1>7, <1>8, <1>9, Zenon DEF StartAt
<1>12. {A[j].name : j \in 1..(n - 1)} = {B[j].name : j \in 1..(n - 1)}
  <2>1. \A j \in 1..(n - 1) : j \in 1..(i - 1)  BY <1>1
  <2>2. \A j \in 1..(n - 1) : A[j].name = B[j].name  BY <1>2, <2>1
  <2> QED BY <2>2
<1>13. \A names : Asks(A, n, names) = Asks(B, n, names)  BY <1>12, Zenon DEF Asks
<1> QED BY <1>5, <1>6, <1>10, <1>11, <1>13, Zenon DEF StartsAlike

\* What the text behind an argument is, and the texts of all that follow.
RestOf(A, i) == [n \in 1..(Len(A) - i) |-> A[i + n].text]

\* One turn of the loop at an argument.
TurnAt(A, argument, rest, i, p) ==
  IF i \notin DOMAIN A THEN StepOf(0, p)
  ELSE IF argument.kind = "dashdash" THEN StepOf(0, [p EXCEPT !.positionals = @ \o rest])
  ELSE IF argument.kind = "word" THEN StepOf(i + 1, [p EXCEPT !.positionals = Append(@, argument.text)])
  ELSE IF argument.name \in {"-h", "help"} THEN StepOf(i + 1, [p EXCEPT !.help = TRUE])
  ELSE IF argument.name \in {"-V", "version"} THEN StepOf(i + 1, [p EXCEPT !.version = TRUE])
  ELSE IF argument.kind = "short" THEN StepOf(0, [p EXCEPT !.error = "short option"])
  ELSE IF argument.name \notin KnownOptions(p.command) \cup GlobalOptions
    THEN StepOf(0, [p EXCEPT !.error = "unknown option"])
  ELSE IF argument.inline THEN StepOf(i + 1, Given(p, argument.name, <<argument.text>>))
  ELSE IF argument.name \in FlagOptions THEN StepOf(i + 1, Given(p, argument.name, <<>>))
  ELSE IF ~TakesValue(A, i) THEN StepOf(0, [p EXCEPT !.error = "value missing"])
  ELSE StepOf(i + 2, Given(p, argument.name, <<A[i + 1].text>>))

LEMMA TurnIs ==
  ASSUME NEW A, NEW i, NEW p PROVE ParseNext(A, StepOf(i, p)) = TurnAt(A, A[i], RestOf(A, i), i, p)
<1>1. PICK at : at = StepOf(i, p)  OBVIOUS
<1>2. at.i = i /\ at.parsed = p  BY <1>1, StepParts
<1>3. ParseNext(A, at) = RawTurn(A, at.i, at.parsed)  BY DEF ParseNext, RawTurn
<1>4. ParseNext(A, at) = RawTurn(A, i, p)  BY <1>2, <1>3, Zenon
<1>5. ParseNext(A, StepOf(i, p)) = RawTurn(A, i, p)  BY <1>1, <1>4, Zenon
<1>6. RawTurn(A, i, p) = TurnAt(A, A[i], RestOf(A, i), i, p)  BY Zenon DEF RawTurn, TurnAt, StepOf, RestOf
<1> QED BY <1>5, <1>6, Zenon

\* Turns at an argument of either line with the same effect.
Alike(A, x, B, y, p) ==
  \/ \E q : ParseNext(A, StepOf(x, p)) = StepOf(0, q) /\ ParseNext(B, StepOf(y, p)) = StepOf(0, q)
  \/ \E q : ParseNext(A, StepOf(x, p)) = StepOf(x + 1, q) /\ ParseNext(B, StepOf(y, p)) = StepOf(y + 1, q)
  \/ /\ TakesValue(A, x)
     /\ \E q : ParseNext(A, StepOf(x, p)) = StepOf(x + 2, q) /\ ParseNext(B, StepOf(y, p)) = StepOf(y + 2, q)

LEMMA TurnsAlike ==
  ASSUME NEW A, NEW x, NEW B, NEW y, NEW p, x \in DOMAIN A, y \in DOMAIN B, A[x] = B[y],
         A[x].kind = "dashdash" => RestOf(A, x) = RestOf(B, y),
         TakesValue(A, x) <=> TakesValue(B, y),
         TakesValue(A, x) => A[x + 1].text = B[y + 1].text
  PROVE  Alike(A, x, B, y, p)
<1>0. PICK a, rest, behind : a = A[x] /\ a = B[y] /\ rest = RestOf(A, x) /\ behind = RestOf(B, y)  OBVIOUS
<1> DEFINE known == KnownOptions(p.command) \cup GlobalOptions
           turn == ParseNext(A, StepOf(x, p))
           other == ParseNext(B, StepOf(y, p))
           K2 == a.kind = "dashdash"
           K3 == a.kind = "word"
           K4 == a.name \in {"-h", "help"}
           K5 == a.name \in {"-V", "version"}
           K6 == a.kind = "short"
           K7 == a.name \notin known
           K8 == a.inline
           K9 == a.name \in FlagOptions
           K10 == ~TakesValue(A, x)
           G(more) == [p EXCEPT !.positionals = @ \o more]
           F2 == G(rest)
           F3 == [p EXCEPT !.positionals = Append(@, a.text)]
           F4 == [p EXCEPT !.help = TRUE]
           F5 == [p EXCEPT !.version = TRUE]
           F6 == [p EXCEPT !.error = "short option"]
           F7 == [p EXCEPT !.error = "unknown option"]
           F8 == Given(p, a.name, <<a.text>>)
           F9 == Given(p, a.name, <<>>)
           F10 == [p EXCEPT !.error = "value missing"]
           F11 == Given(p, a.name, <<A[x + 1].text>>)
           M(step, i) == step =
             IF K2 THEN StepOf(0, F2) ELSE IF K3 THEN StepOf(i + 1, F3)
             ELSE IF K4 THEN StepOf(i + 1, F4) ELSE IF K5 THEN StepOf(i + 1, F5)
             ELSE IF K6 THEN StepOf(0, F6) ELSE IF K7 THEN StepOf(0, F7)
             ELSE IF K8 THEN StepOf(i + 1, F8) ELSE IF K9 THEN StepOf(i + 1, F9)
             ELSE IF K10 THEN StepOf(0, F10) ELSE StepOf(i + 2, F11)
<1>1. M(turn, x)
  <2>1. turn = TurnAt(A, a, rest, x, p)  BY <1>0, TurnIs, Zenon
  <2>2. x \in DOMAIN A  OBVIOUS
  <2> QED BY <2>1, <2>2, Zenon DEF TurnAt
<1>2. M(other, y)
  <2>0. other = TurnAt(B, a, behind, y, p)  BY <1>0, TurnIs, Zenon
  <2>1. other =
           IF K2 THEN StepOf(0, G(behind))
           ELSE IF K3 THEN StepOf(y + 1, F3)
           ELSE IF K4 THEN StepOf(y + 1, F4)
           ELSE IF K5 THEN StepOf(y + 1, F5)
           ELSE IF K6 THEN StepOf(0, F6)
           ELSE IF K7 THEN StepOf(0, F7)
           ELSE IF K8 THEN StepOf(y + 1, F8)
           ELSE IF K9 THEN StepOf(y + 1, F9)
           ELSE IF ~TakesValue(B, y) THEN StepOf(0, F10)
           ELSE StepOf(y + 2, Given(p, a.name, <<B[y + 1].text>>))
    <3>1. y \in DOMAIN B  OBVIOUS
    <3> QED BY <2>0, <3>1, Zenon DEF TurnAt
  <2>2. CASE K2
    <3>1. rest = behind  BY <1>0, <2>2
    <3> HIDE DEF G, K2
    <3>2. other = StepOf(0, F2)  BY <2>1, <2>2, <3>1, Zenon
    <3> QED BY <2>2, <3>2, Zenon
  <2>3. CASE ~K2 /\ TakesValue(A, x)
    <3>1. Given(p, a.name, <<B[y + 1].text>>) = F11  BY <2>3, Zenon
    <3> HIDE DEF F2, F3, F4, F5, F6, F7, F8, F9, F10, F11, K2, K3, K4, K5, K6, K7, K8, K9
    <3> QED BY <2>1, <2>3, <3>1, Zenon
  <2>4. CASE ~K2 /\ ~TakesValue(A, x)
    <3> HIDE DEF F2, F3, F4, F5, F6, F7, F8, F9, F10, F11, K2, K3, K4, K5, K6, K7, K8, K9
    <3> QED BY <2>1, <2>4, Zenon
  <2> QED BY <2>2, <2>3, <2>4, Zenon
<1>3. ~K10 <=> TakesValue(A, x)  OBVIOUS
<1> HIDE DEF F2, F3, F4, F5, F6, F7, F8, F9, F10, F11, K2, K3, K4, K5, K6, K7, K8, K9, K10, turn, other
<1>4. \/ \E q : turn = StepOf(0, q) /\ other = StepOf(0, q)
      \/ \E q : turn = StepOf(x + 1, q) /\ other = StepOf(y + 1, q)
      \/ ~K10 /\ \E q : turn = StepOf(x + 2, q) /\ other = StepOf(y + 2, q)
  <2>1. CASE K2  BY <1>1, <1>2, <2>1, Zenon
  <2>2. CASE ~K2 /\ K3  BY <1>1, <1>2, <2>2, Zenon
  <2>3. CASE ~K2 /\ ~K3 /\ K4  BY <1>1, <1>2, <2>3, Zenon
  <2>4. CASE ~K2 /\ ~K3 /\ ~K4 /\ K5  BY <1>1, <1>2, <2>4, Zenon
  <2>5. CASE ~K2 /\ ~K3 /\ ~K4 /\ ~K5 /\ K6  BY <1>1, <1>2, <2>5, Zenon
  <2>6. CASE ~K2 /\ ~K3 /\ ~K4 /\ ~K5 /\ ~K6 /\ K7  BY <1>1, <1>2, <2>6, Zenon
  <2>7. CASE ~K2 /\ ~K3 /\ ~K4 /\ ~K5 /\ ~K6 /\ ~K7 /\ K8  BY <1>1, <1>2, <2>7, Zenon
  <2>8. CASE ~K2 /\ ~K3 /\ ~K4 /\ ~K5 /\ ~K6 /\ ~K7 /\ ~K8 /\ K9  BY <1>1, <1>2, <2>8, Zenon
  <2>9. CASE ~K2 /\ ~K3 /\ ~K4 /\ ~K5 /\ ~K6 /\ ~K7 /\ ~K8 /\ ~K9 /\ K10  BY <1>1, <1>2, <2>9, Zenon
  <2>10. CASE ~K2 /\ ~K3 /\ ~K4 /\ ~K5 /\ ~K6 /\ ~K7 /\ ~K8 /\ ~K9 /\ ~K10  BY <1>1, <1>2, <2>10, Zenon
  <2> QED BY <2>1, <2>2, <2>3, <2>4, <2>5, <2>6, <2>7, <2>8, <2>9, <2>10, Zenon
<1> QED BY <1>3, <1>4, Zenon DEF Alike, turn, other

\* The option itself: both lines give it the same value, or do not know it.
OptionAlike(A, B, i, p) ==
  \/ \E q : ParseNext(A, StepOf(i, p)) = StepOf(0, q) /\ ParseNext(B, StepOf(i, p)) = StepOf(0, q)
  \/ \E q : ParseNext(A, StepOf(i, p)) = StepOf(i + 2, q) /\ ParseNext(B, StepOf(i, p)) = StepOf(i + 1, q)

LEMMA OptionTurn ==
  ASSUME NEW A, NEW B, NEW i, Joined(A, B, i), TakesWord(A, i), NEW p
  PROVE  OptionAlike(A, B, i, p)
<1>1. PICK l \in Nat : l = Len(A) /\ i \in 1..(l - 1) /\ DOMAIN A = 1..l /\ DOMAIN B = 1..(l - 1)
  BY DEF Joined
<1>2. i \in DOMAIN A /\ i \in DOMAIN B /\ i < Len(A)  BY <1>1
<1>3. PICK name, text : name = A[i].name /\ text = A[i + 1].text  OBVIOUS
<1>4. PICK a, b : a = A[i] /\ b = B[i]  OBVIOUS
<1>5. b.kind = "long" /\ b.name = name /\ b.text = text /\ b.inline
  <2>1. b = LongWith(name, text)  BY <1>3, <1>4, Zenon DEF Joined
  <2>2. /\ LongWith(name, text).kind = "long" /\ LongWith(name, text).name = name
        /\ LongWith(name, text).text = text /\ LongWith(name, text).inline
    BY DEF LongWith
  <2> QED BY <2>1, <2>2, Zenon
<1>6. a.kind = "long" /\ a.name = name /\ ~a.inline /\ name \notin FlagOptions \cup {"-h", "-V"}
  BY <1>3, <1>4, Zenon DEF TakesWord
<1>7. name \notin FlagOptions /\ name \notin {"-h", "help"} /\ name \notin {"-V", "version"}
  <2>1. "help" \in FlagOptions /\ "version" \in FlagOptions  BY Zenon DEF FlagOptions
  <2> QED BY <1>6, <2>1, Zenon
<1>8. TakesValue(A, i)  BY <1>2, Zenon DEF TakesValue, TakesWord
<1>9. ParseNext(A, StepOf(i, p)) = TurnAt(A, a, RestOf(A, i), i, p)
  BY <1>4, TurnIs, Zenon
<1>10. ParseNext(B, StepOf(i, p)) = TurnAt(B, b, RestOf(B, i), i, p)
  BY <1>4, TurnIs, Zenon
<1>11. PICK known : known = KnownOptions(p.command) \cup GlobalOptions  OBVIOUS
<1>12. CASE name \notin known
  <2>1. PICK q : q = [p EXCEPT !.error = "unknown option"]  OBVIOUS
  <2>2. TurnAt(A, a, RestOf(A, i), i, p) = StepOf(0, q)
    BY <1>2, <1>6, <1>7, <1>11, <1>12, <2>1, Zenon DEF TurnAt
  <2>3. TurnAt(B, b, RestOf(B, i), i, p) = StepOf(0, q)
    BY <1>2, <1>5, <1>7, <1>11, <1>12, <2>1, Zenon DEF TurnAt
  <2> QED BY <1>9, <1>10, <2>2, <2>3, Zenon DEF OptionAlike
<1>13. CASE name \in known
  <2>1. PICK q : q = Given(p, name, <<text>>)  OBVIOUS
  <2>2. TurnAt(A, a, RestOf(A, i), i, p) = StepOf(i + 2, q)
    <3>1. TurnAt(A, a, RestOf(A, i), i, p) = StepOf(i + 2, Given(p, a.name, <<A[i + 1].text>>))
      BY <1>2, <1>6, <1>7, <1>8, <1>11, <1>13, Zenon DEF TurnAt
    <3>2. Given(p, a.name, <<A[i + 1].text>>) = q  BY <1>3, <1>6, <2>1, Zenon
    <3> QED BY <3>1, <3>2, Zenon
  <2>3. TurnAt(B, b, RestOf(B, i), i, p) = StepOf(i + 1, q)
    <3>1. TurnAt(B, b, RestOf(B, i), i, p) = StepOf(i + 1, Given(p, b.name, <<b.text>>))
      BY <1>2, <1>5, <1>7, <1>11, <1>13, Zenon DEF TurnAt
    <3>2. Given(p, b.name, <<b.text>>) = q  BY <1>5, <2>1, Zenon
    <3> QED BY <3>1, <3>2, Zenon
  <2> QED BY <1>9, <1>10, <2>2, <2>3, Zenon DEF OptionAlike
<1> QED BY <1>12, <1>13

\* The arguments in front of the option.
LEMMA FrontTurn ==
  ASSUME NEW A, NEW B, NEW i, Joined(A, B, i), TakesWord(A, i), NEW p, NEW x \in 1..(i - 1)
  PROVE  Alike(A, x, B, x, p) /\ (TakesValue(A, x) => x + 2 \in 1..i)
<1>1. PICK l \in Nat : l = Len(A) /\ i \in 1..(l - 1) /\ DOMAIN A = 1..l /\ DOMAIN B = 1..(l - 1) /\ Len(B) = l - 1
  BY DEF Joined
<1>2. x \in DOMAIN A /\ x \in DOMAIN B /\ x < Len(A) /\ x < Len(B) /\ x \in 1..i  BY <1>1
<1>3. A[x] = B[x] /\ A[x].kind # "dashdash"  BY <1>2 DEF Joined, TakesWord
<1>4. CASE x = i - 1
  <2>1. x + 1 = i  BY <1>1, <1>4
  <2>2. A[i].kind = "long"  BY Zenon DEF TakesWord
  <2>3. B[i].kind = "long"
    <3>1. PICK name, text : B[i] = LongWith(name, text)  BY Zenon DEF Joined
    <3>2. LongWith(name, text).kind = "long"  BY DEF LongWith
    <3> QED BY <3>1, <3>2, Zenon
  <2>4. ~TakesValue(A, x) /\ ~TakesValue(B, x)  BY <2>1, <2>2, <2>3, Zenon DEF TakesValue
  <2> QED BY <1>2, <1>3, <2>4, TurnsAlike, Zenon
<1>5. CASE x # i - 1
  <2>1. x + 1 \in 1..(i - 1) /\ x + 2 \in 1..i  BY <1>1, <1>5
  <2>2. A[x + 1] = B[x + 1]  BY <2>1 DEF Joined
  <2>3. TakesValue(A, x) <=> TakesValue(B, x)  BY <1>2, <2>2, Zenon DEF TakesValue
  <2>4. A[x + 1].text = B[x + 1].text  BY <2>2, Zenon
  <2> QED BY <1>2, <1>3, <2>1, <2>3, <2>4, TurnsAlike, Zenon
<1> QED BY <1>4, <1>5

\* The arguments behind its value.
LEMMA BackTurn ==
  ASSUME NEW A, NEW B, NEW i, Joined(A, B, i), NEW p, NEW x \in Nat, NEW y \in Nat, x = y + 1,
         x >= i + 2, x <= Len(A)
  PROVE  Alike(A, x, B, y, p)
<1>1. PICK l \in Nat : l = Len(A) /\ i \in 1..(l - 1) /\ DOMAIN A = 1..l /\ DOMAIN B = 1..(l - 1) /\ Len(B) = l - 1
  BY DEF Joined
<1>2. x \in DOMAIN A /\ y \in DOMAIN B /\ y \in (i + 1)..(l - 1)  BY <1>1
<1>3. \A j \in (i + 1)..(l - 1) : B[j] = A[j + 1]  BY <1>1 DEF Joined
<1>4. A[x] = B[y]  BY <1>2, <1>3
<1>5. RestOf(A, x) = RestOf(B, y)
  <2>1. Len(A) - x = Len(B) - y  BY <1>1
  <2>2. \A n \in 1..(Len(A) - x) : A[x + n].text = B[y + n].text
    <3> TAKE n \in 1..(Len(A) - x)
    <3>1. y + n \in (i + 1)..(l - 1) /\ (y + n) + 1 = x + n  BY <1>1, <1>2
    <3>2. B[y + n] = A[(y + n) + 1]  BY <1>3, <3>1
    <3> QED BY <3>1, <3>2
  <2> QED BY <2>1, <2>2 DEF RestOf
<1>6. (x < Len(A) <=> y < Len(B)) /\ (x < Len(A) => B[y + 1] = A[x + 1])
  <2>1. x < Len(A) <=> y < Len(B)  BY <1>1
  <2>2. ASSUME x < Len(A) PROVE B[y + 1] = A[x + 1]
    <3>1. y + 1 \in (i + 1)..(l - 1) /\ (y + 1) + 1 = x + 1  BY <1>1, <1>2, <2>2
    <3> QED BY <1>3, <3>1
  <2> QED BY <2>1, <2>2
<1>7. TakesValue(A, x) <=> TakesValue(B, y)  BY <1>6, Zenon DEF TakesValue
<1>8. TakesValue(A, x) => A[x + 1].text = B[y + 1].text  BY <1>6, Zenon DEF TakesValue
<1> QED BY <1>2, <1>4, <1>5, <1>7, <1>8, TurnsAlike, Zenon

\* Where the two loops are: at the same argument.
Level(x, y, i) ==
  \/ x = 0 /\ y = 0
  \/ x = y /\ x \in 1..i
  \/ x \in Nat /\ y \in Nat /\ x = y + 1 /\ x >= i + 2

InStep(A, x, B, y, p, i, xx, yy, q) ==
  /\ ParseNext(A, StepOf(x, p)) = StepOf(xx, q) /\ ParseNext(B, StepOf(y, p)) = StepOf(yy, q)
  /\ Level(xx, yy, i) /\ (xx = 0 \/ (xx \in Nat /\ xx >= x + 1))

LEMMA OutsideTurn ==
  ASSUME NEW A, NEW x, NEW p, x \notin DOMAIN A PROVE ParseNext(A, StepOf(x, p)) = StepOf(0, p)
<1>1. ParseNext(A, StepOf(x, p)) = TurnAt(A, A[x], RestOf(A, x), x, p)  BY TurnIs, Zenon
<1> QED BY <1>1, Zenon DEF TurnAt

LEMMA LevelTurn ==
  ASSUME NEW A, NEW B, NEW i, Joined(A, B, i), TakesWord(A, i), NEW p, NEW x, NEW y, Level(x, y, i)
  PROVE  \E xx, yy, q : InStep(A, x, B, y, p, i, xx, yy, q)
<1>1. PICK l \in Nat : l = Len(A) /\ i \in 1..(l - 1) /\ DOMAIN A = 1..l /\ DOMAIN B = 1..(l - 1)
  BY DEF Joined
<1>2. Level(0, 0, i)  BY Zenon DEF Level
<1>3. CASE x \notin DOMAIN A
  <2>1. y \notin DOMAIN B  BY <1>1, <1>3 DEF Level
  <2>2. InStep(A, x, B, y, p, i, 0, 0, p)  BY <1>2, <1>3, <2>1, OutsideTurn, Zenon DEF InStep
  <2> QED BY <2>2, Zenon
<1>4. CASE x = i /\ y = i
  <2>1. CASE \E q : ParseNext(A, StepOf(i, p)) = StepOf(0, q) /\ ParseNext(B, StepOf(i, p)) = StepOf(0, q)
    <3>1. PICK q : InStep(A, x, B, y, p, i, 0, 0, q)  BY <1>2, <1>4, <2>1, Zenon DEF InStep
    <3> QED BY <3>1, Zenon
  <2>2. CASE \E q : ParseNext(A, StepOf(i, p)) = StepOf(i + 2, q) /\ ParseNext(B, StepOf(i, p)) = StepOf(i + 1, q)
    <3>1. Level(i + 2, i + 1, i)  BY <1>1 DEF Level
    <3>2. i + 2 \in Nat /\ i + 2 >= x + 1  BY <1>1, <1>4
    <3>3. PICK q : InStep(A, x, B, y, p, i, i + 2, i + 1, q)  BY <1>4, <2>2, <3>1, <3>2, Zenon DEF InStep
    <3> QED BY <3>3, Zenon
  <2>3. OptionAlike(A, B, i, p)  BY OptionTurn, Zenon
  <2> QED BY <2>1, <2>2, <2>3, Zenon DEF OptionAlike
<1>5. ASSUME Alike(A, x, B, y, p), x \in Nat, Level(x + 1, y + 1, i), TakesValue(A, x) => Level(x + 2, y + 2, i)
      PROVE  \E xx, yy, q : InStep(A, x, B, y, p, i, xx, yy, q)
  <2>1. x + 1 \in Nat /\ x + 2 \in Nat /\ x + 1 >= x + 1 /\ x + 2 >= x + 1  BY <1>5
  <2>2. CASE \E q : ParseNext(A, StepOf(x, p)) = StepOf(0, q) /\ ParseNext(B, StepOf(y, p)) = StepOf(0, q)
    <3>1. PICK q : InStep(A, x, B, y, p, i, 0, 0, q)  BY <1>2, <2>2, Zenon DEF InStep
    <3> QED BY <3>1, Zenon
  <2>3. CASE \E q : ParseNext(A, StepOf(x, p)) = StepOf(x + 1, q) /\ ParseNext(B, StepOf(y, p)) = StepOf(y + 1, q)
    <3>1. PICK q : InStep(A, x, B, y, p, i, x + 1, y + 1, q)  BY <1>5, <2>1, <2>3, Zenon DEF InStep
    <3> QED BY <3>1, Zenon
  <2>4. CASE /\ TakesValue(A, x)
             /\ \E q : ParseNext(A, StepOf(x, p)) = StepOf(x + 2, q) /\ ParseNext(B, StepOf(y, p)) = StepOf(y + 2, q)
    <3>1. PICK q : InStep(A, x, B, y, p, i, x + 2, y + 2, q)  BY <1>5, <2>1, <2>4, Zenon DEF InStep
    <3> QED BY <3>1, Zenon
  <2> QED BY <1>5, <2>2, <2>3, <2>4, Zenon DEF Alike
<1>6. CASE x \in 1..(i - 1) /\ x = y
  <2>1. Alike(A, x, B, x, p) /\ (TakesValue(A, x) => x + 2 \in 1..i)  BY <1>6, FrontTurn, Zenon
  <2>2. x \in Nat /\ Level(x + 1, y + 1, i)  BY <1>1, <1>6 DEF Level
  <2>3. TakesValue(A, x) => Level(x + 2, y + 2, i)  BY <1>6, <2>1, Zenon DEF Level
  <2> QED BY <1>5, <1>6, <2>1, <2>2, <2>3, Zenon
<1>7. CASE x \in DOMAIN A /\ x \in Nat /\ y \in Nat /\ x = y + 1 /\ x >= i + 2
  <2>1. Alike(A, x, B, y, p)
    <3>1. x <= Len(A)  BY <1>1, <1>7
    <3> QED BY <1>7, <3>1, BackTurn
  <2>2. Level(x + 1, y + 1, i) /\ Level(x + 2, y + 2, i)  BY <1>1, <1>7 DEF Level
  <2> QED BY <1>5, <1>7, <2>1, <2>2, Zenon
<1> QED
  <2>1. x \in DOMAIN A => \/ x = i /\ y = i
                          \/ x \in 1..(i - 1) /\ x = y
                          \/ x \in DOMAIN A /\ x \in Nat /\ y \in Nat /\ x = y + 1 /\ x >= i + 2
    BY <1>1 DEF Level
  <2> QED BY <1>3, <1>4, <1>6, <1>7, <2>1, Zenon

\* From the same start both loops leave the same record.
LEMMA LoopsAlike ==
  ASSUME NEW A, NEW B, NEW i, Joined(A, B, i), TakesWord(A, i), NEW p, NEW start \in 1..i
  PROVE  ParseFrom(A, start, p) = ParseFrom(B, start, p)
<1>a. PICK l \in Nat : l = Len(A) /\ i \in 1..(l - 1) /\ DOMAIN A = 1..l /\ Len(B) = l - 1
  BY DEF Joined
<1>1. l \in Nat /\ l = Len(A) /\ i \in 1..(l - 1) /\ DOMAIN A = 1..l /\ Len(B) = l - 1 /\ l - 1 \in Nat
  BY <1>a
<1>2. PICK f : Parses(f, A, start, p)
  <2>1. Len(A) \in Nat  BY <1>1
  <2> QED BY <2>1, ParseFromIs, Zenon
<1>3. PICK g : Parses(g, B, start, p)
  <2>1. Len(B) \in Nat  BY <1>1
  <2> QED BY <2>1, ParseFromIs, Zenon
<1>4. /\ f[0] = StepOf(start, p) /\ \A n \in 0..l : f[n + 1] = ParseNext(A, f[n])
      /\ ParseFrom(A, start, p) = f[l + 1].parsed
  BY <1>1, <1>2, Zenon DEF Parses
<1>5. /\ g[0] = StepOf(start, p) /\ \A n \in 0..(l - 1) : g[n + 1] = ParseNext(B, g[n])
      /\ ParseFrom(B, start, p) = g[(l - 1) + 1].parsed
  BY <1>1, <1>3, Zenon DEF Parses
<1> DEFINE State(n, x, y, q) ==
             /\ f[n] = StepOf(x, q) /\ g[n] = StepOf(y, q) /\ Level(x, y, i)
             /\ x = 0 \/ (x \in Nat /\ x >= n + 1)
           D == {n \in Nat : n <= l => \E x, y, q : State(n, x, y, q)}
<1>6. 0 \in D
  <2>1. start \in Nat /\ start >= 0 + 1 /\ Level(start, start, i)  BY <1>1 DEF Level
  <2>2. State(0, start, start, p)  BY <1>4, <1>5, <2>1, Zenon
  <2> HIDE DEF State
  <2> QED BY <2>2
<1>7. ASSUME NEW n \in Nat, n \in D PROVE n + 1 \in D
  <2> SUFFICES ASSUME n + 1 <= l PROVE \E x, y, q : State(n + 1, x, y, q)
    <3> HIDE DEF State
    <3>1. n + 1 \in Nat  OBVIOUS
    <3> QED BY <3>1, Zenon
  <2>1. n <= l /\ n \in 0..l /\ n \in 0..(l - 1)  BY <1>1
  <2>2. PICK x, y, q : State(n, x, y, q)
    <3> HIDE DEF State
    <3> QED BY <1>7, <2>1, Zenon
  <2>3. PICK xx, yy, r : InStep(A, x, B, y, q, i, xx, yy, r)  BY <2>2, LevelTurn, Zenon
  <2>4. f[n + 1] = StepOf(xx, r) /\ g[n + 1] = StepOf(yy, r) /\ Level(xx, yy, i)
    BY <1>4, <1>5, <2>1, <2>2, <2>3, Zenon DEF InStep
  <2>5. xx = 0 \/ (xx \in Nat /\ xx >= (n + 1) + 1)
    <3>1. CASE x = 0
      <4>1. x \notin DOMAIN A  BY <1>1, <3>1
      <4>2. ParseNext(A, StepOf(x, q)) = StepOf(0, q)  BY <4>1, OutsideTurn, Zenon
      <4>3. StepOf(xx, r) = StepOf(0, q)  BY <2>3, <4>2, Zenon DEF InStep
      <4>4. StepOf(xx, r).i = xx /\ StepOf(0, q).i = 0  BY StepParts, Zenon
      <4> QED BY <4>3, <4>4, Zenon
    <3>2. CASE x # 0
      <4>1. x \in Nat /\ x >= n + 1  BY <2>2, <3>2, Zenon
      <4>2. xx = 0 \/ (xx \in Nat /\ xx >= x + 1)  BY <2>3, Zenon DEF InStep
      <4> QED BY <4>1, <4>2
    <3> QED BY <3>1, <3>2
  <2>6. State(n + 1, xx, yy, r)  BY <2>4, <2>5, Zenon
  <2> HIDE DEF State
  <2> QED BY <2>6, Zenon
<1>8. l \in D
  <2> HIDE DEF D
  <2>1. \A n \in Nat : n \in D => n + 1 \in D  BY <1>7
  <2>2. Nat \subseteq D  BY <1>6, <2>1, SetInduction, Zenon
  <2> QED BY <2>2
<1>9. PICK x, y, q : State(l, x, y, q)
  <2>1. l <= l  BY <1>1
  <2> HIDE DEF State
  <2> QED BY <1>8, <2>1, Zenon
<1>10. x \notin DOMAIN A
  <2>1. x = 0 \/ (x \in Nat /\ x >= l + 1)  BY <1>9, Zenon
  <2> QED BY <1>1, <2>1
<1>11. f[l + 1] = StepOf(0, q)
  <2>1. l \in 0..l  BY <1>1
  <2>2. f[l + 1] = ParseNext(A, StepOf(x, q))  BY <1>4, <1>9, <2>1, Zenon
  <2> QED BY <1>10, <2>2, OutsideTurn, Zenon
<1>12. f[l + 1].parsed = q
  <2>1. StepOf(0, q).parsed = q  BY StepParts, Zenon
  <2> QED BY <1>11, <2>1, Zenon
<1>13. g[(l - 1) + 1].parsed = q
  <2>1. (l - 1) + 1 = l  BY <1>1
  <2>2. StepOf(y, q).parsed = q  BY StepParts, Zenon
  <2>3. g[l] = StepOf(y, q)  BY <1>9, Zenon
  <2> QED BY <2>1, <2>2, <2>3, Zenon
<1> QED BY <1>4, <1>5, <1>12, <1>13, Zenon

\* Both ways to write a value mean the same.
LEMMA InlineSame ==
  ASSUME NEW S, NEW A \in Seq(S), NEW i \in 1..(Len(A) - 1), TakesWord(A, i)
  PROVE  Parse(Inlined(A, i)) = Parse(A)
<1>1. PICK B : B = Inlined(A, i)  OBVIOUS
<1>2. Joined(A, B, i)  BY <1>1, InlinedJoins, Zenon
<1>3. Len(A) \in Nat /\ DOMAIN A = 1..Len(A) /\ Len(B) \in Nat /\ DOMAIN B = 1..Len(B)
  BY <1>2 DEF Joined
<1>4. PICK n : Begins(A, n)  BY <1>3, FirstExists
<1>5. n \in 1..i /\ Begins(B, n)  BY <1>2, <1>4, JoinedBegins
<1>6. StartsAlike(A, B, n, i)  BY <1>2, <1>5, JoinedStarts
<1>7. PICK c, u, s, h, v : /\ c = CommandAt(A, n) /\ u = SubAt(A, n) /\ s = StartAt(A, n)
                           /\ h = Asks(A, n, {"-h", "help"}) /\ v = Asks(A, n, {"-V", "version"})
  OBVIOUS
<1>8. PICK p : p = LineOf(c, u, h, v, "none", <<>>, <<>>)  OBVIOUS
<1>9. Parse(A) = Finished(ParseFrom(A, s, p))
  <2>1. Parse(A) = Finished(ParseFrom(A, StartAt(A, n),
           LineOf(CommandAt(A, n), SubAt(A, n), Asks(A, n, {"-h", "help"}), Asks(A, n, {"-V", "version"}),
                  "none", <<>>, <<>>)))
    BY <1>3, <1>4, ParseIs
  <2> QED BY <1>7, <1>8, <2>1, Zenon
<1>10. Parse(B) = Finished(ParseFrom(B, s, p))
  <2>1. Parse(B) = Finished(ParseFrom(B, StartAt(B, n),
           LineOf(CommandAt(B, n), SubAt(B, n), Asks(B, n, {"-h", "help"}), Asks(B, n, {"-V", "version"}),
                  "none", <<>>, <<>>)))
    BY <1>3, <1>5, ParseIs
  <2>2. /\ CommandAt(B, n) = c /\ SubAt(B, n) = u /\ StartAt(B, n) = s
        /\ Asks(B, n, {"-h", "help"}) = h /\ Asks(B, n, {"-V", "version"}) = v
    BY <1>6, <1>7, Zenon DEF StartsAlike
  <2> QED BY <1>8, <2>1, <2>2, Zenon
<1>11. ParseFrom(A, s, p) = ParseFrom(B, s, p)
  <2>1. s \in 1..i  BY <1>6, <1>7, Zenon DEF StartsAlike
  <2> QED BY <1>2, <2>1, LoopsAlike
<1> QED BY <1>1, <1>9, <1>10, <1>11, Zenon

\* Each word of a line that is accepted is the command, its subcommand, a value
\* or a positional.  Beside words the parser takes for values exactly the short
\* options that stand right behind an option which wants a value (--tag -h), and
\* nothing that begins with two dashes.  Both ways to write a value mean the same,
\* and a command runs only with options it knows: for every line of any length.
THEOREM LineIsKept ==
  ASSUME NEW S, NEW line \in Seq(S), NEW T, PlainLine(line, T) PROVE LineKept(line)
<1>1. PICK before : before = Before(line)  OBVIOUS
<1>2. PICK b : IsBefore(line, before, b)  BY <1>1, BeforeIs
<1>3. PICK c, u, h, v, e, o, w : Outcome(line, b, T, c, u, h, v, e, o, w)  BY <1>2, OutcomeIs
<1>4. PICK parsed : parsed = Parse(line) /\ parsed = LineOf(c, u, h, v, e, o, w)  BY <1>3, Zenon DEF Outcome
<1>5. /\ parsed.command = c /\ parsed.subcommand = u /\ parsed.error = e /\ parsed.options = o /\ parsed.positionals = w
  BY <1>4, LineParts, SubcommandPart
<1> DEFINE values == Cardinality({x \in (DOMAIN parsed.options) \X (1..Len(line)) : x[2] <= Len(parsed.options[x[1]])})
           words == Cardinality({i \in DOMAIN before : before[i].kind = "word"})
           swallowed == Cardinality(Swallowed(before))
           inline == Cardinality({i \in DOMAIN before : before[i].inline})
           behind == Len(line) - Len(before) - (IF Len(before) < Len(line) THEN 1 ELSE 0)
           taken == (IF parsed.command = "" THEN 0 ELSE 1) + (IF parsed.subcommand = <<>> THEN 0 ELSE 1)
           used == taken + values - inline + Len(parsed.positionals) - behind
<1>6. ASSUME MainDoes(parsed) \in Commands \ {"help"}
      PROVE  DOMAIN parsed.options \subseteq KnownOptions(MainDoes(parsed)) \cup GlobalOptions
  <2>1. OnlyKnown(o, c)  BY <1>3, Zenon DEF Outcome
  <2>2. OnlyKnown(o, MainDoes(parsed))  BY <1>4, <1>6, <2>1, RunsKnown, Zenon
  <2> QED BY <1>5, <2>2, Zenon DEF OnlyKnown
<1>7. ASSUME parsed.error \in {"none", "unknown command"} PROVE used = words + swallowed
  <2>1. PICK k \in Nat : k = Used(c, u) /\ AllTaken(line, b, T, k, o, w)
    <3>1. e \in {"none", "unknown command"}  BY <1>5, <1>7, Zenon
    <3> QED BY <1>3, <3>1, Zenon DEF Outcome
  <2>2. taken = k  BY <1>5, <2>1, Zenon DEF Used, Empty
  <2>3. values = Cardinality(ValuesIn(o, Len(line)))  BY <1>5, Zenon DEF ValuesIn
  <2> HIDE DEF taken, values
  <2>4. k + Cardinality(ValuesIn(o, Len(line))) - inline + Len(w) - behind = words + swallowed
    BY <1>2, <2>1, WordsUsed
  <2> HIDE DEF words, swallowed, inline, behind
  <2> QED BY <1>5, <2>2, <2>3, <2>4, Zenon
<1>8. ASSUME NEW i \in 1..(Len(before) - 1), WantsValue(before[i]), before[i + 1].kind = "word"
      PROVE  Parse(Inlined(line, i)) = parsed
  <2>1. /\ Len(line) \in Nat /\ b \in 0..Len(line) /\ Len(before) = b
        /\ \A j \in 1..b : before[j] = line[j] /\ line[j].kind # "dashdash"
    BY <1>2 DEF PlainLine, PlainArgument, IsBefore
  <2>2. i \in 1..(Len(line) - 1) /\ i \in 1..b /\ i + 1 \in 1..b /\ i \in 1..Len(line)  BY <1>8, <2>1
  <2>3. before[i] = line[i] /\ before[i + 1] = line[i + 1] /\ \A j \in 1..i : line[j].kind # "dashdash"
    BY <2>1, <2>2
  <2>a. line[i].kind = "long" /\ ~line[i].inline /\ line[i].name \notin FlagOptions  BY <1>8, <2>3, Zenon DEF WantsValue
  <2>4. line[i].name \notin {"-h", "-V"}  BY <2>2, <2>a, Zenon DEF PlainLine, PlainArgument
  <2>5. TakesWord(line, i)  BY <1>8, <2>3, <2>4, <2>a, Zenon DEF TakesWord
  <2> QED BY <1>4, <2>2, <2>5, InlineSame, Zenon
<1> HIDE DEF used, words, swallowed
<1>9. /\ MainDoes(parsed) \in Commands \ {"help"} =>
           DOMAIN parsed.options \subseteq KnownOptions(MainDoes(parsed)) \cup GlobalOptions
      /\ parsed.error \in {"none", "unknown command"} => used = words + swallowed
      /\ \A i \in 1..(Len(before) - 1) :
           WantsValue(before[i]) /\ before[i + 1].kind = "word" => Parse(Inlined(line, i)) = parsed
  BY <1>6, <1>7, <1>8, Zenon
<1> QED BY <1>1, <1>4, <1>9, Zenon DEF LineKept, used, words, swallowed

LEMMA PoolPlain == ASSUME NEW a \in LinePool PROVE PlainArgument(a)
<1>1. ASSUME NEW x, x # Empty PROVE PlainArgument(Word(<<x>>))
  <2>1. PICK t : t = <<x>> /\ t # <<>> /\ Head(t) = x
    <3>1. PICK t : t = <<x>>  OBVIOUS
    <3>2. t # <<>> /\ Head(t) = x  BY <3>1
    <3> QED BY <3>1, <3>2
  <2>2. Word(t).kind = "word" /\ Word(t).name = Empty /\ Word(t).text = t /\ Word(t).inline = FALSE
    <3>1. PICK n : n = Empty  OBVIOUS
    <3>2. Word(t) = [kind |-> "word", name |-> n, text |-> t, inline |-> FALSE]  BY <3>1, Zenon DEF Word, Empty
    <3>3. Word(t).kind = "word" /\ Word(t).name = n /\ Word(t).text = t /\ Word(t).inline = FALSE  BY <3>2
    <3> QED BY <3>1, <3>3, Zenon
  <2> QED BY <1>1, <2>1, <2>2, Zenon DEF PlainArgument
<1>2. ASSUME NEW x, x \notin {"-h", "-V"} PROVE PlainArgument(Long(x))
  <2>1. Long(x).kind = "long" /\ Long(x).name = x /\ ~Long(x).inline  BY DEF Long
  <2> QED BY <1>2, <2>1, Zenon DEF PlainArgument
<1>3. ASSUME NEW x, x \notin {"-h", "-V", "help", "version"}, NEW t PROVE PlainArgument(LongWith(x, t))
  <2>1. LongWith(x, t).kind = "long" /\ LongWith(x, t).name = x  BY DEF LongWith
  <2> QED BY <1>3, <2>1, Zenon DEF PlainArgument
<1>4. PlainArgument(Short("-h"))
  <2>1. Short("-h").kind = "short" /\ ~Short("-h").inline  BY DEF Short
  <2> QED BY <2>1, Zenon DEF PlainArgument
<1>5. PlainArgument(DashDash)
  <2>1. PICK n : n = Empty  OBVIOUS
  <2>2. DashDash = [kind |-> "dashdash", name |-> n, text |-> <<>>, inline |-> FALSE]  BY <2>1, Zenon DEF DashDash, Empty
  <2>3. DashDash.kind = "dashdash" /\ DashDash.name = n /\ ~DashDash.inline  BY <2>2
  <2> QED BY <2>1, <2>3, Zenon DEF PlainArgument
<1>6. "run" # Empty /\ "db" # Empty /\ "t1" # Empty  BY Zenon DEF Empty
<1>7. /\ PlainArgument(Word(<<"run">>)) /\ PlainArgument(Word(<<"db">>)) /\ PlainArgument(Word(<<"t1">>))
  BY <1>1, <1>6, Zenon
<1>8. /\ PlainArgument(Long("tag")) /\ PlainArgument(Long("shuffle")) /\ PlainArgument(Long("bogus"))
      /\ PlainArgument(Long("help"))
  BY <1>2, Zenon
<1>9. \A t : PlainArgument(LongWith("tag", t))
  <2>1. "tag" \notin {"-h", "-V", "help", "version"}  BY Zenon
  <2> QED BY <1>3, <2>1, Zenon
<1> QED BY <1>4, <1>5, <1>7, <1>8, <1>9, Zenon DEF LinePool

\* The same of the lines the model checker looks at.
THEOREM AlwaysKept == DecisionsSpec => []CommandLineKept
<1>1. IsItem => CommandLineKept
  <2> SUFFICES ASSUME IsItem, Is("line") PROVE LineKept(item.line)  BY DEF CommandLineKept
  <2>1. item \in LineItems  BY ItemOf
  <2>2. item.line \in BoundedSeq(LinePool, 4)
    <3> HIDE DEF LinePool
    <3> QED BY <2>1 DEF LineItems
  <2>3. PICK line : line = item.line  OBVIOUS
  <2>4. line \in Seq(LinePool)  BY <2>2, <2>3, BoundedIsSeq, Zenon
  <2>5. Len(line) \in Nat /\ DOMAIN line = 1..Len(line) /\ \A i \in 1..Len(line) : line[i] \in LinePool
    <3> HIDE DEF LinePool
    <3> QED BY <2>4
  <2>6. PICK T : T = {line[i].text : i \in 1..Len(line)}  OBVIOUS
  <2>7. \A i \in 1..Len(line) : line[i].text \in T  BY <2>6
  <2>8. \A i \in 1..Len(line) : PlainArgument(line[i])  BY <2>5, PoolPlain, Zenon
  <2>9. PlainLine(line, T)  BY <2>5, <2>7, <2>8, Zenon DEF PlainLine, PlainArgument
  <2>10. LineKept(line)  BY <2>4, <2>9, LineIsKept, Zenon
  <2> QED BY <2>3, <2>10, Zenon
<1> QED BY <1>1, AlwaysItem, PTL
=============================================================================
