------------------------------- MODULE Config -------------------------------
(***************************************************************************)
(* The settings of a process: the .env file and the process environment,   *)
(* validated and coerced by the zod schema (validateEnv), written back     *)
(* into process.env by @nestjs/config, and read again, as text, by         *)
(* configuration().                                                        *)
(*                                                                         *)
(* One variable of each kind of the schema stands for all of its kind, and *)
(* a few texts for all a variable can hold.                                *)
(***************************************************************************)
EXTENDS Naturals

Settings == {"host", "port", "ttl", "flag"}

\* What a variable can hold; "unset": it is not there.  "x" is no number.
Texts == {"unset", "", "true", "false", "0", "1", "x"}

Raw == [Settings -> Texts]

\* JavaScript's Number(text), for the texts for which it is one.
IsNumber(t) == t \in {"", "0", "1"}
Number(t) == IF t = "1" THEN 1 ELSE 0
-----------------------------------------------------------------------------
\* envSchema, per kind: min(1) without a default, positive(), nonnegative(),
\* and z.coerce.boolean, which accepts anything.  The mutant allows a port 0.
Accepts_ZeroPort(raw) ==
    /\ raw["host"] \notin {"unset", ""}
    /\ raw["port"] = "unset" \/ IsNumber(raw["port"])
    /\ raw["ttl"] = "unset" \/ IsNumber(raw["ttl"])
Accepts(raw) ==
    /\ raw["host"] \notin {"unset", ""}
    /\ raw["port"] = "unset" \/ (IsNumber(raw["port"]) /\ Number(raw["port"]) > 0)
    /\ raw["ttl"] = "unset" \/ IsNumber(raw["ttl"])

DefaultPort == 6379
DefaultTtl == 3600

\* The object validateEnv returns.  z.coerce.boolean is JavaScript's Boolean:
\* every text but the empty one is true.
Coerced(raw) ==
    [port |-> IF raw["port"] = "unset" THEN DefaultPort ELSE Number(raw["port"]),
     ttl  |-> IF raw["ttl"] = "unset" THEN DefaultTtl ELSE Number(raw["ttl"]),
     flag |-> raw["flag"] \notin {"unset", ""}]

\* ConfigModule.forRoot: what it validates is the file overlaid by the process
\* environment, and what it writes to process.env is the coerced value of each
\* variable that was not there.
Merged(env) == [s \in Settings |->
                  IF env.shell[s] = "unset" THEN env.file[s] ELSE env.shell[s]]

\* configuration(): numbers with ||, flags by comparison with the text 'true'.
\* Numbers read the same from their text and from the coerced value; a flag of
\* the file is compared in its coerced form, one of the shell as it was written.
OrDefault(n, default) == IF n = 0 THEN default ELSE n

Configuration(env) ==
    LET zod == Coerced(Merged(env))
    IN  [port |-> OrDefault(zod.port, DefaultPort),
         ttl  |-> OrDefault(zod.ttl, DefaultTtl),
         flag |-> IF env.shell["flag"] = "unset" THEN zod.flag
                                                 ELSE env.shell["flag"] = "true"]
=============================================================================
