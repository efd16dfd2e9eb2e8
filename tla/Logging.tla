------------------------------- MODULE Logging --------------------------------
(***************************************************************************)
(* libsrsbsns/log.c, the logger programs use, and libsrsbsns/intlog.c, the *)
(* one the library itself uses, which sets itself up from the environment  *)
(* when the first message comes.  Each has state of its own; syslog(3) has *)
(* one connection for the whole process.  Memory does not run out.         *)
(***************************************************************************)
EXTENDS Integers, Sequences, SequencesExt

CONSTANTS
  Level,       \* the severities of messages; a high one is unimportant
  LOG_ERR,
  File,        \* the source files messages come from
  Other,       \* in place of a file: the token has no name
  NotANumber,  \* in place of a level: isdigitstr() says no
  Ident,       \* the names a program gives log_syslog()
  LibIdent,    \* "libsrsbsns"
  Progname,    \* what syslog(3) uses when nobody called openlog()
  Closed,      \* no connection
  Environment  \* the settings the library may be started with

ASSUME LevelAssumption == Level \subseteq Nat /\ LOG_ERR \in Level
ASSUME FileAssumption == Other \notin File
ASSUME IdentAssumption == Closed \notin Ident \cup {LibIdent, Progname}
ASSUME EnvironmentAssumption ==
  \A e \in Environment :
    /\ e.tokens \in Seq([file : File \cup {Other}, lvl : Int \cup {NotANumber}])
    /\ e.syslog \in BOOLEAN /\ e.fancy \in BOOLEAN

VARIABLES
  env,         \* the environment: tokens, target and fancy; it does not change
  conn,        \* syslog(3)'s connection: its ident
  app, lib,    \* the static variables of log.c and intlog.c
  lvlmap,      \* intlog.c's s_lvlmap, none before it is set up
  said,        \* history: where the last message went, and how
  ident, asked \* history: the last log_syslog(); the last log_setfancy()

logvars == <<env, conn, app, lib, lvlmap, said, ident, asked>>

Unset == -1
Silent == [by |-> "nobody", to |-> "nowhere", ident |-> Closed, colour |-> FALSE]

LogInit ==
  /\ env \in Environment
  /\ conn = Closed
  /\ app = [open |-> FALSE, stderr |-> TRUE, lvl |-> 0, fancy |-> FALSE]
  /\ lib = [open |-> FALSE, stderr |-> TRUE, lvl |-> Unset, fancy |-> FALSE]
  /\ lvlmap = <<>>
  /\ said = Silent /\ ident = Closed /\ asked = FALSE

-----------------------------------------------------------------------------
(* log.c; intlog.c has the same functions *)

Syslog(log) == [log EXCEPT !.open = TRUE, !.fancy = FALSE, !.stderr = FALSE]

\* The note that the connection is open stays.
Stderr(log) == [log EXCEPT !.stderr = TRUE]

SetFancyBlind(log, fancy) == [log EXCEPT !.fancy = fancy]          \* mutant
SetFancy(log, fancy) == IF log.stderr THEN [log EXCEPT !.fancy = fancy] ELSE log

log_syslog(id) ==
  /\ app' = Syslog(app) /\ conn' = id
  /\ ident' = id /\ asked' = FALSE /\ said' = Silent
  /\ UNCHANGED <<env, lib, lvlmap>>

log_stderr ==
  /\ app' = Stderr(app)
  /\ conn' = IF app.open THEN Closed ELSE conn
  /\ said' = Silent
  /\ UNCHANGED <<env, lib, lvlmap, ident, asked>>

log_setfancy(fancy) ==
  /\ app' = SetFancy(app, fancy)
  /\ asked' = IF app.stderr THEN fancy ELSE asked
  /\ said' = Silent
  /\ UNCHANGED <<env, conn, lib, lvlmap, ident>>

log_setlvl(lvl) ==
  /\ app' = [app EXCEPT !.lvl = lvl]
  /\ said' = Silent
  /\ UNCHANGED <<env, conn, lib, lvlmap, ident, asked>>

\* Writing a message, with syslog(3)'s connection c as it is by then.
Emit(who, log, c) ==
  IF log.stderr
    THEN /\ said' = [by |-> who, to |-> "stderr", ident |-> Closed, colour |-> log.fancy]
         /\ conn' = c
    ELSE /\ conn' = IF c = Closed THEN Progname ELSE c
         /\ said' = [by |-> who, to |-> "syslog", ident |-> conn', colour |-> FALSE]

log_log(lvl) ==
  /\ IF lvl > app.lvl THEN said' = Silent /\ UNCHANGED conn ELSE Emit("app", app, conn)
  /\ UNCHANGED <<env, app, lib, lvlmap, ident, asked>>

-----------------------------------------------------------------------------
(* intlog.c *)

\* A token of LIBSRSBSNS_DEBUG: [file, lvl] for "file=lvl", [Other, lvl] for a
\* number alone, with NotANumber for other levels.  A level is what is left of
\* the number in an int, which may be Unset.
Heed(set, t) ==
  CASE t.lvl = NotANumber -> set
    [] t.lvl # NotANumber /\ t.file = Other -> [set EXCEPT !.lvl = t.lvl]
    [] t.lvl # NotANumber /\ t.file # Other ->
         [set EXCEPT !.map = [f \in DOMAIN @ \cup {t.file} |->
                                IF f = t.file THEN t.lvl ELSE @[f]]]

\* s_lvl and s_lvlmap after the loop over the tokens.
Settings(tokens) ==
  LET after[n \in 0 .. Len(tokens)] ==
        IF n = 0 THEN [lvl |-> LOG_ERR, map |-> <<>>] ELSE Heed(after[n - 1], tokens[n])
  IN  after[Len(tokens)]

\* bsnslog_init(): the logger it leaves.
SetUp ==
  LET level == [lib EXCEPT !.lvl = Settings(env.tokens).lvl]
      target == IF env.syslog THEN Syslog(level) ELSE Stderr(level)
  IN  SetFancy(target, env.fancy)

ThresholdBefore(log, map, f) ==         \* mutant: looks before it is set up
  IF f \in DOMAIN lvlmap THEN lvlmap[f] ELSE lib.lvl
Threshold(log, map, f) == IF f \in DOMAIN map THEN map[f] ELSE log.lvl

bsnslog_log(lvl, f) ==
  LET first == lib.lvl = Unset
      c == CASE ~first -> conn
             [] first /\ env.syslog -> LibIdent
             [] first /\ ~env.syslog -> IF lib.open THEN Closed ELSE conn
  IN  /\ lib' = IF first THEN SetUp ELSE lib
      /\ lvlmap' = IF first THEN Settings(env.tokens).map ELSE lvlmap
      /\ IF lvl > Threshold(lib', lvlmap', f) THEN said' = Silent /\ conn' = c
                                              ELSE Emit("lib", lib', c)
      /\ UNCHANGED <<env, app, ident, asked>>

LogNext ==
  \/ \E id \in Ident : log_syslog(id)
  \/ log_stderr
  \/ \E fancy \in BOOLEAN : log_setfancy(fancy)
  \/ \E lvl \in Level : log_setlvl(lvl) \/ log_log(lvl)
  \/ \E lvl \in Level, f \in File : bsnslog_log(lvl, f)

LogSpec == LogInit /\ [][LogNext]_logvars

-----------------------------------------------------------------------------
(* Properties *)

IsLogger(log) ==
  /\ DOMAIN log = {"open", "stderr", "lvl", "fancy"}
  /\ log.open \in BOOLEAN /\ log.stderr \in BOOLEAN /\ log.fancy \in BOOLEAN

LogTypeOK ==
  /\ env \in Environment
  /\ conn \in Ident \cup {LibIdent, Progname, Closed}
  /\ IsLogger(app) /\ IsLogger(lib)
  /\ said.by \in {"app", "lib", "nobody"} /\ said.to \in {"stderr", "syslog", "nowhere"}
  /\ said.colour \in BOOLEAN
  /\ ident \in Ident \cup {Closed} /\ asked \in BOOLEAN

FancyWasAsked == said.by = "app" => said.colour = (asked /\ said.to = "stderr")

KeepsIdent ==
  said.by = "app" /\ said.to = "syslog" =>
    said.ident = ident \/ (env.syslog /\ said.ident = LibIdent)

\* Every variable keeps its type.  The program's messages have colours when the
\* last call that could ask for them did: log_setfancy() does not count while
\* messages go to syslog, nor afterwards, when they go to stderr again, and one
\* before log_syslog() is forgotten.  Messages the program sends to syslog carry
\* the ident it gave log_syslog(), although the library shares the connection
\* and either may have closed it; only where the environment sends the
\* library's own messages to syslog may they carry the library's ident instead.
ProgramsMessages == LogTypeOK /\ FancyWasAsked /\ KeepsIdent

\* The level of the last token that sets one for file.
LastSet(tokens, file, otherwise) ==
  LET found == SelectLastInSeq(tokens, LAMBDA t : t.file = file /\ t.lvl # NotANumber)
  IN  IF found = 0 THEN otherwise ELSE tokens[found].lvl

\* The environment decides which messages of the library are written, from the
\* first one on, the one that makes it read the environment: the last setting
\* for the message's file counts, else the last number, else LOG_ERR, also when
\* the level it sets makes every message set the logger up again.  What the
\* program does to its own logger does not matter.
EnvironmentDecides ==
  [][\A lvl \in Level, f \in File :
       bsnslog_log(lvl, f) =>
         (said'.by = "lib") =
           (lvl <= LastSet(env.tokens, f, LastSet(env.tokens, Other, LOG_ERR)))]_logvars

=============================================================================
