----------------------------- MODULE GitLogParser -----------------------------
(***************************************************************************)
(* What one git log says (gitlog/parser.py, gitlog/filters.py), how often  *)
(* it is asked for (_parse_repo_with_backoff in gitlog/runtime.py), and    *)
(* the pony factor of its counts (metrics/pony_factor.py).                 *)
(*                                                                         *)
(* An e-mail is an address and one way of writing it; times are seed runs. *)
(***************************************************************************)
EXTENDS Naturals, Sequences, FiniteSets, SequencesExt

CONSTANTS
  Commits,     \* lines of the log of each repository: [ok, name, email, time]
  Window,      \* GITLOG_SINCE_MONTHS
  BotNames,    \* author names the bot patterns match
  BotEmails,   \* addresses the bot patterns match
  MaxRetries   \* GITLOG_RATE_LIMIT_MAX_RETRIES

NormalizeEmail(email) == email[1]
IsBot(commit) == commit.name \in BotNames \/ NormalizeEmail(commit.email) \in BotEmails

(* git log --since at a time: the commits with their lines, less those that *)
(* cannot be parsed.                                                        *)
Log(repo, now) ==
  {<<i, Commits[repo][i]>> : i \in {n \in DOMAIN Commits[repo] :
     LET c == Commits[repo][n] IN c.ok /\ c.time <= now /\ c.time + Window > now}}

Group(log, email) == {line \in log : NormalizeEmail(line[2].email) = email}
Latest(group) ==
  LET newest == CHOOSE line \in group : \A other \in group :
                  \/ other[2].time < line[2].time
                  \/ other[2].time = line[2].time /\ line[1] <= other[1]
  IN newest[2]

(* Commits of each author; the latest one tells whether it is a bot.        *)
AggregateContributors(log) ==
  LET humans == {e \in {NormalizeEmail(line[2].email) : line \in log} :
                   ~IsBot(Latest(Group(log, e)))}
  IN [e \in humans |-> Cardinality(Group(log, e))]

(* Bots count; 0 is no commit.                                              *)
LatestCommitDate(log) == IF log = {} THEN 0 ELSE Latest(log).time

(* An answer of git is the log or an error, of which only the patterns its  *)
(* message contains matter.                                                 *)
Answers == {[ok |-> TRUE, message |-> {}]}
           \cup [ok : {FALSE}, message : SUBSET {"rate limit", "not found"}]
IsRateLimit(answer) == "rate limit" \in answer.message

(* Mutant: the message is searched for the terminal patterns alone. *)
IsTerminalByPattern(answer) == "not found" \in answer.message
IsTerminal(answer) == ~IsRateLimit(answer) /\ "not found" \in answer.message

(* The first answer without rate limit, or the last one.                    *)
ParseWithBackoff(answers) ==
  LET final == {i \in DOMAIN answers : ~IsRateLimit(answers[i])} \cup {Len(answers)}
  IN answers[CHOOSE i \in final : \A j \in final : i <= j]
ParseResults == {ParseWithBackoff(answers) : answers \in [1..(MaxRetries + 1) -> Answers]}

(* The elements of a set as a list in which what comes before another is    *)
(* allowed to: one of the lists, where ties leave several.                  *)
Ordered(S, before(_, _)) ==
  CHOOSE list \in SetToSeqs(S) : \A i, j \in DOMAIN list : i < j => before(list[i], list[j])

(* Mutant: the share must be exceeded. *)
PonyFactorAbove(counts) ==
  LET sorted == Ordered(DOMAIN counts, LAMBDA x, y : counts[x] >= counts[y])
      first(n) == {sorted[i] : i \in 1..n}
      enough == {n \in 0..Len(sorted) : 2 * SumFunctionOnSet(counts, first(n)) > SumFunction(counts)}
  IN IF enough = {} THEN 0 ELSE CHOOSE n \in enough : \A k \in enough : n <= k
(* compute_pony_factor, with METRICS_CONFIG.pony_factor_threshold = 0.5.    *)
ComputePonyFactor(counts) ==
  LET sorted == Ordered(DOMAIN counts, LAMBDA x, y : counts[x] >= counts[y])
      first(n) == {sorted[i] : i \in 1..n}
      enough == {n \in 0..Len(sorted) : 2 * SumFunctionOnSet(counts, first(n)) >= SumFunction(counts)}
  IN CHOOSE n \in enough : \A k \in enough : n <= k

(* What it promises: the number of authors of any set with half of the      *)
(* commits, and none less.                                                  *)
HalfBy(counts) ==
  {Cardinality(S) : S \in {T \in SUBSET DOMAIN counts : 2 * SumFunctionOnSet(counts, T) >= SumFunction(counts)}}
===============================================================================
