---------------------------- MODULE FilterPolicy ----------------------------
(***************************************************************************)
(* From rules and blocklists to answers: custom rules (app/custom_rules.py)*)
(* and downloaded sources are compiled into RPZ records for BIND and into  *)
(* pass lists and regex rules for dnsdist; evaluate_domain ("Test a        *)
(* domain") predicts the answer from the rules.                            *)
(*                                                                         *)
(* Names form a tree given by their ancestors.  An RPZ owner is a name or  *)
(* the wildcard below it.  Addresses, types and patterns are abstracted: a *)
(* rewrite has an address, the one regex matches the names RegexMatches.   *)
(***************************************************************************)
EXTENDS Naturals, FiniteSets

CONSTANTS Names,         \* the names there are rules and queries for
          Above,         \* Above[n]: the names n is a subdomain of
          RegexMatches,  \* the names the regex rules match
          Sources, Editions,  \* what a source may contain: [blocks, allows]
          MaxRules

ASSUME FilterPolicyAssumption ==
    /\ Above \in [Names -> SUBSET Names]
    /\ \A n \in Names : \A m \in Above[n] : Above[m] \subseteq Above[n] \ {m}
    /\ \A n \in Names : \A l, m \in Above[n] : l = m \/ l \in Above[m] \/ m \in Above[l]
    /\ \A n \in Names : IsFiniteSet(Above[n])
    /\ RegexMatches \subseteq Names
    /\ \A e \in Editions : e.blocks \subseteq Names /\ e.allows \subseteq Names
    /\ MaxRules \in Nat

Normal == 0
Important == 1   \* IMPORTANT_PRIORITY

\* What parse_rule makes of a line: rewrites (hosts lines with an address,
\* $dnsrewrite), allows (@@), blocks, with or without subdomains; regexes.
\* The duplicate key leaves the priority out.
Key == [type : {"rewrite", "allow", "block"}, name : Names, subdomains : BOOLEAN]
       \cup [type : {"regex_allow", "regex_block"}]

VARIABLES rules,   \* custom_filter_rules: key -> [priority, enabled]
          files    \* the last good download of each source, "none" before it

policyVars == <<rules, files>>

NoFile == [blocks |-> {}, allows |-> {}]

PolicyInit == rules = <<>> /\ files = [s \in Sources |-> NoFile]

----------------------------------------------------------------------------
(* Editing rules and downloading sources.                                  *)

\* _insert_rule: a key that is there, enabled or not and whatever its
\* priority, is a duplicate and stays as it is.
AddRule(key, priority) ==
    /\ key \notin DOMAIN rules
    /\ Cardinality(DOMAIN rules) < MaxRules
    /\ rules' = [k \in DOMAIN rules \cup {key} |->
                   IF k = key THEN [priority |-> priority, enabled |-> TRUE] ELSE rules[k]]
    /\ UNCHANGED files

\* update_rule replaces the row; a key another row has is refused.
UpdateRule(old, key, priority, enabled) ==
    /\ old \in DOMAIN rules
    /\ key = old \/ key \notin DOMAIN rules
    /\ rules' = [k \in (DOMAIN rules \ {old}) \cup {key} |->
                   IF k = key THEN [priority |-> priority, enabled |-> enabled] ELSE rules[k]]
    /\ UNCHANGED files

\* set_enabled, toggle_rule, bulk_set_enabled.
SetEnabled(key) ==
    /\ key \in DOMAIN rules
    /\ rules' = [rules EXCEPT ![key].enabled = ~@]
    /\ UNCHANGED files

DeleteRule(key) ==
    /\ key \in DOMAIN rules
    /\ rules' = [k \in DOMAIN rules \ {key} |-> rules[k]]
    /\ UNCHANGED files

\* download_source: the file is replaced when the whole of it has arrived; a
\* failed download leaves the last good one, which is compiled again.
DownloadSource(s, edition) ==
    /\ files' = [files EXCEPT ![s] = edition]
    /\ UNCHANGED rules

----------------------------------------------------------------------------
(* Compiling.                                                              *)

\* parse_rule_lines: the names the files block or allow, however spelled.
Listed(kind) == UNION {files[s][kind] : s \in Sources}

\* collect_rules: the merged blocks less the merged allows, name by name.
ActiveBlocks == Listed("blocks") \ Listed("allows")

\* custom_rules.collect_active.
Enabled(type, n) ==
    {k \in DOMAIN rules : k.type = type /\ rules[k].enabled /\ k.name = n}
EnabledRegex(type) == \E k \in DOMAIN rules : k.type = type /\ rules[k].enabled
Priority(ks) == IF \E k \in ks : rules[k].priority = Important THEN Important ELSE Normal

\* An entry of ActiveRuleSet: what it covers, {} when there is none.
Covers(ks) == {IF k.subdomains THEN "subdomains" ELSE "exact" : k \in ks}
Rewrite(n) == Covers(Enabled("rewrite", n))
Without(covers, claimed) ==
    covers \ ({"exact"} \cup (claimed \cap {"subdomains"}))

\* Mistake: an important block leaves the allow in place.
Outranked_Never(n) == FALSE

\* _resolve_conflicts: rewrite > allow > block at one name, except that a
\* block of a higher priority deletes the allow.
Outranked(n) ==
    /\ Enabled("block", n) # {} /\ Enabled("allow", n) # {}
    /\ Priority(Enabled("block", n)) > Priority(Enabled("allow", n))

Allow(n) ==
    IF Outranked(n) THEN {}
    ELSE IF Rewrite(n) = {} THEN Covers(Enabled("allow", n))
    ELSE Without(Covers(Enabled("allow", n)), Rewrite(n))

Block(n) ==
    LET blk == Covers(Enabled("block", n))
        rest == IF Rewrite(n) = {} THEN blk ELSE Without(blk, Rewrite(n))
        allow == Covers(Enabled("allow", n))
    IN  IF allow = {} \/ Outranked(n) THEN rest ELSE Without(rest, allow)

\* subtract_allowed: names with an allow, or under a subdomain allow.
Subtracted ==
    {n \in ActiveBlocks :
        /\ Allow(n) = {}
        /\ \A m \in Above[n] : "subdomains" \notin Allow(m)}

\* rpz_records, then the external names at owners that are free.
Exact(n) == [name |-> n, wild |-> FALSE]
Wild(n) == [name |-> n, wild |-> TRUE]
Owns(o, covers) == IF o.wild THEN "subdomains" \in covers ELSE covers # {}

RenderRpz(o) ==
    IF Owns(o, Rewrite(o.name)) THEN "rewrite"
    ELSE IF Owns(o, Allow(o.name)) THEN "passthru"
    ELSE IF Owns(o, Block(o.name)) THEN "block"
    ELSE IF o.name \in Subtracted THEN "block"
    ELSE "none"

\* render_dnsdist_data.
PassSuffixes == {n \in Names : "subdomains" \in Allow(n) \cup Rewrite(n)}
PassExact ==
    {n \in Names : Allow(n) = {"exact"} \/ (Rewrite(n) # {} /\ "subdomains" \notin Rewrite(n))}
        \ PassSuffixes

\* _custom_allow_represented: the lines are looked for anywhere in the text,
\* so that the line of the wildcard also counts as the line of the name.
AllowRepresented_Line(n) ==
    /\ Allow(n) # {} => RenderRpz(Exact(n)) = "passthru"
    /\ "subdomains" \in Allow(n) => RenderRpz(Wild(n)) = "passthru"

AllowRepresented(n) ==
    /\ Allow(n) # {} => "passthru" \in {RenderRpz(Exact(n)), RenderRpz(Wild(n))}
    /\ "subdomains" \in Allow(n) => RenderRpz(Wild(n)) = "passthru"

----------------------------------------------------------------------------
(* Answering.                                                              *)

Longest(S) == CHOOSE n \in S : \A m \in S : Cardinality(Above[m]) <= Cardinality(Above[n])

\* BIND's RPZ, as _rpz_status emulates it: the name, else the wildcard with
\* most labels.
RpzStatus(q) ==
    LET wild == {m \in Above[q] : RenderRpz(Wild(m)) # "none"}
    IN  IF RenderRpz(Exact(q)) # "none" THEN RenderRpz(Exact(q))
        ELSE IF wild = {} THEN "none"
        ELSE RenderRpz(Wild(Longest(wild)))

\* dnsdist with custom-rules.conf: pass lists, regex allows, regex blocks.
Passed(q) ==
    \/ ({q} \cup Above[q]) \cap PassSuffixes # {}
    \/ q \in PassExact
    \/ q \in RegexMatches /\ EnabledRegex("regex_allow")

Answer(q) ==
    IF ~Passed(q) /\ q \in RegexMatches /\ EnabledRegex("regex_block") THEN "block"
    ELSE CASE RpzStatus(q) = "block"   -> "block"
           [] RpzStatus(q) = "rewrite" -> "rewrite"
           [] OTHER                    -> "resolve"

----------------------------------------------------------------------------
(* evaluate_domain: the rules that match, the most specific of them.       *)

Matching(q) ==
    {k \in DOMAIN rules :
        /\ k.type \in {"rewrite", "allow", "block"} /\ rules[k].enabled
        /\ k.name = q \/ (k.subdomains /\ k.name \in Above[q])}

Best(q) == LET n == Longest({k.name : k \in Matching(q)})
           IN  {k \in Matching(q) : k.name = n}

EvaluateMatches(q) ==
    LET of(type) == {k \in Best(q) : k.type = type}
    IN  IF of("rewrite") # {} THEN "rewrite"
        ELSE IF of("allow") = {} THEN "block"
        ELSE IF of("block") # {} /\ Priority(of("block")) > Priority(of("allow")) THEN "block"
        ELSE "resolve"

EvaluateDomain(q) ==
    IF Matching(q) # {} THEN EvaluateMatches(q)
    ELSE IF q \in RegexMatches /\ EnabledRegex("regex_allow")
         THEN IF RpzStatus(q) = "block" THEN "block" ELSE "resolve"
    ELSE IF q \in RegexMatches /\ EnabledRegex("regex_block") THEN "block"
    ELSE IF RpzStatus(q) = "block" THEN "block" ELSE "resolve"

----------------------------------------------------------------------------
PolicyNext ==
    \/ \E k \in Key, p \in {Normal, Important} : AddRule(k, p)
    \/ \E k \in DOMAIN rules : \/ SetEnabled(k) \/ DeleteRule(k)
                               \/ \E p \in {Normal, Important} : UpdateRule(k, k, p, TRUE)
    \/ \E s \in Sources, e \in Editions : DownloadSource(s, e)

PolicySpec == PolicyInit /\ [][PolicyNext]_policyVars

----------------------------------------------------------------------------
(***************************************************************************)
(* The documentation of "Test a domain": it "reproduces exactly this walk" *)
(* of the deployed precedence.                                             *)
(***************************************************************************)
TesterAgrees == \A q \in Names : EvaluateDomain(q) = Answer(q)

\* Allows and blocks of one name differ in reach, and one is important.
MixedReach(n) ==
    LET both == Enabled("allow", n) \cup Enabled("block", n)
    IN  /\ Enabled("allow", n) # {} /\ Enabled("block", n) # {}
        /\ Priority(both) = Important /\ Covers(both) = {"exact", "subdomains"}

\* A list names n, below a rewrite that covers subdomains.
ListedBelowRewrite(n) == n \in Subtracted /\ \E m \in Above[n] : "subdomains" \in Rewrite(m)

(***************************************************************************)
(* The prediction of evaluate_domain from the rules is the answer of the   *)
(* two layers compiled from them, whatever rules and lists meet, with two  *)
(* exceptions: allows and blocks of one name that differ in reach, one of  *)
(* them important (compiling weighs the allows of a name as a whole, the   *)
(* prediction those that reach the query), and a list that names something *)
(* below a subdomain rewrite (only allows are subtracted from the lists).  *)
(***************************************************************************)
TesterAgreesElsewhere ==
    \A q \in Names :
        (\A n \in {q} \cup Above[q] : ~MixedReach(n) /\ ~ListedBelowRewrite(n))
            => EvaluateDomain(q) = Answer(q)

(***************************************************************************)
(* validate_allow_domains refuses a deploy only for "a structural mismatch *)
(* between the allow rule and the compiled policy": no combination of      *)
(* rules and lists compiles into one, so that the check never refuses.     *)
(***************************************************************************)
AllowCheckAccepts ==
    \A n \in Names :
        (Allow(n) # {} \/ n \in Listed("allows"))
            => n \notin Subtracted /\ AllowRepresented(n)
=============================================================================
