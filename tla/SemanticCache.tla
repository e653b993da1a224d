----------------------------- MODULE SemanticCache -----------------------------
(***************************************************************************)
(* The semantic cache (semantic_cache.py) and the part of _handle_chat     *)
(* that uses it: a request whose prompt resembles an earlier one may be    *)
(* given the earlier answer.                                               *)
(*                                                                         *)
(* A question is what the cache knows of a request: the bucket it hashes   *)
(* its parameters to, its embedding, and the marks (numbers, negations) of *)
(* its text.  Embeddings of one dimension resemble each other to a degree. *)
(***************************************************************************)
EXTENDS Integers, Sequences

CONSTANTS
  Askers,         \* requests
  Questions,      \* records: bucket, dim, vec, marks
  Resemblance,    \* _similarity of two embeddings of one dimension
  MinSimilarity,  \* semantic_cache_threshold
  VerifyMin,      \* semantic_cache_verify_min_similarity
  EntryTTL,       \* cache_ttl_seconds; 0 stores nothing
  Sizes,          \* values of semantic_cache_max_entries
  EndOfClock      \* bound: how far the clock goes

ASSUME SemanticAssumption ==
  /\ MinSimilarity \in Int /\ VerifyMin \in Int /\ EntryTTL \in Nat
  /\ Sizes \subseteq Nat /\ EndOfClock \in Nat
  /\ \A p, q \in Questions : p.dim = q.dim => Resemblance[<<p.vec, q.vec>>] \in Int

VARIABLES
  verifying,    \* semantic_cache_verify_enabled
  entries,      \* _entries, oldest first
  maxlen,       \* _entries.maxlen
  moment,       \* time.time()
  stage,        \* where each request is
  question,     \* what each asks
  embedded,     \* sem_embedding is not None
  candidate,    \* the hit to be verified
  given         \* what each was given: the question its answer was made for

semanticVars ==
  <<verifying, entries, maxlen, moment, stage, question, embedded, candidate, given>>

NoGift == [made |-> [bucket |-> "none"], verified |-> FALSE, from |-> "nowhere"]

SemanticInit ==
  /\ verifying \in BOOLEAN
  /\ entries = <<>>
  /\ maxlen \in Sizes
  /\ moment = 0
  /\ stage = [r \in Askers |-> "new"]
  /\ question \in [Askers -> Questions]
  /\ embedded = [r \in Askers |-> FALSE]
  /\ candidate = [r \in Askers |-> NoGift]
  /\ given = [r \in Askers |-> NoGift]

-----------------------------------------------------------------------------
(* The store *)

Alike(p, q) == IF p.dim = q.dim THEN Resemblance[<<p.vec, q.vec>>] ELSE 0

\* Variant: the numbers and negations are not compared.
ComparableLoosely(e, q) ==
  e.asked.bucket = q.bucket /\ e.expires > moment /\ e.asked.dim = q.dim

\* May the entry answer the question at all?
Comparable(e, q) ==
  /\ e.asked.bucket = q.bucket
  /\ e.expires > moment
  /\ e.asked.marks = q.marks
  /\ e.asked.dim = q.dim

\* With verification off nothing below the threshold is a candidate.
Floor == IF verifying /\ VerifyMin < MinSimilarity THEN VerifyMin ELSE MinSimilarity

\* find: the closest entry that may answer, the newest of those as close.
Find(q) ==
  LET fit == {i \in DOMAIN entries :
                Comparable(entries[i], q) /\ Alike(entries[i].asked, q) >= Floor}
      Behind(i, j) ==
        \/ Alike(entries[i].asked, q) < Alike(entries[j].asked, q)
        \/ Alike(entries[i].asked, q) = Alike(entries[j].asked, q) /\ i <= j
  IN {entries[j] : j \in {k \in fit : \A i \in fit : Behind(i, k)}}

\* The newest n of a sequence: what a deque of that length keeps.
Newest(s, n) == IF Len(s) > n THEN SubSeq(s, Len(s) - n + 1, Len(s)) ELSE s

Stored(q, made) ==
  IF EntryTTL = 0 THEN entries
  ELSE Newest(Append(entries, [asked |-> q, made |-> made, expires |-> moment + EntryTTL]), maxlen)

\* create_app applies the configured size; a size of 0 keeps nothing.
Resize(n) ==
  /\ n # maxlen
  /\ maxlen' = n
  /\ entries' = Newest(entries, n)
  /\ UNCHANGED <<verifying, moment, stage, question, embedded, candidate, given>>

Clear ==
  /\ entries # <<>>
  /\ entries' = <<>>
  /\ UNCHANGED <<verifying, maxlen, moment, stage, question, embedded, candidate, given>>

-----------------------------------------------------------------------------
(* A request *)

Move(r, s) == stage' = [stage EXCEPT ![r] = s]
Give(r, made, verified, from) ==
  given' = [given EXCEPT ![r] = [made |-> made, verified |-> verified, from |-> from]]

\* The cache is asked, unless it is off, the request opts out, or its history has
\* blocks that the embedding never sees.
Ask(r) ==
  /\ stage[r] = "new"
  /\ Move(r, "embedding") \/ Move(r, "upstream")
  /\ UNCHANGED <<verifying, entries, maxlen, moment, question, embedded, candidate, given>>

\* No provider, a ProviderError, or no vector: the cache is not used.
EmbedFails(r) ==
  /\ stage[r] = "embedding"
  /\ Move(r, "upstream")
  /\ UNCHANGED <<verifying, entries, maxlen, moment, question, embedded, candidate, given>>

\* The embedding is there, and the look-up follows with no await between.
Embedded(r) ==
  LET hits == Find(question[r])
  IN /\ stage[r] = "embedding"
     /\ embedded' = [embedded EXCEPT ![r] = TRUE]
     /\ \/ /\ hits = {}
           /\ Move(r, "upstream") /\ UNCHANGED <<candidate, given>>
        \/ \E e \in hits :
             \/ /\ Alike(e.asked, question[r]) >= MinSimilarity
                /\ Give(r, e.made, FALSE, "semantic") /\ Move(r, "done")
                /\ UNCHANGED candidate
             \/ /\ Alike(e.asked, question[r]) < MinSimilarity
                /\ candidate' = [candidate EXCEPT ![r] = e]
                /\ Move(r, "verifying") /\ UNCHANGED given
     /\ UNCHANGED <<verifying, entries, maxlen, moment, question>>

\* The provider says yes: the candidate is served, as it was when it was found.
Verified(r) ==
  /\ stage[r] = "verifying"
  /\ Give(r, candidate[r].made, TRUE, "semantic")
  /\ Move(r, "done")
  /\ UNCHANGED <<verifying, entries, maxlen, moment, question, embedded, candidate>>

\* It says anything else, or fails.
NotVerified(r) ==
  /\ stage[r] = "verifying"
  /\ Move(r, "upstream")
  /\ UNCHANGED <<verifying, entries, maxlen, moment, question, embedded, candidate, given>>

\* The chain of providers answers, or the exact cache does.
Answer(r) ==
  /\ stage[r] = "upstream"
  /\ \E from \in {"upstream", "exact"} :
       /\ Give(r, question[r], FALSE, from)
       /\ Move(r, IF from = "upstream" THEN "storing" ELSE "done")
  /\ UNCHANGED <<verifying, entries, maxlen, moment, question, embedded, candidate>>

\* The chain fails, or the embedding or the verification raises what no one catches.
NoAnswer(r) ==
  /\ stage[r] \in {"embedding", "verifying", "upstream"}
  /\ Move(r, "done")
  /\ UNCHANGED <<verifying, entries, maxlen, moment, question, embedded, candidate, given>>

\* After the exact cache is written: only a fresh answer is stored, for its own question.
Add(r) ==
  /\ stage[r] = "storing"
  /\ entries' = IF embedded[r] THEN Stored(question[r], question[r]) ELSE entries
  /\ Move(r, "done")
  /\ UNCHANGED <<verifying, maxlen, moment, question, embedded, candidate, given>>

Elapse ==
  /\ moment < EndOfClock
  /\ moment' = moment + 1
  /\ UNCHANGED <<verifying, entries, maxlen, stage, question, embedded, candidate, given>>

SemanticNext ==
  \/ \E r \in Askers :
       \/ Ask(r) \/ EmbedFails(r) \/ Embedded(r) \/ Verified(r) \/ NotVerified(r)
       \/ Answer(r) \/ NoAnswer(r) \/ Add(r)
  \/ \E n \in Sizes : Resize(n)
  \/ Clear \/ Elapse

SemanticSpec == SemanticInit /\ [][SemanticNext]_semanticVars

-----------------------------------------------------------------------------
(* Correctness *)

\* Whatever a request is given was made for a question of its own bucket (so of its own
\* client) and marks, and of an embedding that resembles its own enough, by itself or
\* with the provider's word for it; and answers do not drift, from one question to a
\* similar one and on to the next, for the first answer would then be given to
\* questions that are far from the one it was made for.
AnswersTheQuestion ==
  \A r \in Askers : given[r].from # "nowhere" =>
    LET made == given[r].made
        q == question[r]
        alike == Alike(made, q)
    IN /\ made.bucket = q.bucket /\ made.marks = q.marks /\ made.dim = q.dim
       /\ IF given[r].from # "semantic" THEN made = q
          ELSE alike >= MinSimilarity \/ (verifying /\ given[r].verified /\ alike >= VerifyMin)
=============================================================================
