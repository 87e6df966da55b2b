----------------------------- MODULE StoryKeys -----------------------------
(* How the story automator finds a story: one story is spelled 1.2, 1-2 or  *)
(* 1-2-slug, in sprint-status.yaml, in the names of the story files, in the *)
(* epic file and in a state document's storyRange, and each command looks   *)
(* it up in its own way (core/story_keys.py, core/sprint.py, commands/      *)
(* orchestrator_epic_agents.py).  The module says what each of them         *)
(* answers, over every small project, and that the answers fit together.    *)
EXTENDS Naturals, Sequences, FiniteSets

CONSTANTS
    Nums,      \* numbers of the stories of the epic
    Slugs,     \* slugs, numbered in the order of their texts; 0 stands for none
    Within,    \* pairs <<m, n>>: the text of story m is part of the text of story n
    MaxLines   \* bound: lines of sprint-status.yaml

ASSUME KeysAssumption ==
    /\ Nums \subseteq Nat /\ Slugs \subseteq Nat \ {0} /\ MaxLines \in Nat
    /\ Within \subseteq Nums \X Nums /\ \A n \in Nums : <<n, n>> \in Within

\* A spelling: its form, the story and the slug (0 unless the form is "key").
Spelling == [form : {"id", "prefix"}, num : Nums, slug : {0}] \cup
            [form : {"key"}, num : Nums, slug : Slugs]
Id(n) == [form |-> "id", num |-> n, slug |-> 0]
Prefix(n) == [form |-> "prefix", num |-> n, slug |-> 0]
SprintLine == [key : Spelling, done : BOOLEAN]
StoryFile == Nums \X Slugs
Mention == [form : {"id", "prefix"}, num : Nums]   \* on a Dependencies line

VARIABLE book   \* the project: what was asked about it, and its files

keyVars == <<book>>

First(s, P(_)) ==   \* the first element with P, as a sequence of at most one
    LET hits == {i \in DOMAIN s : P(s[i])}
    IN  IF hits = {} THEN <<>> ELSE <<s[CHOOSE i \in hits : \A j \in hits : i <= j]>>

-----------------------------------------------------------------------------
\* normalize_story_key: a key keeps its slug; otherwise the first story file
\* gives it, then the first line of the sprint file, else there is none.
NormalizeStoryKey(v) ==
    LET slugs == {f[2] : f \in {g \in book.files : g[1] = v.num}}
        line  == First(book.sprint, LAMBDA l : l.key.form = "key" /\ l.key.num = v.num)
        key   == IF v.form = "key" THEN v
                 ELSE IF slugs # {}
                 THEN [form |-> "key", num |-> v.num,
                       slug |-> CHOOSE s \in slugs : \A x \in slugs : s <= x]
                 ELSE IF line # <<>> THEN line[1].key ELSE Prefix(v.num)
    IN  [id |-> Id(v.num), prefix |-> Prefix(v.num), key |-> key]

\* sprint_status_get: the line of this spelling, else the first line of the
\* story that has a slug; <<>> if there is neither.
SprintStatusGet(v) ==
    LET exact == First(book.sprint, LAMBDA l : l.key = v)
        loose == First(book.sprint, LAMBDA l : l.key.form = "key" /\ l.key.num = v.num)
    IN  IF exact # <<>> THEN exact ELSE loose
Done(v) == SprintStatusGet(v) # <<>> /\ SprintStatusGet(v)[1].done

\* sprint_status_epic: the spellings in the file, each with its first line.
SprintStatusEpic == {book.sprint[i].key : i \in DOMAIN book.sprint}
FirstDone(k) == First(book.sprint, LAMBDA l : l.key = k)[1].done

\* sprint-status check-epic
AllStoriesDone == SprintStatusEpic # {} /\ \A k \in SprintStatusEpic : FirstDone(k)

\* sprint-compare: only the spelling of the storyRange counts.
EpicIncomplete(before) ==
    {n \in before : LET l == First(book.sprint, LAMBDA x : x.key = Id(n))
                    IN  l = <<>> \/ ~l[1].done}

\* commit-ready
CommitReady(v, dirty) == Done(v) /\ dirty

\* story-file-status: the slug of the first of the story's files, if there is
\* one; it does not ask the sprint file.
StoryFileStatus(v) ==
    LET slugs == {s \in Slugs : <<v.num, s>> \in book.files}
    IN  IF slugs = {} THEN <<>> ELSE <<CHOOSE s \in slugs : \A x \in slugs : s <= x>>

-----------------------------------------------------------------------------
\* The story or stories of S with the highest number.
LastIn(S) == {k \in S : \A x \in S : x.num <= k.num}

\* check-epic-complete: the stories come from the state document if there is
\* one, else from the sprint file; "true" if this may be the answer.  A story
\* with a slug is compared with its dashes turned into dots.
IsLastStory(n) ==
    LET stories == IF book.state THEN {Id(m) : m \in book.range} ELSE SprintStatusEpic
    IN  /\ stories # {}
        /\ \E k \in LastIn(stories) : k.num = n /\ k.form # "key"

\* get-epic-stories: the state document's, else the sprint file's, else those
\* of the epic file.
EpicStories ==
    IF book.state /\ book.range # {} THEN book.range
    ELSE IF SprintStatusEpic # {} THEN {k.num : k \in SprintStatusEpic}
    ELSE IF book.epic THEN Nums ELSE {}

-----------------------------------------------------------------------------
\* Fault: a dependency written with dashes is not seen.
Dependents_IdOnly(n) ==
    {m \in Nums : \E d \in book.deps[m] : <<n, d.num>> \in Within /\ d.form = "id"}

\* check-blocking: the stories of the epic file whose Dependencies line holds
\* the text of the story's id or prefix.
Dependents(n) == {m \in Nums : \E d \in book.deps[m] : <<n, d.num>> \in Within}

\* Without an epic file every story counts as blocking.
Blocking(n) == ~book.epic \/ Dependents(n) # {}

-----------------------------------------------------------------------------
NoBook == [pc |-> "idle", sprint |-> <<>>, files |-> {}, state |-> FALSE, range |-> {},
           epic |-> FALSE, deps |-> [n \in Nums |-> {}]]

AskStatus ==
    /\ book.pc = "idle"
    /\ \E n \in 0 .. MaxLines : \E s \in [1 .. n -> SprintLine], f \in SUBSET StoryFile :
         book' = [NoBook EXCEPT !.pc = "status", !.sprint = s, !.files = f]

AskLast ==
    /\ book.pc = "idle"
    /\ \E n \in 0 .. MaxLines : \E s \in [1 .. n -> SprintLine], st, e \in BOOLEAN, r \in SUBSET Nums :
         book' = [NoBook EXCEPT !.pc = "last", !.sprint = s, !.state = st, !.range = r, !.epic = e]

AskBlocking ==
    /\ book.pc = "idle"
    /\ \E e \in BOOLEAN, d \in [Nums -> {{}} \cup {{x} : x \in Mention}] :
         book' = [NoBook EXCEPT !.pc = "blocking", !.epic = e, !.deps = d]

KeysInit == book = NoBook
KeysNext == AskStatus \/ AskLast \/ AskBlocking
KeysSpec == KeysInit /\ [][KeysNext]_keyVars

-----------------------------------------------------------------------------
(* The commands agree on a story whatever its spelling: normalising again   *)
(* changes nothing, a story is done (and ready to be committed) only if a   *)
(* line of this very story says so, and an epic that check-epic calls done  *)
(* or a story sprint-compare calls complete is done for sprint-status get,  *)
(* unless its line is spelled with dashes and has no slug.                  *)
StatusAgrees ==
    book.pc = "status" =>
        /\ \A v \in Spelling : NormalizeStoryKey(NormalizeStoryKey(v).key) = NormalizeStoryKey(v)
        /\ \A v \in Spelling : v.form # "key" /\ StoryFileStatus(v) # <<>> =>
             NormalizeStoryKey(v).key = [form |-> "key", num |-> v.num, slug |-> StoryFileStatus(v)[1]]
        /\ \A v \in Spelling : CommitReady(v, TRUE) =>
             \E i \in DOMAIN book.sprint : book.sprint[i].key.num = v.num /\ book.sprint[i].done
        /\ AllStoriesDone => \A k \in SprintStatusEpic : k.form # "prefix" => Done(Id(k.num))
        /\ \A n \in Nums \ EpicIncomplete(Nums) : Done(Id(n))

(* check-epic-complete never calls a story the last one while a later story *)
(* is listed, finds it if a state document is there, and get-epic-stories   *)
(* lists it.                                                                *)
LastIsLast ==
    book.pc = "last" => \A n \in Nums :
        /\ IsLastStory(n) => n \in EpicStories /\ \A m \in EpicStories : m <= n
        /\ book.state /\ n \in book.range /\ (\A m \in book.range : m <= n) => IsLastStory(n)

(* A story that another one depends on is never reported as safe to skip,   *)
(* however the dependency is spelled.                                       *)
BlockingIsSafe ==
    book.pc = "blocking" =>
        \A n \in Nums : (\E m \in Nums, d \in UNION {book.deps[x] : x \in Nums} :
                            d \in book.deps[m] /\ d.num = n) => Blocking(n)

(* The readers of story keys agree on which story a key means, whatever its *)
(* form, and on its place in the epic.                                      *)
KeysAgree == StatusAgrees /\ LastIsLast /\ BlockingIsSafe
=============================================================================
