------------------------------- MODULE Tasks --------------------------------
(***************************************************************************)
(* The tasks of TASK_REGISTRY (tasks.py) that decide something: parse_text *)
(* chunks its text (module Chunking) and classify_with_llm resolves a      *)
(* category, by a mocked response, by an LLM (internal/vendor_core/llm.py) *)
(* or offline.  send_notification and always_fail have no state.           *)
(***************************************************************************)
EXTENDS Chunking

CONSTANTS
    Alphabet,       \* the labels in the order of their strings, no "" ...
    LabelLists,     \* ... the sequences of them in params ...
    OtherText,      \* ... and an answer that is none of them
    MaxHits,        \* bound on the occurrences of a label in the text
    None            \* no value

AllLabels == {Alphabet[k] : k \in DOMAIN Alphabet}

ASSUME TasksAssumption ==
    /\ Alphabet \in Seq(AllLabels)
    /\ LabelLists \subseteq Seq(AllLabels)
    /\ MaxHits \in Nat
    /\ OtherText \notin AllLabels
    /\ None \notin AllLabels \cup {OtherText, "mock", "llm", "sim"}

Providers == {"openai", "anthropic"}

\* What a call of an LLM meets: the provider of the model asked for, the
\* providers of which the process has a key and an SDK, whether the thread
\* runs an event loop, and what the provider does.  A step that is executed
\* sequentially by trigger_webhook is on the event loop.
World == [asked : Providers, keys : SUBSET Providers, sdks : SUBSET Providers,
          onLoop : BOOLEAN, does : {"reply", "reply nothing", "fail"}]

VARIABLES
    task,
    labels,
    hits,           \* how often the text has each label
    mocked,         \* mocked_response
    world,
    stage,          \* of classify_with_llm: "resolve", "sim", "answered"
    source,
    category

classifying == <<labels, hits, mocked, world, stage, source, category>>
vars == <<chunking, task, classifying>>

Listed == {labels[k] : k \in DOMAIN labels}

\* One task is called, the other one is out of the picture.
Init ==
    \/ /\ task = "parse_text"
       /\ ChunkInit
       /\ labels = <<>> /\ mocked = None /\ stage = "answered"
       /\ hits = [l \in AllLabels |-> 0]
       /\ world \in {w \in World : w.keys = {} /\ w.sdks = {} /\ w.onLoop
                                   /\ w.does = "fail" /\ w.asked = "openai"}
       /\ source = None /\ category = None
    \/ /\ task = "classify_with_llm"
       /\ ChunkInit /\ pieces = <<>> /\ call = CHOOSE c \in Calls : TRUE
       /\ labels \in LabelLists
       /\ hits \in [AllLabels -> 0 .. MaxHits]
       /\ mocked \in AllLabels \cup {OtherText, None}
       /\ world \in World
       /\ stage = "resolve"
       /\ source = None /\ category = None

Answer(src, cat) ==
    /\ source' = src
    /\ category' = cat
    /\ stage' = "answered"
    /\ UNCHANGED <<chunking, task, labels, hits, mocked, world>>

Fallback ==
    /\ stage' = "sim"
    /\ UNCHANGED <<chunking, task, labels, hits, mocked, world, source, category>>

Mock ==
    /\ stage = "resolve"
    /\ mocked # None
    /\ Answer("mock", mocked)

NoKey ==
    /\ stage = "resolve"
    /\ mocked = None
    /\ world.keys = {}
    /\ Fallback

\* The call gives a first line.  asyncio.run raises in a running event loop,
\* the generator without its SDK, the client without its key, [0] when there
\* is no line; whatever is raised is caught.
Replies ==
    /\ ~world.onLoop
    /\ world.asked \in world.sdks
    /\ world.asked \in world.keys
    /\ world.does = "reply"

\* Faulty variant of CallLlm: only ImportError is caught.
CallLlmImportOnly ==
    /\ stage = "resolve"
    /\ mocked = None
    /\ world.keys # {}
    /\ \/ Replies /\ \E cat \in AllLabels \cup {OtherText} : Answer("llm", cat)
       \/ world.asked \notin world.sdks /\ Fallback

\* The first line of the reply, whatever it says.
CallLlm ==
    /\ stage = "resolve"
    /\ mocked = None
    /\ world.keys # {}
    /\ \/ Replies /\ \E cat \in AllLabels \cup {OtherText} : Answer("llm", cat)
       \/ ~Replies /\ Fallback

Rank(l) == CHOOSE k \in DOMAIN Alphabet : Alphabet[k] = l

\* Faulty variant of Before: only ties are broken.
BeforeByName(k, l) == Rank(k) > Rank(l)

\* The order of sorted(..., reverse=True).
Before(k, l) == hits[k] > hits[l] \/ (hits[k] = hits[l] /\ Rank(k) > Rank(l))

Best == CHOOSE k \in Listed : \A l \in Listed \ {k} : Before(k, l)

\* _simulate_classification.  Without any signal the hash of the text picks
\* a label.
Simulate ==
    /\ stage = "sim"
    /\ \/ labels = <<>> /\ Answer("sim", "uncategorized")
       \/ /\ labels # <<>>
          /\ IF hits[Best] = 0 THEN \E k \in DOMAIN labels : Answer("sim", labels[k])
                               ELSE Answer("sim", Best)

Classify == Mock \/ NoKey \/ CallLlm \/ Simulate

Next ==
    \/ Classify
    \/ ChunkNext /\ task = "parse_text" /\ UNCHANGED <<task, classifying>>

\* A task is a sequential program.
Spec == Init /\ [][Next]_vars /\ WF_vars(Next)

-----------------------------------------------------------------------------
(* Properties.                                                              *)

\* The variables have the shape the two tasks give them.
TypeOK ==
    /\ ChunkTypeOK
    /\ task \in {"parse_text", "classify_with_llm"}
    /\ labels \in LabelLists \cup {<<>>}
    /\ hits \in [AllLabels -> 0 .. MaxHits]
    /\ mocked \in AllLabels \cup {OtherText, None}
    /\ world \in World
    /\ stage \in {"resolve", "sim", "answered"}
    /\ source \in {None, "mock", "llm", "sim"}
    /\ category \in AllLabels \cup {None, OtherText, "uncategorized"}

\* The offline classifier gives one of the labels, and none of the others
\* is in the text more often.  If any is in it, the answer does not depend
\* on the order in which the labels are listed.
SimulatedBest ==
    source = "sim" /\ labels # <<>> =>
        /\ category \in Listed
        /\ \A l \in Listed \ {category} :
              \/ hits[l] < hits[category]
              \/ hits[l] = hits[category]
                 /\ (hits[l] = 0 \/ Rank(l) < Rank(category))

\* Whatever fails in the call of the LLM - no SDK, no key of that provider,
\* a thread that runs an event loop, an error, an empty reply - the task
\* answers.
Answers == <>(stage = "answered")

\* Both tasks come to an end.
Finishes == Ends /\ Answers
=============================================================================
