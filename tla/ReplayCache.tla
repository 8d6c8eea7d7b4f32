---------------------------- MODULE ReplayCache -----------------------------
(***************************************************************************)
(* The replay cache of one client for one peer: how e2ee_client.py         *)
(* classifies the token of an envelope it has decrypted, how the cache is  *)
(* trimmed, saved and loaded (client/state.py), and the two callers in     *)
(* cli.py, which differ in the order of saving and printing: a pushed      *)
(* message is printed and then saved, a page of history is saved and then  *)
(* printed.                                                                *)
(*                                                                         *)
(* The thread that reads commands and the WebSocket threads share the      *)
(* cache without a lock, so that a call may be passed by another between   *)
(* its lookups, its insertion and its trimming, and a save by another save *)
(* between its merge and its rename.  What the file holds after two saves  *)
(* have overlapped is one of the outcomes that the steps of ClientState    *)
(* have.  What the server stores under an id (TokenOf) is external: it may *)
(* store an envelope a second time under another id, and push a message    *)
(* any number of times.                                                    *)
(***************************************************************************)
EXTENDS Naturals, FiniteSets, Functions

CONSTANTS Browsers,    \* threads that run the commands open and more
          Listeners,   \* WebSocket threads
          MessageIds,
          Tokens,
          NoToken,     \* a legacy (v1) envelope has none
          TokenOf,     \* the token of the envelope stored under an id
          MaxEntries,  \* MAX_REPLAY_CACHE_ENTRIES_PER_PEER
          Watched,     \* an id, whichever it is, whose rendering is followed
          Pages,       \* bound: the pages of history, or pushes, that a thread may be given
          MaxClock     \* bound: the clock stops here

Threads == Browsers \cup Listeners

ASSUME ReplayAssumption ==
    /\ Browsers \cap Listeners = {}
    /\ MessageIds \subseteq Nat
    /\ NoToken \notin Tokens
    /\ IsFiniteSet(Tokens)
    /\ TokenOf \in [MessageIds -> Tokens \cup {NoToken}]
    /\ Watched \in MessageIds
    /\ Pages \in [Threads -> SUBSET SUBSET MessageIds]
    /\ \A t \in Listeners : \A page \in Pages[t] : Cardinality(page) = 1
    /\ MaxEntries \in Nat \ {0} /\ MaxClock \in Nat

VARIABLES cache,   \* replay_cache[local][peer] in memory
          disk,    \* the same in client_state.json
          task,    \* what each thread is doing
          dropped, \* threads whose entry has left the cache since they looked it up
          saves,   \* the save of each thread that has one between merge and rename
          clock,   \* of _utcnow
          fate,    \* history: whether the text of Watched was printed, or cut short
          passed,  \* history: ids let through for a token since it was last forgotten
          raced,   \* history: tokens that two calls changed at the same time
          seenAt,  \* history: when a token was last met by this process ...
          savedAt  \* ... and what of that a process started from the file counts as met

met == <<passed, raced, seenAt>>
saved == <<disk, saves, savedAt>>
history == <<fate, met, savedAt>>
replayVars == <<cache, disk, task, dropped, saves, clock, history>>

Entries == [mid : MessageIds, seen : Nat]
\* page: ids still to render; texts: ids rendered in the clear, not yet printed;
\* victim: the entry a trim has chosen.
Steps == {"render", "pass", "ignore", "record", "trim", "delete", "show", "save", "write"}
Fates == {"unseen", "cut", "shown"}
Tasks == [step : Steps, page : SUBSET MessageIds, texts : SUBSET MessageIds,
          victim : Tokens \cup {NoToken}]
Idle == [step |-> "idle", page |-> {}, texts |-> {}, victim |-> NoToken]

Nothing == [tok \in {} |-> 0]
\* A save: what it has merged, whether no other has overlapped it, and if so the history
\* of what it has merged.
NoSave == [doc |-> Nothing, stamps |-> Nothing, alone |-> TRUE]

-----------------------------------------------------------------------------
(* The cache *)

At(t, step) == task[t].step = step

\* Entries are ordered by (last_seen_at, message_id).
Older(e, f) == e.seen < f.seen \/ (e.seen = f.seen /\ e.mid < f.mid)

\* Mutant: the trim drops what was seen last.
NewestToken(entries) ==
    CHOOSE tok \in DOMAIN entries :
        \A other \in DOMAIN entries : ~Older(entries[tok], entries[other])

OldestToken(entries) ==
    CHOOSE tok \in DOMAIN entries :
        \A other \in DOMAIN entries : ~Older(entries[other], entries[tok])

\* _trim_replay_cache of the save: sorted from the newest, cut after MaxEntries.
Trimmed(entries) ==
    Restrict(entries, {tok \in DOMAIN entries :
        Cardinality({other \in DOMAIN entries : Older(entries[tok], entries[other])})
            < MaxEntries})

\* _merge_dicts: memory overrides what the file says of a token.
Merged == [tok \in DOMAIN disk \cup DOMAIN cache |->
              IF tok \in DOMAIN cache THEN cache[tok] ELSE disk[tok]]

With(entries, tok, entry) ==
    [other \in DOMAIN entries \cup {tok} |-> IF other = tok THEN entry ELSE entries[other]]

\* Another thread is about to change the number of entries, under an iteration.
Changing(t) == \E u \in Threads \ {t} : task[u].step \in {"record", "delete"}

\* The token is one another thread has chosen to drop.
Doomed(t, tok) == \E u \in Threads \ {t} : At(u, "delete") /\ task[u].victim = tok

-----------------------------------------------------------------------------
(* Rendering: decrypt_message_for_user for each id of the page, in order. *)

\* The rows of a page come oldest first; a push is a page of one.
IdOf(t) == CHOOSE id \in task[t].page : \A other \in task[t].page : id <= other
Token(t) == TokenOf[IdOf(t)]
Rendering(t) == At(t, "render") /\ task[t].page # {}

\* The ids a call has recorded or looked up and has yet to print.
TakenUp(t) ==
    task[t].texts \cup (IF task[t].step \in {"trim", "delete"} THEN {IdOf(t)} ELSE {})
InHand == UNION {TakenUp(t) : t \in Threads}

\* A call has looked up an entry whose last_seen_at it has yet to set.
Holding(t) == task[t].step \in {"pass", "ignore"}
Holders(tok) == {t \in Threads : Holding(t) /\ Token(t) = tok}

\* An exception or the end of the process stops the rendering of these.
CutShort(ids) == fate' = IF Watched \in ids /\ fate = "unseen" THEN "cut" ELSE fate

Pass(t, id) ==
    task' = [task EXCEPT ![t] = [task[t] EXCEPT !.step = "render",
                                                !.page = task[t].page \ {id},
                                                !.texts = task[t].texts \cup {id}]]
\* A notice is printed in place of the text.
Notice(t, id) ==
    task' = [task EXCEPT ![t] = [task[t] EXCEPT !.step = "render", !.victim = NoToken,
                                                !.page = task[t].page \ {id}]]

\* A new_message event, or a page of open or more.
Begin(t, page) ==
    /\ At(t, "idle")
    /\ task' = [task EXCEPT ![t] = [Idle EXCEPT !.step = "render", !.page = page]]
    /\ UNCHANGED <<cache, dropped, saved, clock, fate, met>>

\* Mutant: the token is recorded before the envelope is known to be readable.
UnreadableRecorded(t) ==
    /\ Rendering(t)
    /\ Notice(t, IdOf(t))
    /\ Token(t) \in Tokens
    /\ cache' = With(cache, Token(t), [mid |-> IdOf(t), seen |-> clock])
    /\ UNCHANGED <<dropped, saved, clock, fate, met>>

\* The peer is not trusted, or decryption fails: the token is not looked at.
Unreadable(t) ==
    /\ Rendering(t)
    /\ Notice(t, IdOf(t))
    /\ UNCHANGED <<cache, dropped, saved, clock, fate, met>>

Legacy(t) ==
    /\ Rendering(t)
    /\ Token(t) = NoToken
    /\ Pass(t, IdOf(t))
    /\ UNCHANGED <<cache, dropped, saved, clock, fate, met>>

\* Mutant: the id the token came with first is not compared.
KnownAnyId(t) ==
    /\ Rendering(t)
    /\ Token(t) \in DOMAIN cache
    /\ task' = [task EXCEPT ![t].step = IF t \in Browsers THEN "pass" ELSE "ignore"]
    /\ UNCHANGED <<cache, dropped, saved, clock, fate, met>>

\* The token is in the cache: under another id it is a replay, under the same id a
\* duplicate delivery, which only history shows.
Known(t) ==
    /\ Rendering(t)
    /\ Token(t) \in DOMAIN cache
    /\ task' = [task EXCEPT ![t].step =
                   IF cache[Token(t)].mid = IdOf(t) /\ t \in Browsers THEN "pass" ELSE "ignore"]
    /\ UNCHANGED <<cache, dropped, saved, clock, fate, met>>

\* last_seen_at is set in the entry that was looked up, be it in the cache still or not.
Touch(t) ==
    /\ Holding(t)
    /\ cache' = IF t \in dropped THEN cache ELSE [cache EXCEPT ![Token(t)].seen = clock]
    /\ IF At(t, "pass") THEN Pass(t, IdOf(t)) /\ passed' = passed \cup {IdOf(t)}
       ELSE Notice(t, IdOf(t)) /\ UNCHANGED passed
    /\ dropped' = dropped \ {t}
    /\ seenAt' = With(seenAt, Token(t), clock)
    /\ raced' = IF Doomed(t, Token(t)) THEN raced \cup {Token(t)} ELSE raced
    /\ UNCHANGED <<saved, clock, fate>>

\* Mutant: an envelope without a token is recorded too.
NewAny(t) ==
    /\ Rendering(t)
    /\ Token(t) \notin DOMAIN cache
    /\ task' = [task EXCEPT ![t].step = "record"]
    /\ UNCHANGED <<cache, dropped, saved, clock, fate, met>>

New(t) ==
    /\ Rendering(t)
    /\ Token(t) \in Tokens \ DOMAIN cache
    /\ task' = [task EXCEPT ![t].step = "record"]
    /\ UNCHANGED <<cache, dropped, saved, clock, fate, met>>

\* _record_replay_token looks again.  If another call was faster, this one only sets
\* last_seen_at; if it was faster between that lookup and the insertion, its entry is
\* replaced.  The message is shown all the same.
Record(t) ==
    /\ At(t, "record")
    /\ LET tok == Token(t)
           there == tok \in DOMAIN cache
       IN  /\ \/ /\ there
                 /\ cache' = [cache EXCEPT ![tok].seen = clock]
                 /\ Pass(t, IdOf(t))
                 /\ UNCHANGED dropped
              \/ /\ cache' = With(cache, tok, [mid |-> IdOf(t), seen |-> clock])
                 /\ task' = [task EXCEPT ![t].step = "trim"]
                 /\ dropped' = dropped \cup Holders(tok)
           /\ seenAt' = With(seenAt, tok, clock)
           /\ raced' = IF there \/ Doomed(t, tok) THEN raced \cup {tok} ELSE raced
    /\ passed' = passed \cup {IdOf(t)}
    /\ UNCHANGED <<saved, clock, fate>>

\* _trim_peer_replay_cache.
TrimDone(t) ==
    /\ At(t, "trim")
    /\ Cardinality(DOMAIN cache) <= MaxEntries
    /\ Pass(t, IdOf(t))
    /\ UNCHANGED <<cache, dropped, saved, clock, fate, met>>

TrimChoose(t) ==
    /\ At(t, "trim")
    /\ Cardinality(DOMAIN cache) > MaxEntries
    /\ task' = [task EXCEPT ![t] = [task[t] EXCEPT !.step = "delete",
                                                !.victim = OldestToken(cache)]]
    /\ UNCHANGED <<cache, dropped, saved, clock, fate, met>>

\* RuntimeError: the dictionary changed size during iteration.
TrimFails(t) ==
    /\ At(t, "trim")
    /\ Cardinality(DOMAIN cache) > MaxEntries
    /\ Changing(t)
    /\ Notice(t, IdOf(t))
    /\ CutShort({IdOf(t)})
    /\ UNCHANGED <<cache, dropped, saved, clock, met>>

TrimDelete(t) ==
    /\ At(t, "delete")
    /\ LET victim == task[t].victim
       IN  /\ victim \in DOMAIN cache
           /\ cache' = Restrict(cache, DOMAIN cache \ {victim})
           /\ passed' = {id \in passed : TokenOf[id] # victim}
           /\ dropped' = dropped \cup Holders(victim)
           /\ raced' = IF Holders(victim) = {} THEN raced ELSE raced \cup {victim}
    /\ task' = [task EXCEPT ![t] = [task[t] EXCEPT !.step = "trim", !.victim = NoToken]]
    /\ UNCHANGED <<saved, clock, fate, seenAt>>

\* KeyError: another trim has dropped the entry.
TrimMissed(t) ==
    /\ At(t, "delete")
    /\ task[t].victim \notin DOMAIN cache
    /\ Notice(t, IdOf(t))
    /\ CutShort({IdOf(t)})
    /\ UNCHANGED <<cache, dropped, saved, clock, met>>

-----------------------------------------------------------------------------
(* Printing and saving *)

\* _handle_event prints and then saves; _pull_conversation_page saves and then prints.
AllRendered(t) == At(t, "render") /\ task[t].page = {}
ToShow(t) == IF t \in Listeners THEN AllRendered(t) ELSE At(t, "show")
ToSave(t) == IF t \in Browsers THEN AllRendered(t) ELSE At(t, "save")

Show(t) ==
    /\ ToShow(t)
    /\ fate' = IF Watched \in task[t].texts THEN "shown" ELSE fate
    /\ task' = [task EXCEPT ![t] = IF t \in Listeners
                                   THEN [task[t] EXCEPT !.step = "save", !.texts = {}]
                                   ELSE Idle]
    /\ UNCHANGED <<cache, dropped, saved, clock, met>>

\* A save reads the file and merges ...
SaveMerges(t) ==
    /\ ToSave(t)
    /\ LET alone == \A u \in Threads : ~At(u, "write")
       IN  saves' = [u \in Threads |->
                       CASE u = t -> [doc |-> Trimmed(Merged), alone |-> alone,
                                      stamps |-> IF alone THEN seenAt ELSE Nothing]
                         [] u # t /\ At(u, "write") ->
                              [doc |-> saves[u].doc, alone |-> FALSE, stamps |-> Nothing]
                         [] OTHER -> NoSave]
    /\ task' = [task EXCEPT ![t].step = "write"]
    /\ UNCHANGED <<cache, disk, dropped, clock, fate, met, savedAt>>

\* What overlapping saves may leave in the file: what one of them has merged, or a text
\* cut short or overwritten, which is read as an empty state.
Jumbled == {saves[u].doc : u \in {v \in Threads : At(v, "write")}} \cup {Nothing}
JumbledInto(docs) == disk' \in docs /\ savedAt' = [tok \in DOMAIN disk' |-> disk'[tok].seen]

\* ... and writes the temporary file and renames it, which another save may have opened
\* or be writing.
SaveLands(t) ==
    /\ At(t, "write")
    /\ IF saves[t].alone THEN disk' = saves[t].doc /\ savedAt' = saves[t].stamps
       ELSE JumbledInto(Jumbled)
    /\ saves' = [saves EXCEPT ![t] = NoSave]
    /\ task' = [task EXCEPT ![t] = IF t \in Listeners THEN Idle
                                   ELSE [task[t] EXCEPT !.step = "show"]]
    /\ UNCHANGED <<cache, dropped, clock, fate, met>>

\* Another save has renamed the file this one has open: what it writes goes into place.
SaveSpills(t) ==
    /\ At(t, "write")
    /\ ~saves[t].alone
    /\ JumbledInto({saves[t].doc, Nothing})
    /\ UNCHANGED <<cache, task, dropped, saves, clock, fate, met>>

\* The merge iterates over the cache, as the trim does; the temporary file cannot be
\* written, or another save has renamed it.
SaveFails(t) ==
    /\ (ToSave(t) /\ Changing(t)) \/ At(t, "write")
    /\ CutShort(task[t].texts)
    /\ task' = [task EXCEPT ![t] = Idle]
    /\ saves' = [saves EXCEPT ![t] = NoSave]
    /\ UNCHANGED <<cache, disk, dropped, clock, met, savedAt>>

\* The process exits or is killed, and is launched again.
RestartClient ==
    /\ cache' = disk
    /\ task' = [t \in Threads |-> Idle]
    /\ CutShort(InHand)
    /\ passed' = {disk[tok].mid : tok \in DOMAIN disk}
    /\ dropped' = {} /\ saves' = [t \in Threads |-> NoSave]
    /\ seenAt' = savedAt
    /\ UNCHANGED <<disk, clock, raced, savedAt>>

ReplayTick ==
    /\ clock < MaxClock
    /\ clock' = clock + 1
    /\ UNCHANGED <<cache, task, dropped, saved, fate, met>>

-----------------------------------------------------------------------------
ReplayInit ==
    /\ cache = Nothing /\ disk = Nothing
    /\ task = [t \in Threads |-> Idle] /\ dropped = {}
    /\ saves = [t \in Threads |-> NoSave]
    /\ clock = 0
    /\ fate = "unseen" /\ passed = {} /\ raced = {}
    /\ seenAt = Nothing /\ savedAt = Nothing

RenderNext(t) ==
    \/ Unreadable(t) \/ Legacy(t) \/ Known(t) \/ Touch(t)
    \/ New(t) \/ Record(t)
    \/ TrimDone(t) \/ TrimChoose(t) \/ TrimFails(t) \/ TrimDelete(t) \/ TrimMissed(t)

SaveNext(t) == SaveMerges(t) \/ SaveLands(t) \/ SaveSpills(t) \/ SaveFails(t)

ReplayNext ==
    \/ \E t \in Threads : \E page \in Pages[t] : Begin(t, page)
    \/ \E t \in Threads : RenderNext(t) \/ Show(t) \/ SaveNext(t)
    \/ RestartClient \/ ReplayTick

ReplaySpec == ReplayInit /\ [][ReplayNext]_replayVars

-----------------------------------------------------------------------------
(* Properties *)

\* The entries of a cache, each with an id that came with its token.
IsCache(entries) ==
    /\ DOMAIN entries \subseteq Tokens
    /\ entries \in [DOMAIN entries -> Entries]
    /\ \A tok \in DOMAIN entries : TokenOf[entries[tok].mid] = tok

IsHistory(stamps) == DOMAIN stamps \subseteq Tokens /\ stamps \in [DOMAIN stamps -> Nat]

IsSave(save) == IsCache(save.doc) /\ IsHistory(save.stamps) /\ save.alone \in BOOLEAN

AtToken(t) == task[t].step \in {"pass", "ignore", "record", "trim", "delete"}

\* Every variable has its type, and a thread at work on an id has one.
ReplayTypeOK ==
    /\ IsCache(cache) /\ IsCache(disk)
    /\ task \in [Threads -> Tasks \cup {Idle}]
    /\ \A t \in Threads : AtToken(t) => task[t].page # {} /\ Token(t) \in Tokens
    /\ dropped \subseteq {t \in Threads : Holding(t)}
    /\ DOMAIN saves = Threads /\ \A t \in Threads : IsSave(saves[t])
    /\ clock \in Nat
    /\ fate \in Fates
    /\ passed \subseteq MessageIds
    /\ raced \subseteq Tokens
    /\ IsHistory(seenAt) /\ IsHistory(savedAt)

\* The cache forgets the least recently met: when it no longer holds a token, at least
\* MaxEntries others have been met no earlier, also when the entry was trimmed by a
\* save and the process started again from the file.  This is so until two threads are
\* at one token at the same time, as when one meets it again that the other's trim
\* has chosen to drop.  What a process that starts counts as met is what the last save
\* had merged, as long as no other save overlapped it; of overlapping saves one may put
\* an older state into the file, or an empty one, and only what is there counts.
RecentIsRemembered ==
    raced = {} =>
        \A tok \in DOMAIN seenAt \ DOMAIN cache :
            Cardinality({other \in DOMAIN seenAt \ {tok} : seenAt[other] >= seenAt[tok]})
                >= MaxEntries

\* While a token is remembered its text is let through under one id: an envelope
\* stored again under another id is blocked, by push and in history, after a restart
\* too.  The exception is a token that two threads looked up at the same time.
CopyIsBlocked ==
    \A a, b \in passed : TokenOf[a] = TokenOf[b] => a = b \/ TokenOf[a] \in raced

\* A push is ignored as a duplicate only when the user has seen the message or is
\* about to: the text of the id of every entry was printed, or is in the hands of a call
\* that has yet to print it, or was cut short by a crash, a failed save or trim.
RememberedWasShown ==
    \A tok \in DOMAIN cache :
        cache[tok].mid = Watched => fate # "unseen" \/ Watched \in InHand

\* What the notice of a duplicate says (when a page of history was saved and the
\* process died before it printed the page the code does not do it): a message whose
\* push is ignored has already been processed, so it was shown or is about to be.
IgnoredWasProcessed ==
    [][\A t \in Listeners :
          Known(t) /\ IdOf(t) = Watched /\ cache[Token(t)].mid = Watched
              => fate = "shown" \/ Watched \in InHand]_replayVars

=============================================================================
