--------------------------------- MODULE Vite ---------------------------------
(* vite/vite.py: the tags of a page, from the manifest of the last build or    *)
(* from the dev server that a hot file names.  A request has a state of its    *)
(* own, its nonce and the assets it preloads, in the context of its task.      *)
EXTENDS Naturals, Sequences, SequencesExt, FiniteSets

CONSTANTS Tasks,
          Builds,       \* manifests: functions of a key to [file, css, imports]
          Styles,       \* the files that are stylesheets
          Entries,      \* the entry points a page may ask for: sequences of keys
          MaxNonces, MaxScopes, MaxDepth, MaxPages, MaxDeploys   \* bounds

VARIABLES disk,         \* the manifest on the disk, None before a build, and the hot file
          manifests,    \* the manifest that was read, None before
          states,       \* the nonce of each request's state; 1 is that of no request
          current,      \* the state each task's context holds; 1 for none
          scopes,       \* the scopes each task is in: did they set the state?
          call,         \* each task's call: [at, entries]
          page,         \* the last page rendered
          nonces,       \* the state each nonce was made for, in order
          pages, deploys

vars == <<disk, manifests, states, current, scopes, call, page, nonces, pages, deploys>>

None  == <<>>
NoPage == [of |-> 1, ok |-> FALSE, hot |-> FALSE, nonce |-> 0, entries |-> <<>>,
           manifest |-> None, preloads |-> <<>>, styles |-> <<>>, scripts |-> <<>>]
IsStyle(file) == file \in Styles
Once(s) == FoldLeft(LAMBDA acc, x : IF Contains(acc, x) THEN acc ELSE Append(acc, x), <<>>, s)

\* _resolve_imports(): depth first, each once; a key may be missing.
\* Careless: only the imports of the entry itself.
DirectImports(m, keys, seen) == seen \o keys
RECURSIVE Imports(_, _, _)
Imports(m, keys, seen) ==
    FoldLeft(LAMBDA acc, k : IF Contains(acc, k) THEN acc
                             ELSE IF k \in DOMAIN m THEN Imports(m, m[k].imports, Append(acc, k)) ELSE Append(acc, k),
             seen, keys)
ImportsOf(m, entry) == Imports(m, m[entry].imports, <<>>)
Found(m, entries) ==
    \A i \in 1 .. Len(entries) : entries[i] \in DOMAIN m /\ ToSet(ImportsOf(m, entries[i])) \subseteq DOMAIN m

\* What __call__() collects of an entry: the preloads, and the tags.
Concat(keys, f(_)) == FlattenSeq([i \in 1 .. Len(keys) |-> f(keys[i])])
Preloads(m, entry) ==
    <<m[entry].file>> \o Concat(ImportsOf(m, entry), LAMBDA k : <<m[k].file>> \o m[k].css) \o m[entry].css
Tags(m, entry) == Concat(ImportsOf(m, entry), LAMBDA k : m[k].css) \o <<m[entry].file>> \o m[entry].css
StylesFirst(s) == SelectSeq(s, IsStyle) \o SelectSeq(s, LAMBDA f : ~IsStyle(f))

Nonce(t) == IF states[current[t]] # 0 THEN states[current[t]] ELSE states[1]
\* The tags of a page: each bears the nonce, and a stylesheet is linked.
Page(t, entries, files) ==
    [NoPage EXCEPT !.of = current[t], !.ok = TRUE, !.nonce = Nonce(t), !.entries = entries,
                   !.styles = SelectSeq(files, IsStyle), !.scripts = SelectSeq(files, LAMBDA f : ~IsStyle(f))]
HotPage(t, entries) == [Page(t, entries, <<"@vite/client">> \o entries) EXCEPT !.hot = TRUE]
Rendered(t, m, entries) ==
    [Page(t, entries, Once(Concat(entries, LAMBDA e : Tags(m, e)))) EXCEPT
        !.manifest = m, !.preloads = StylesFirst(Once(Concat(entries, LAMBDA e : Preloads(m, e))))]
-------------------------------------------------------------------------------
Idle == [at |-> "idle", entries |-> <<>>]
Init ==
    /\ disk \in [manifest : Builds \cup {None}, hot : {FALSE}] /\ manifests = None /\ pages = 0 /\ deploys = 0
    /\ states = <<0>> /\ nonces = <<>>
    /\ current = [t \in Tasks |-> 1] /\ scopes = [t \in Tasks |-> <<>>]
    /\ call = [t \in Tasks |-> Idle] /\ page = NoPage

IsIdle(t) == call[t].at = "idle"
\* ViteMiddleware: a scope sets a state where the context has none.
Enter(t) ==
    /\ IsIdle(t) /\ Len(scopes[t]) < MaxDepth /\ (current[t] # 1 \/ Len(states) <= MaxScopes)
    /\ scopes' = [scopes EXCEPT ![t] = Append(@, current[t] = 1)]
    /\ IF current[t] = 1
       THEN /\ states' = Append(states, 0)
            /\ current' = [current EXCEPT ![t] = Len(states) + 1]
       ELSE UNCHANGED <<states, current>>
    /\ UNCHANGED <<disk, manifests, call, page, nonces, pages, deploys>>
\* Only the scope that set the state resets it.
Exit(t) ==
    /\ IsIdle(t) /\ scopes[t] # <<>>
    /\ scopes' = [scopes EXCEPT ![t] = Front(@)]
    /\ current' = [current EXCEPT ![t] = IF Last(scopes[t]) THEN 1 ELSE @]
    /\ UNCHANGED <<disk, manifests, states, call, page, nonces, pages, deploys>>
\* A task that a request starts has its context.
Spawn(t, u) ==
    /\ IsIdle(t) /\ IsIdle(u) /\ t # u /\ scopes[u] = <<>> /\ current[u] = 1 /\ current[t] # 1
    /\ current' = [current EXCEPT ![u] = current[t]]
    /\ UNCHANGED <<disk, manifests, states, scopes, call, page, nonces, pages, deploys>>

\* Bug: the nonce is that of all requests.
UseNonceOfAll(t) ==
    /\ IsIdle(t) /\ Len(nonces) < MaxNonces
    /\ nonces' = Append(nonces, current[t])
    /\ states' = [states EXCEPT ![1] = Len(nonces) + 1]
    /\ UNCHANGED <<disk, manifests, current, scopes, call, page, pages, deploys>>
UseNonce(t) ==
    /\ IsIdle(t) /\ Len(nonces) < MaxNonces
    /\ nonces' = Append(nonces, current[t])
    /\ states' = [states EXCEPT ![current[t]] = Len(nonces) + 1]
    /\ UNCHANGED <<disk, manifests, current, scopes, call, page, pages, deploys>>
\* __call__(): whether a dev server is running is asked first.
Ask(t, entries) ==
    /\ IsIdle(t) /\ call' = [call EXCEPT ![t] = [at |-> IF disk.hot THEN "hot" ELSE "build", entries |-> entries]]
    /\ pages < MaxPages /\ pages' = pages + 1
    /\ UNCHANGED <<disk, manifests, states, current, scopes, page, nonces, deploys>>
Answers(t, p) == call' = [call EXCEPT ![t] = Idle] /\ page' = p
Fails(t) == Answers(t, [NoPage EXCEPT !.of = current[t]])
\* The hot file is opened, and may be gone: FileNotFoundError.
HotTags(t) ==
    /\ call[t].at = "hot" /\ UNCHANGED <<disk, manifests, states, current, scopes, nonces, pages, deploys>>
    /\ IF disk.hot THEN Answers(t, HotPage(t, call[t].entries)) ELSE Fails(t)
\* The manifest is read once for all, if there is one.
BuildTags(t) ==
    LET m == IF manifests # None THEN manifests ELSE disk.manifest IN
    /\ call[t].at = "build" /\ manifests' = m /\ UNCHANGED <<disk, states, current, scopes, nonces, pages, deploys>>
    /\ IF m # None /\ Found(m, call[t].entries) THEN Answers(t, Rendered(t, m, call[t].entries)) ELSE Fails(t)

\* A build is made, and the dev server starts or stops, at any time.
Deploy ==
    /\ deploys < MaxDeploys /\ deploys' = deploys + 1
    /\ \/ \E build \in Builds : disk' = [disk EXCEPT !.manifest = build]
       \/ disk' = [disk EXCEPT !.hot = ~@]
    /\ UNCHANGED <<manifests, states, current, scopes, call, page, nonces, pages>>

Next == \/ \E t \in Tasks : \/ Enter(t) \/ Exit(t) \/ UseNonce(t) \/ HotTags(t) \/ BuildTags(t)
                            \/ \E u \in Tasks : Spawn(t, u)
                            \/ \E entries \in Entries : Ask(t, entries)
        \/ Deploy
Spec == Init /\ [][Next]_vars
-------------------------------------------------------------------------------
RECURSIVE Reached(_, _)
Reached(m, keys) == LET more == keys \cup UNION {ToSet(m[k].imports) : k \in keys} IN
                    IF more = keys THEN keys ELSE Reached(m, more)
Exactly(s, files) == ToSet(s) = files /\ Len(s) = Cardinality(files)
\* A page from a build preloads every file its entries lead to and links every
\* stylesheet of these, each once, whatever imports what; it bears no nonce that
\* another request made
\* (vite.py __call__, _resolve_imports, csp_nonce).
PageIsWhole ==
    LET p == page IN p.ok =>
        /\ p.nonce # 0 => nonces[p.nonce] \in {1, p.of}
        /\ p.hot \/ LET m == p.manifest
                        keys == Reached(m, ToSet(p.entries))
                        styles == UNION {ToSet(m[k].css) : k \in keys} \cup ({m[k].file : k \in ToSet(p.entries)} \cap Styles)
                    IN  /\ Exactly(p.preloads, styles \cup {m[k].file : k \in keys})
                        /\ Exactly(p.styles, styles)
                        /\ Exactly(p.scripts, {m[k].file : k \in ToSet(p.entries)} \ Styles)
===============================================================================
