---------------------------- MODULE FetchPlugins ----------------------------
(***************************************************************************)
(* GET /plugins/{sources|sinks|functions}/prebuild of                      *)
(* internal/server/rest.go: prebuildPluginsHandler checks the environment, *)
(* then fetchPluginList asks every configured plugin host in turn for its  *)
(* HTML index, extractFromHtml keeps the links to archives for this        *)
(* architecture, and the lists are merged with the first host winning.    *)
(*                                                                         *)
(* Data abstraction.  The PluginHosts setting is the sequence of host      *)
(* names it splits into (<<>> for the empty string).  An HTML page is the  *)
(* sequence of its start tags: whether the tag is <a> and its href, an     *)
(* href being the archive "<name>_<arch>.zip" for a plugin name and an     *)
(* architecture (no Go architecture contains "_", so the last "_" is the   *)
(* one before the architecture).  A download address is the host and the   *)
(* plugin type it was listed under.                                        *)
(***************************************************************************)
EXTENDS Integers, Sequences, SequencesExt, FiniteSets, TLC

CONSTANTS
    Hosts,     \* plugin host names
    Names,     \* plugin names appearing in the indexes
    Archs,     \* architectures appearing in the indexes
    Arch,      \* runtime.GOARCH
    MaxHosts,  \* longest PluginHosts list
    MaxTags    \* longest index page, in start tags

ASSUME Arch \in Archs

VARIABLES
    pc,        \* "start", "fetch" (the loop over hosts) or "done"
    env,       \* MAINTAINER, GOOS and /etc/os-release as the handler sees them
    hosts,     \* conf.Config.Basic.PluginHosts, split at ","
    ptype,     \* the plugin type of the route
    i,         \* the index of the next host to fetch
    result,    \* fetchPluginList's result map: name -> download address
    fetched,   \* the pages fetched so far, in host order
    resp       \* the HTTP response: status (0 while unanswered) and body

fvars == <<pc, env, hosts, ptype, i, result, fetched, resp>>

NoHref == [name |-> "none", arch |-> "none"]
Href == [name : Names, arch : Archs]
Tags == [a : BOOLEAN, href : Href \cup {NoHref}]
Pages == UNION {[1..n -> Tags] : n \in 0..MaxTags}

Envs == [official : BOOLEAN, goos : {"linux", "windows"},
         osrelease : {"error", "debian", "ubuntu"}]

Ptypes == {"sources", "sinks", "functions"}

Url(k) == [host |-> hosts[k], ptype |-> ptype]

\* A response: its status (0 while nothing is written), whether its body
\* is empty, an error message or a plugin list, and the list.
Answer(st, k, l) == [status |-> st, kind |-> k, list |-> l]
Unanswered == Answer(0, "empty", <<>>)
Listing == UNION {[D -> [host : Hosts, ptype : Ptypes]] : D \in SUBSET Names}

TypeOK ==
    /\ pc \in {"start", "fetch", "done"}
    /\ env \in Envs
    /\ hosts \in Seq(Hosts) /\ Len(hosts) <= MaxHosts
    /\ ptype \in Ptypes
    /\ i \in 1..Len(hosts) + 1
    /\ result \in Listing
    /\ fetched \in Seq(Pages)
    /\ resp \in {Unanswered} \cup [status : {200, 400, 404},
                                   kind : {"empty", "error", "list"}, list : Listing]

(***************************************************************************)
(* Helpers of rest.go                                                      *)
(***************************************************************************)
\* Mutant: the type switch lost its default branch, so a plain error gets
\* no status code.
handleErrorNoDefault(err) ==
    CASE err = "notfound" -> 404 [] err = "errorx" -> 400 [] OTHER -> 0

\* handleError: an errorx NOT_FOUND is a 404, every other error a 400.
handleError(err) == IF err = "notfound" THEN 404 ELSE 400

Error(err) == Answer(handleError(err), "error", <<>>)

\* extractFromHtml: the prefix before the last "_" of every href of an <a>
\* tag that ends in "_" + arch + ".zip", in page order, repeats kept.
extractFromHtml(page, arch) ==
    LET Keep(t) == t.a /\ t.href # NoHref /\ t.href.arch = arch
    IN  [k \in 1..Len(SelectSeq(page, Keep)) |-> SelectSeq(page, Keep)[k].href.name]

\* Mutant: every listed plugin overwrites the address already recorded.
mergeListingOverwrite(res, plugins, url) ==
    FoldLeft(LAMBDA acc, p : (p :> url) @@ acc, res, plugins)

\* The loop over the plugins of one host: an existing entry is kept.
mergeListing(res, plugins, url) ==
    FoldLeft(LAMBDA acc, p : IF p \in DOMAIN acc THEN acc ELSE acc @@ (p :> url),
             res, plugins)

(***************************************************************************)
(* The handler                                                             *)
(***************************************************************************)
Init ==
    /\ pc = "start"
    /\ env \in Envs
    /\ hosts \in UNION {[1..n -> Hosts] : n \in 0..MaxHosts}
    /\ ptype \in Ptypes
    /\ i = 1
    /\ result = <<>>
    /\ fetched = <<>>
    /\ resp = Unanswered

\* prebuildPluginsHandler up to the loop of fetchPluginList: a host that is
\* not the official Debian image is refused; an os-release read error is
\* only logged, and the handler returns without writing a response, which
\* net/http sends as an empty 200; an empty hosts setting is an error.
Prebuild ==
    /\ pc = "start"
    /\ \/ /\ \/ ~env.official
             \/ env.goos # "linux"
             \/ env.osrelease = "ubuntu"
          /\ resp' = Error("plain")
          /\ pc' = "done"
       \/ /\ env.official /\ env.goos = "linux" /\ env.osrelease = "error"
          /\ resp' = Answer(200, "empty", <<>>)
          /\ pc' = "done"
       \/ /\ env.official /\ env.goos = "linux" /\ env.osrelease = "debian"
          /\ IF hosts = <<>>
             THEN resp' = Error("plain") /\ pc' = "done"
             ELSE UNCHANGED resp /\ pc' = "fetch"
    /\ UNCHANGED <<env, hosts, ptype, i, result, fetched>>

\* One iteration of fetchPluginList's loop: a failed GET, a status other
\* than 200 or a failed read returns the error and drops the whole result;
\* otherwise the host's plugins are merged in.  client.Get is one step.
FetchHost ==
    /\ pc = "fetch"
    /\ i <= Len(hosts)
    /\ \/ /\ resp' = Error("plain")
          /\ pc' = "done"
          /\ UNCHANGED <<i, result, fetched>>
       \/ \E page \in Pages :
          /\ result' = mergeListing(result, extractFromHtml(page, Arch), Url(i))
          /\ fetched' = Append(fetched, page)
          /\ i' = i + 1
          /\ UNCHANGED <<pc, resp>>
    /\ UNCHANGED <<env, hosts, ptype>>

\* After the last host: jsonResponse(plugins) answers 200.
Respond ==
    /\ pc = "fetch"
    /\ i > Len(hosts)
    /\ resp' = Answer(200, "list", result)
    /\ pc' = "done"
    /\ UNCHANGED <<env, hosts, ptype, i, result, fetched>>

Next == Prebuild \/ FetchHost \/ Respond

Spec == Init /\ [][Next]_fvars

-----------------------------------------------------------------------------
\* The reference merge: every plugin any host lists for this architecture,
\* at the address of the first host that lists it.
Listed(page) == {page[k].href.name : k \in {j \in DOMAIN page :
                     page[j].a /\ page[j].href # NoHref /\ page[j].href.arch = Arch}}

FirstMerge(pages) ==
    [p \in UNION {Listed(pages[k]) : k \in DOMAIN pages} |->
        Url(CHOOSE k \in DOMAIN pages : p \in Listed(pages[k])
                                        /\ \A j \in 1..k-1 : p \notin Listed(pages[j]))]

\* A 200 carrying a plugin list was built from the index of every
\* configured host (one failing host fails the request rather than hiding
\* its plugins), and names each plugin at the first host that lists it:
\* fetchPluginList's "if already existed, using the existed".
ListIsFirstHostMerge ==
    resp.status = 200 /\ resp.kind = "list" =>
        /\ Len(fetched) = Len(hosts)
        /\ resp.list = FirstMerge(fetched)

\* A 200 answer always carries the plugin list: every path of
\* prebuildPluginsHandler that does not list plugins reports an error.
OkCarriesList ==
    resp.status = 200 => resp.kind = "list"
=============================================================================
