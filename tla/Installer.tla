------------------------------ MODULE Installer ------------------------------
(* installer/: `init`, which asks what is wanted, plans the files of a new   *)
(* project from sections, shows the plan, and writes it into a directory     *)
(* that others may write to as well.  Several commands may run at a time.    *)
(* Of the files it is told which stub they are made of, and of a stub what   *)
(* it needs: keys to substitute, modules of the project, packages.           *)
EXTENDS Naturals, Sequences, FiniteSets, SequencesExt, TLC

CONSTANTS Commands,     \* the commands that run, numbers
          Given,        \* the options they may be given; Unset where one is not given
          Unset,
          Places,       \* what the destination may be at first
          Foreign,      \* the paths that others write
          MaxForeign

VARIABLES place,        \* the destination: "absent", "directory", "file" or "link"
          tree,         \* who wrote each path in it: a command, or "others"
          runs,         \* [at, options, left] of each command
          foreign       \* the paths that others have written

installing == <<place, tree, runs, foreign>>

Apps == {"web", "worker", "both"}
Databases == {"none", "sqlite", "postgres", "mysql"}
Frontends == {"none", "react", "vue"}
ValidOptions(o) == /\ o.app \in Apps /\ o.database \in Databases /\ o.frontend \in Frontends
                   /\ o.app = "worker" => o.frontend = "none"
ValidDestination == place = "absent" \/ (place = "directory" /\ tree = <<>>)

\* A section; Section() where nothing is added.
Section(templates, files, imports, providers, packages, keys) ==
    [templates |-> templates, files |-> files, imports |-> imports, providers |-> providers,
     packages |-> packages, keys |-> keys]
NoSection == Section(<<>>, <<>>, {}, {}, {}, {})

Base == Section(
    << <<"artisan", "base/artisan">>, <<"bootstrap.application", "base/bootstrap.py">>, <<"config.app", "base/app.py">>,
       <<"config.logging", "base/logging.py">>, <<".gitignore", "base/gitignore">>, <<"README.md", "base/README.md">> >>,
    <<"bootstrap", "config", "providers", "tests", "storage/logs/.gitignore">>,
    {<<"", "Application">>, <<"", "LogProvider">>, <<"config.app", "AppConfig">>, <<"config.logging", "LoggingConfig">>},
    {"LogProvider", "LoggingConfig"}, {}, {"project_name", "entry", "react_refresh"})

Web == Section(
    << <<"config.fastapi", "base/fastapi.py">>, <<"providers.fastapi_provider", "base/provider.py">>,
       <<"routes.api", "base/routes.py">>, <<"app.http.controllers.home_controller", "base/controller.py">>,
       <<"tests.test_application", "base/test_application.py">> >>,
    <<"routes", "app", "app.http", "app.http.controllers">>,
    {<<"config.fastapi", "FastAPIConfig">>, <<"providers.fastapi_provider", "FastapiProvider">>},
    {"FastapiProvider", "FastAPIConfig"}, {"fastapi"}, {})

Database(driver) ==
    IF driver = "none" THEN NoSection
    ELSE Section(
        << <<"config.database", "database/config.py">>, <<"databases.seeders.database_seeder", "database/seeder.py">> >>,
        <<"databases/migrations/.gitkeep", "databases.seeders", "databases">>,
        {<<"", "DatabaseProvider">>, <<"config.database", "DatabaseConfig">>},
        {"DatabaseProvider", "DatabaseConfig"}, {"database", driver}, {"driver", "driver_class"})

Frontend(frontend) ==
    LET entry == IF frontend = "react" THEN "resources/js/app.tsx" ELSE "resources/js/app.ts"
        page  == IF frontend = "react" THEN "resources/js/Pages/Home.tsx" ELSE "resources/js/Pages/Home.vue"
    IN  IF frontend = "none" THEN NoSection
        ELSE Section(
            << <<"app.http.controllers.home_controller", "frontend/controller.py">>, <<"config.vite", "frontend/config.py">>,
               <<"resources/templates/index.html", "frontend/index.html">>, <<"resources/css/app.css", "frontend/app.css">>,
               <<"vite.config.ts", frontend \o "/vite.config.ts">>, <<"package.json", frontend \o "/package.json">>,
               <<entry, frontend \o "/app">>, <<page, frontend \o "/Home">> >>, <<>>,
            {<<"", "InertiaProvider">>, <<"", "ViteProvider">>, <<"config.vite", "ViteConfig">>},
            {"ViteProvider", "ViteConfig", "InertiaProvider"}, {"inertia", "vite"}, {"entry", "react_refresh"})

Queue(web) == Section(
    << <<"config.queue", "queue/config.py">>, <<"providers.queue_provider", "queue/provider.py">>,
       <<"commands.queue_work_command", "queue/command.py">>, <<"worker", "queue/worker.py">>,
       <<"tasks.example_task", "queue/task.py">> >>
    \o (IF web THEN <<>>
        ELSE << <<"tests.test_application", "queue/test_application.py">>, <<"README.md", "queue/README.md">> >>),
    <<"commands", "tasks">>,
    {<<"config.queue", "QueueConfig">>, <<"providers.queue_provider", "QueueProvider">>},
    {"QueueProvider", "QueueConfig"}, {"taskiq", "taskiq-redis"}, {"manages_http_lifespan"})

\* What a stub needs.  The modules that bootstrap.py imports are its lines of
\* imports, those of the sections.
Needing(keys, modules, packages) == [keys |-> keys, modules |-> modules, packages |-> packages]
Demands(stub) ==
    CASE stub = "base/bootstrap.py"    -> Needing({"imports", "providers"}, {"config"}, {})
      [] stub = "base/provider.py"     -> Needing({}, {"routes.api"}, {"fastapi"})
      [] stub = "base/routes.py"       -> Needing({}, {"app.http.controllers.home_controller"}, {"fastapi"})
      [] stub = "base/fastapi.py"      -> Needing({}, {}, {"fastapi"})
      [] stub = "base/test_application.py" -> Needing({}, {"bootstrap.application"}, {"fastapi"})
      [] stub \in {"base/artisan", "queue/worker.py", "queue/test_application.py"}
                                       -> Needing({}, {"bootstrap.application"}, {})
      [] stub = "database/config.py"   -> Needing({"driver", "driver_class"}, {}, {"database"})
      [] stub = "database/seeder.py"   -> Needing({}, {}, {"database"})
      [] stub = "frontend/index.html"  -> Needing({"entry", "react_refresh"}, {}, {"inertia", "vite"})
      [] stub = "frontend/controller.py" -> Needing({}, {"resources/templates/index.html"}, {"inertia"})
      [] stub = "frontend/config.py"   -> Needing({}, {}, {"vite"})
      [] stub = "react/vite.config.ts" -> Needing({}, {"resources/js/app.tsx"}, {})
      [] stub = "vue/vite.config.ts"   -> Needing({}, {"resources/js/app.ts"}, {})
      [] stub = "react/app"            -> Needing({}, {"resources/css/app.css", "resources/js/Pages/Home.tsx"}, {})
      [] stub = "vue/app"              -> Needing({}, {"resources/css/app.css", "resources/js/Pages/Home.vue"}, {})
      [] stub \in {"base/README.md", "queue/README.md", "react/package.json", "vue/package.json"}
                                       -> Needing({"project_name"}, {}, {})
      [] stub = "queue/provider.py"    -> Needing({"manages_http_lifespan"}, {"commands.queue_work_command", "config.queue"},
                                                  {"taskiq", "taskiq-redis"})
      [] stub = "queue/task.py"        -> Needing({}, {"worker"}, {})
      [] OTHER                         -> Needing({}, {}, {})

\* build_plan(): of two templates for a path the later section's is taken, in
\* the place of the first.
Sections(o) == <<Base, Database(o.database), IF o.app # "worker" THEN Web ELSE NoSection, Frontend(o.frontend),
                 IF o.app # "web" THEN Queue(o.app = "both") ELSE NoSection>>
All(o, part(_)) == UNION {part(Sections(o)[i]) : i \in 1 .. 5}
Flat(o, part(_)) == FoldLeft(LAMBDA s, section : s \o part(section), <<>>, Sections(o))
Templates(o) == Flat(o, LAMBDA s : s.templates)
Once(paths) == FoldLeft(LAMBDA s, p : IF Contains(s, p) THEN s ELSE Append(s, p), <<>>, paths)
Files(o) == Once([i \in 1 .. Len(Templates(o)) |-> Templates(o)[i][1]] \o Flat(o, LAMBDA s : s.files)
                 \o <<".env.example", ".env", "pyproject.toml", ".python-version">>)
StubOf(o, path) == LET same == SelectSeq(Templates(o), LAMBDA t : t[1] = path) IN Last(same)[2]
Stubs(o)  == {StubOf(o, t[1]) : t \in Range(Templates(o))}
Substitutions(o)   == All(o, LAMBDA s : s.keys) \cup {"imports", "providers"}
Renders(o) == \A stub \in Stubs(o) : Demands(stub).keys \subseteq Substitutions(o)
Packages(o) == All(o, LAMBDA s : s.packages)
Imported(o) == All(o, LAMBDA s : s.imports)

\* create_project(): the options are examined before anything is asked; what was
\* not given is then asked for, where somebody can answer.
Or(value, default) == IF value = Unset THEN default ELSE value
Defaults(given) == [app |-> Or(given.app, "web"), database |-> Or(given.database, "sqlite"),
                    frontend |-> Or(given.frontend, "none")]
OptionsFor(given) ==
    {o \in [app : IF given.app = Unset THEN Apps ELSE {given.app},
            database : IF given.database = Unset THEN Databases ELSE {given.database},
            frontend : IF given.frontend = Unset THEN Frontends ELSE {given.frontend}] :
       given.frontend = Unset /\ o.app = "worker" => o.frontend = "none"}

Ended(how) == [at |-> how, options |-> Unset, left |-> <<>>]
EndAs(r, how) == runs' = [runs EXCEPT ![r] = Ended(how)]
Written(path, who) == [p \in DOMAIN tree \cup {path} |-> IF p = path THEN who ELSE tree[p]]

\* A command starts, asks and plans: the destination is examined for the first
\* time.
Plan(r, given, interactive) ==
    /\ runs[r].at = "new"
    /\ IF ~ValidOptions(Defaults(given)) THEN EndAs(r, "refused")
       ELSE \E o \in IF interactive THEN OptionsFor(given) ELSE {Defaults(given)} :
              IF ~ValidOptions(o) \/ ~ValidDestination THEN EndAs(r, "refused")
              ELSE IF ~Renders(o) THEN EndAs(r, "failed")
              ELSE runs' = [runs EXCEPT ![r].at = "shown", ![r].options = o]
    /\ UNCHANGED <<place, tree, foreign>>

\* The plan was only to be shown, or it is not confirmed, or uv is missing.
Leave(r) ==
    /\ runs[r].at = "shown" /\ \E how \in {"shown only", "refused"} : EndAs(r, how)
    /\ UNCHANGED <<place, tree, foreign>>

\* write_plan(): the destination is examined again.
BeginWriting(r) ==
    /\ runs[r].at = "shown"
    /\ IF ValidDestination
       THEN /\ place' = "directory"
            /\ runs' = [runs EXCEPT ![r].at = "writing", ![r].left = Files(runs[r].options)]
       ELSE EndAs(r, "refused") /\ UNCHANGED place
    /\ UNCHANGED <<tree, foreign>>

\* A write that would replace what is there.
WriteOver(r) ==
    /\ runs[r].at = "writing" /\ runs[r].left # <<>>
    /\ tree' = Written(Head(runs[r].left), r) /\ runs' = [runs EXCEPT ![r].left = Tail(@)]
    /\ UNCHANGED <<place, foreign>>

\* A file is opened for exclusive creation: one that is there ends the command,
\* as do an error of the system and an interruption, and what is written stays.
WriteFile(r) ==
    /\ runs[r].at = "writing" /\ runs[r].left # <<>>
    /\ LET path == Head(runs[r].left) IN
       \/ /\ path \notin DOMAIN tree
          /\ tree' = Written(path, r) /\ runs' = [runs EXCEPT ![r].left = Tail(@)]
       \/ EndAs(r, "broken") /\ UNCHANGED tree
    /\ UNCHANGED <<place, foreign>>

\* The command is made executable, and the dependencies are installed, unless
\* they are not wanted, or that fails.
Finish(r) ==
    /\ runs[r].at = "writing" /\ runs[r].left = <<>>
    /\ \E how \in {"ready", "not installed"} : runs' = [runs EXCEPT ![r].at = how]
    /\ UNCHANGED <<place, tree, foreign>>

\* Somebody else writes a file, over one that is there if need be.
OtherWrites(path) ==
    /\ Cardinality(foreign) < MaxForeign /\ foreign' = foreign \cup {path}
    /\ place \in {"absent", "directory"} /\ place' = "directory"
    /\ tree' = Written(path, "others") /\ UNCHANGED runs

InstallerInit ==
    /\ place \in Places
    /\ foreign \in (IF place = "directory" THEN {{}} \cup {{p} : p \in Foreign} ELSE {{}})
    /\ tree = [p \in foreign |-> "others"]
    /\ runs = [r \in Commands |-> Ended("new")]
InstallerNext ==
    \/ \E r \in Commands :
          \/ \E given \in Given, interactive \in BOOLEAN : Plan(r, given, interactive)
          \/ Leave(r) \/ BeginWriting(r) \/ WriteFile(r) \/ Finish(r)
    \/ \E path \in Foreign : OtherWrites(path)
InstallerSpec == InstallerInit /\ [][InstallerNext]_installing
-------------------------------------------------------------------------------
\* Whatever is asked for, the project stands on its own: what its files name is
\* among them, the providers are imported, the packages are required, it has a
\* test, and the frontend's page is the one that is rendered.
StandsAlone(o) ==
    LET needs == {Demands(stub) : stub \in Stubs(o)}
        files == Range(Files(o))
    IN  /\ UNION {n.modules : n \in needs} \cup {i[1] : i \in Imported(o)} \subseteq files \cup {""}
        /\ UNION {n.packages : n \in needs} \subseteq Packages(o)
        /\ All(o, LAMBDA s : s.providers) \subseteq {i[2] : i \in Imported(o)}
        /\ "tests.test_application" \in files
        /\ "frontend/index.html" \in Stubs(o) => "frontend/controller.py" \in Stubs(o)

\* Every choice there is has a plan, which renders, stands on its own and begins
\* with the command itself.
Options == {o \in [app : Apps, database : Databases, frontend : Frontends] : ValidOptions(o)}
ASSUME PlansStandAlone ==
    \A o \in Options : /\ Renders(o) /\ StandsAlone(o)
                       /\ Files(o) \in Seq(STRING) \ {<<>>} /\ Head(Files(o)) = "artisan"

\* A plan can be rendered and stands on its own; a project that is reported as
\* written has all of its files, and none of another command's; what others have
\* written is left alone (installer/plan.py 232-267, writer.py, init_command.py).
GeneratedIsWhole ==
    /\ \A r \in Commands :
          /\ runs[r].at # "failed"
          /\ runs[r].at = "shown" => StandsAlone(runs[r].options)
          /\ runs[r].at \in {"ready", "not installed"} =>
                /\ Range(Files(runs[r].options)) \subseteq DOMAIN tree
                /\ Range(tree) \subseteq {r, "others"}
    /\ \A path \in foreign : tree[path] = "others"
===============================================================================
