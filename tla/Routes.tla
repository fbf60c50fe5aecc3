------------------------------- MODULE Routes -------------------------------
(***************************************************************************)
(* The edge router and its routes: internal/router/router.go, routes.go    *)
(* and the handlers of internal/agent/commands_router.go.                  *)
(*                                                                         *)
(* A route command reads routes.json, changes the table it holds, writes   *)
(* the file, stages the router's configuration, copies it into the         *)
(* container and has the router load it.  The first command that finds no  *)
(* routes.json takes over the router's file of older versions.  Any step   *)
(* may fail, commands run concurrently without a lock, and the agent may   *)
(* die between two steps.                                                  *)
(***************************************************************************)
EXTENDS Integers

CONSTANTS
  RouteCommands,  \* commands of the dashboard
  Op,             \* Op[c]: "install", "configure", "delete" or "list"
  DomainOf,       \* the domain a route command is about
  TargetOf,       \* the container a configure command publishes there
  Domains,
  Targets,        \* containers, as pairs of a name and an identity
  NoTarget,       \* no route
  OldRouter,      \* a router installed before the agent began
  NoRouter        \* no router

ASSUME RoutesAssumption ==
  /\ Op \in [RouteCommands -> {"install", "configure", "delete", "list"}]
  /\ DomainOf \in [RouteCommands -> Domains] /\ TargetOf \in [RouteCommands -> Targets]
  /\ NoTarget \notin Targets
  /\ OldRouter \notin RouteCommands /\ NoRouter \notin RouteCommands \union {OldRouter}

\* An install command names its container; the name is random in the code.
Boxes == RouteCommands \union {OldRouter}
Tables == [Domains -> Targets \union {NoTarget}]
NoRoutes == [d \in Domains |-> NoTarget]

VARIABLES
  routesFile,  \* routes.json: its state, and the table it holds when "whole"
  legacy,      \* the table in the old router's file under /tmp, if any
  box,         \* box[b]: the router container: "none", "created", "running"
  staged,      \* staged[b]: the staged configuration file for it
  config,      \* config[b]: the configuration file in it
  loaded,      \* loaded[b]: the configuration it serves
  rstep,       \* rstep[c]: the next step of its handler
  table,       \* table[c]: the routes it has in memory
  dest,        \* dest[c]: the router it resolved
  rresult,     \* rresult[c]: what it answered
  booked,      \* history: the target of each domain, by the answers given
               \* since the last write of routes.json that was cut short
  lastRoute,   \* history: the command that began last
  met          \* history: a command began while another was at work

rvars == <<routesFile, legacy, box, staged, config, loaded, rstep, table, dest,
           rresult, booked, lastRoute, met>>
routerSide == <<legacy, box, staged, config, loaded>>

RoutesInit ==
  /\ routesFile \in {[is |-> "absent", table |-> NoRoutes], [is |-> "whole", table |-> NoRoutes]}
  /\ legacy \in Tables
  /\ \E old \in {"none", "running"} :
       /\ box = [b \in Boxes |-> IF b = OldRouter THEN old ELSE "none"]
       /\ old = "none" \/ routesFile.is = "whole" => legacy = NoRoutes
  /\ staged = [b \in Boxes |-> NoRoutes]
  /\ config = [b \in Boxes |-> IF b = OldRouter THEN legacy ELSE NoRoutes]
  /\ loaded = config
  /\ rstep = [c \in RouteCommands |-> "idle"]
  /\ table = [c \in RouteCommands |-> NoRoutes]
  /\ dest = [c \in RouteCommands |-> NoRouter]
  /\ rresult = [c \in RouteCommands |-> "none"]
  /\ booked = NoRoutes /\ lastRoute = NoRouter /\ met = FALSE

RAtWork(c) == rstep[c] \notin {"idle", "done"}
RGoto(c, to) == rstep' = [rstep EXCEPT ![c] = to]
RAnswer(c, what) == RGoto(c, "done") /\ rresult' = [rresult EXCEPT ![c] = what]
Routing(c) == Op[c] \in {"configure", "delete"}

\* FindContainerNameByLabel: a running router, else one that exists; none is
\* found when docker fails, too.
Found ==
  LET there == {b \in Boxes : box[b] # "none"}
      running == {b \in there : box[b] = "running"}
  IN  IF running # {} THEN running ELSE there
Resolves(b) == b \in Found \/ b = NoRouter

RBegin(c) ==
  /\ rstep[c] = "idle"
  /\ lastRoute' = c
  /\ met' = (met \/ \E e \in RouteCommands \ {c} : RAtWork(e))

-----------------------------------------------------------------------------
\* install: the previous router goes first.
RemovePrevious(c) ==
  /\ Op[c] = "install" /\ RBegin(c)
  /\ \E b \in Boxes \union {NoRouter} :
       /\ Resolves(b)
       /\ \/ /\ RGoto(c, "run") /\ UNCHANGED rresult
             /\ box' = IF b = NoRouter THEN box ELSE [box EXCEPT ![b] = "none"]
          \/ b # NoRouter /\ RAnswer(c, "error") /\ UNCHANGED box
  /\ UNCHANGED <<routesFile, legacy, staged, config, loaded, table, dest, booked>>

\* docker run publishes the ports, which one router at a time can; a container
\* that does not start is left behind.  A new router has no routes.
RunRouter(c) ==
  /\ rstep[c] = "run"
  /\ \/ /\ \A b \in Boxes : box[b] # "running"
        /\ box' = [box EXCEPT ![c] = "running"]
        /\ RAnswer(c, "success") \/ RAnswer(c, "error")
     \/ box' \in {box, [box EXCEPT ![c] = "created"]} /\ RAnswer(c, "error")
  /\ UNCHANGED <<routesFile, legacy, staged, config, loaded, table, dest, booked,
                 lastRoute, met>>

-----------------------------------------------------------------------------
\* Two targets are one container: its identity, or its name, is the same.
Same(t, u) == t.id = u.id \/ t.name = u.name

\* Faulty variant: a domain may go to whoever asks.
Conflicts_Never(c, routes) == FALSE

\* upsertRoute: the domain is another container's.
Conflicts(c, routes) ==
  /\ Op[c] = "configure"
  /\ routes[DomainOf[c]] # NoTarget /\ ~Same(routes[DomainOf[c]], TargetOf[c])

NotFound(c, routes) == Op[c] = "delete" /\ routes[DomainOf[c]] = NoTarget

\* Faulty variant: the routes of other domains are not carried over.
Changed_Alone(c, routes) ==
  [NoRoutes EXCEPT ![DomainOf[c]] = IF Op[c] = "delete" THEN NoTarget ELSE TargetOf[c]]

Changed(c, routes) ==
  [routes EXCEPT ![DomainOf[c]] = IF Op[c] = "delete" THEN NoTarget ELSE TargetOf[c]]

\* What to do with the routes that were loaded.
Decide(c, routes) ==
  \/ /\ Routing(c) /\ ~Conflicts(c, routes) /\ ~NotFound(c, routes)
     /\ table' = [table EXCEPT ![c] = Changed(c, routes)]
     /\ RGoto(c, "truncate") /\ UNCHANGED rresult
  \/ (Conflicts(c, routes) \/ NotFound(c, routes)) /\ RAnswer(c, "error") /\ UNCHANGED table
  \/ Op[c] = "list" /\ RAnswer(c, "success") /\ UNCHANGED table

\* Without a routes.json the old router's file is to be taken over.
Inherits(b) == routesFile.is = "absent" /\ b = OldRouter

\* configure and delete: an empty file, and an absent one, hold no routes.  A
\* file may be unreadable.  Who deletes a domain gives it up, whatever the answer.
LoadRoutes(c) ==
  /\ Routing(c) /\ RBegin(c)
  /\ booked' = IF Op[c] = "delete" THEN [booked EXCEPT ![DomainOf[c]] = NoTarget] ELSE booked
  /\ \/ \E b \in Found :
          /\ dest' = [dest EXCEPT ![c] = b]
          /\ \/ /\ Inherits(b) /\ RGoto(c, "create") /\ UNCHANGED rresult
                /\ table' = [table EXCEPT ![c] = legacy]
             \/ /\ Inherits(b) => legacy = NoRoutes
                /\ routesFile.is # "garbled" /\ Decide(c, routesFile.table)
     \/ RAnswer(c, "error") /\ UNCHANGED <<table, dest>>
  /\ UNCHANGED <<routesFile, routerSide>>

\* Listing the routes changes something only where there is a file to take over.
ListRoutes(c) ==
  /\ Op[c] = "list" /\ RBegin(c)
  /\ OldRouter \in Found /\ Inherits(OldRouter)
  /\ dest' = [dest EXCEPT ![c] = OldRouter]
  /\ table' = [table EXCEPT ![c] = legacy]
  /\ RGoto(c, "create")
  /\ UNCHANGED <<routesFile, routerSide, rresult, booked>>

\* os.WriteFile truncates the file and then writes it.  What another command has
\* written since stays behind where it is longer; a write may be cut short.
Emptied == [is |-> "empty", table |-> NoRoutes]
Spoilt == [is |-> "garbled", table |-> NoRoutes]
Written(routes) ==
  {[is |-> "whole", table |-> routes]} \union (IF routesFile.is = "empty" THEN {} ELSE {Spoilt})
CutShort == {routesFile, Spoilt}

\* persistRoutes of the legacy routes, whose error is ignored.
CreateRoutes(c) ==
  /\ rstep[c] = "create"
  /\ \/ routesFile' = Emptied /\ RGoto(c, "migrate") /\ UNCHANGED <<table, rresult>>
     \/ Decide(c, table[c]) /\ UNCHANGED routesFile
  /\ UNCHANGED <<routerSide, dest, booked, lastRoute, met>>

MigrateRoutes(c) ==
  /\ rstep[c] = "migrate"
  /\ routesFile' \in Written(table[c]) \union CutShort
  /\ Decide(c, table[c])
  /\ UNCHANGED <<routerSide, dest, booked, lastRoute, met>>

\* persistRoutes of the changed ones.
TruncateRoutes(c) ==
  /\ rstep[c] = "truncate"
  /\ \/ routesFile' = Emptied /\ RGoto(c, "write") /\ UNCHANGED rresult
     \/ RAnswer(c, "error") /\ UNCHANGED routesFile
  /\ UNCHANGED <<routerSide, table, dest, booked, lastRoute, met>>

\* A write that is cut short loses every route.
WriteRoutes(c) ==
  /\ rstep[c] = "write"
  /\ \/ routesFile' \in Written(table[c]) /\ RGoto(c, "stage") /\ UNCHANGED <<rresult, booked>>
     \/ routesFile' \in CutShort /\ RAnswer(c, "error") /\ booked' = NoRoutes
  /\ UNCHANGED <<routerSide, table, dest, lastRoute, met>>

\* Commands for the same router share the staged file.  A part of it that a
\* failing write leaves is left out: only one that meets it could copy it.
StageConfig(c) ==
  /\ rstep[c] = "stage"
  /\ \/ /\ RGoto(c, "copy") /\ UNCHANGED rresult
        /\ staged' = [staged EXCEPT ![dest[c]] = table[c]]
     \/ RAnswer(c, "error") /\ UNCHANGED staged
  /\ UNCHANGED <<routesFile, legacy, box, config, loaded, table, dest, booked,
                 lastRoute, met>>

\* docker cp, of the whole file or not at all.
CopyConfig(c) ==
  /\ rstep[c] = "copy"
  /\ \/ /\ box[dest[c]] # "none" /\ RGoto(c, "reload") /\ UNCHANGED rresult
        /\ config' = [config EXCEPT ![dest[c]] = staged[dest[c]]]
     \/ RAnswer(c, "error") /\ UNCHANGED config
  /\ UNCHANGED <<routesFile, legacy, box, staged, loaded, table, dest, booked,
                 lastRoute, met>>

\* Faulty variant: an error of the reload is not returned.
ReloadRouter_Ignored(c) ==
  /\ rstep[c] = "reload"
  /\ loaded' \in {loaded, [loaded EXCEPT ![dest[c]] = config[dest[c]]]}
  /\ RAnswer(c, "success")
  /\ booked' = IF Op[c] = "delete" THEN booked
               ELSE [booked EXCEPT ![DomainOf[c]] = TargetOf[c]]
  /\ UNCHANGED <<routesFile, legacy, box, staged, config, table, dest, lastRoute, met>>

\* docker exec of the reload command; the router keeps what it serves when it
\* cannot load the file.
ReloadRouter(c) ==
  /\ rstep[c] = "reload"
  /\ \/ /\ box[dest[c]] = "running" /\ RAnswer(c, "success")
        /\ loaded' = [loaded EXCEPT ![dest[c]] = config[dest[c]]]
        /\ booked' = IF Op[c] = "delete" THEN booked
                     ELSE [booked EXCEPT ![DomainOf[c]] = TargetOf[c]]
     \/ RAnswer(c, "error") /\ UNCHANGED <<loaded, booked>>
  /\ UNCHANGED <<routesFile, legacy, box, staged, config, table, dest, lastRoute, met>>

\* Docker restarts the router, which loads its configuration file.
RouterRestarts ==
  /\ \E b \in Boxes : box[b] = "running" /\ loaded' = [loaded EXCEPT ![b] = config[b]]
  /\ UNCHANGED <<routesFile, legacy, box, staged, config, rstep, table, dest,
                 rresult, booked, lastRoute, met>>

\* The agent dies with whatever is at work, maybe in the middle of a write.
RoutesCrash ==
  /\ \E c \in RouteCommands : RAtWork(c)
  /\ rstep' = [c \in RouteCommands |-> IF RAtWork(c) THEN "done" ELSE rstep[c]]
  /\ routesFile' \in {routesFile} \union
       (IF \E c \in RouteCommands : rstep[c] \in {"write", "migrate"} THEN CutShort ELSE {})
  /\ booked' = IF \E c \in RouteCommands : rstep[c] = "write" THEN NoRoutes ELSE booked
  /\ UNCHANGED <<routerSide, table, dest, rresult, lastRoute, met>>

RouteStep(c) ==
  \/ RemovePrevious(c) \/ RunRouter(c) \/ LoadRoutes(c) \/ ListRoutes(c)
  \/ CreateRoutes(c) \/ MigrateRoutes(c) \/ TruncateRoutes(c) \/ WriteRoutes(c)
  \/ StageConfig(c) \/ CopyConfig(c) \/ ReloadRouter(c)

RoutesNext == (\E c \in RouteCommands : RouteStep(c)) \/ RouterRestarts \/ RoutesCrash

RoutesSpec == RoutesInit /\ [][RoutesNext]_rvars

-----------------------------------------------------------------------------
RoutesTypeOK ==
  /\ routesFile \in [is : {"absent", "empty", "whole", "garbled"}, table : Tables]
  /\ legacy \in Tables
  /\ box \in [Boxes -> {"none", "created", "running"}]
  /\ staged \in [Boxes -> Tables] /\ config \in [Boxes -> Tables]
  /\ loaded \in [Boxes -> Tables]
  /\ rstep \in [RouteCommands -> {"idle", "run", "create", "migrate", "truncate", "write",
                                  "stage", "copy", "reload", "done"}]
  /\ table \in [RouteCommands -> Tables]
  /\ dest \in [RouteCommands -> Boxes \union {NoRouter}]
  /\ rresult \in [RouteCommands -> {"none", "error", "success"}]
  /\ booked \in Tables
  /\ lastRoute \in RouteCommands \union {NoRouter}
  /\ met \in BOOLEAN

\* routes.go:113-138: a domain given to a container goes to no other one before
\* it is deleted, whatever steps of whatever commands fail; unless two commands
\* meet, or a write of routes.json is cut short by an error or the agent's death:
\* every route given before is then lost, and its domain free.
DomainNotStolen ==
  [][\A d \in Domains :
       booked[d] # NoTarget /\ booked'[d] \notin {booked[d], NoTarget} =>
         met \/ Same(booked[d], booked'[d])]_rvars

\* The same without the exceptions, as routes.go:114-115 has it.
NoSilentSteal ==
  [][\A d \in Domains :
       booked[d] # NoTarget /\ booked'[d] \notin {booked[d], NoTarget} =>
         Same(booked[d], booked'[d])]_rvars

\* routes.go:140-171: once a route command is answered with success the router
\* serves what routes.json holds, unless commands met.
AppliedIsServed ==
  \A c \in RouteCommands :
    ~met /\ lastRoute = c /\ rresult[c] = "success" /\ Routing(c) =>
      /\ routesFile.is = "whole" /\ routesFile.table[DomainOf[c]] =
           (IF Op[c] = "delete" THEN NoTarget ELSE TargetOf[c])
      /\ box[dest[c]] = "running" /\ loaded[dest[c]] = routesFile.table

\* routes.go:203-251: a route that was answered with success stays on disk
\* through the failures of later commands, reinstallations, the takeover of the
\* legacy file and the agent's deaths, unless commands meet or a later write of
\* routes.json is cut short, which loses all of them.
BookedIsKept ==
  ~met /\ (\A c \in RouteCommands : rstep[c] # "write") =>
    \A d \in Domains : booked[d] # NoTarget =>
      /\ routesFile.is = "whole" /\ routesFile.table[d] # NoTarget
      /\ Same(routesFile.table[d], booked[d])
=============================================================================
