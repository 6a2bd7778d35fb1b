------------------------------ MODULE Screens ------------------------------
(***************************************************************************)
(* The screens of the web: what each asks of its user before it serves a   *)
(* request, and which links and buttons it shows to whom (views.py of      *)
(* assembly, wms, edge, eventbus, connect and core, config/views.py,       *)
(* core/navigation.py, core/mixins.py).                                    *)
(*                                                                         *)
(* A screen and the links to it test permissions each for itself: the      *)
(* screen when it is asked for, a link when the page that shows it is      *)
(* rendered.  In between the user's role may lose a permission.            *)
(*                                                                         *)
(* A permission is <<action, model>>.  A screen is <<kind, model>>; a      *)
(* button that posts is the screen it posts to.  What a list or a detail   *)
(* shows of its rows, its filters and its columns, and which buttons the   *)
(* status of a row hides, are left out.  The bar of a module is on all its *)
(* pages; here it is among the links of the module's panel.                *)
(***************************************************************************)
EXTENDS Naturals

CONSTANTS
  Entrances,    \* screens whose address the user knows
  MaxRevoked    \* permissions the role loses: a bound

VARIABLES
  who,      \* "superuser", "admin_group", "company_admin" (of the tenant) or "plain"
  held,     \* the permissions of the user's role
  revoked,  \* history: how many it has lost
  page,     \* the screen that was served last
  shown,    \* the links on it, as it was rendered
  stale     \* the role has changed since

screenVars == <<who, held, revoked, page, shown, stale>>

(***************************************************************************)
(* Screens and links                                                       *)
(***************************************************************************)
\* ModulePermissionMixin asks for all of `needs', of which it excuses administrators; the
\* view itself asks for all of `must', of which it excuses nobody but the superuser.
Demanding(s, needs, must, links) ==
  [at |-> s, open |-> "module", needs |-> needs, must |-> must, links |-> links]

\* Most ask for one permission.
Screen(s, p, links) == Demanding(s, {p}, {}, links)

\* A screen that tests who asks, not what they hold
Unlisted(s, open, links) ==
  [at |-> s, open |-> open, needs |-> {}, must |-> {}, links |-> links]

\* A screen of the company asks for an administrator.
CompanyScreen(s, links) == Unlisted(s, "company", links)

\* A link is shown to whoever holds its permission, one of a module's bar also to the admin
\* group; some are shown to whoever holds any of several, or all of them.
Link(to, p) == [to |-> to, by |-> "permission", tests |-> {p}]
Menu(to, p) == [to |-> to, by |-> "menu", tests |-> {p}]
AnyOf(to, tests) == [to |-> to, by |-> "permission", tests |-> tests]
AllOf(to, tests) == [to |-> to, by |-> "permissions", tests |-> tests]
Plain(to) == [to |-> to, by |-> "nothing", tests |-> {}]
AdminLink(to) == [to |-> to, by |-> "company", tests |-> {}]

View(m) == <<"view", m>>
Add(m) == <<"add", m>>
Change(m) == <<"change", m>>
List(m) == <<"list", m>>
Viewed(m) == Menu(List(m), View(m))

\* A posted action of a page, which asks for p, or for p and, in its own code, for q
Post(s, p) == {Screen(s, p, {})}
GuardedPost(s, p, q) == {Demanding(s, {p}, {q}, {})}

\* SerialFormViewMixin: the form to create, the form to edit, and their way back
Forms(m, back) ==
  {Screen(<<"new", m>>, Add(m), {Plain(back)}),
   Screen(<<"edit", m>>, Change(m), {Plain(back)})}

\* A list that offers its edit form to whoever may view it
ListingForViewers(m, more) ==
  {Screen(List(m), View(m),
     {Link(<<"new", m>>, Add(m)), Link(<<"edit", m>>, View(m))} \union more)}
    \union Forms(m, List(m))

\* SerialListMixin and its lists: whoever may create or change is offered to.
Listing(m, more) ==
  {Screen(List(m), View(m),
     {Link(<<"new", m>>, Add(m)), Link(<<"edit", m>>, Change(m))} \union more)}
    \union Forms(m, List(m))

\* WMSListMixin, EdgeListMixin, EventBusListMixin, ConnectListMixin and their lists: the
\* edit form is offered without a test.
OpenListing(m, more) ==
  {Screen(List(m), View(m),
     {Link(<<"new", m>>, Add(m)), Plain(<<"edit", m>>)} \union more)}
    \union Forms(m, List(m))

ReadOnly(m, more) == {Screen(List(m), View(m), more)}

\* ConfigListMixin and ConfigFormMixin: only for administrators
CompanyListing(m) ==
  {CompanyScreen(List(m), {Plain(<<"new", m>>), Plain(<<"edit", m>>)}),
   CompanyScreen(<<"new", m>>, {Plain(List(m))}),
   CompanyScreen(<<"edit", m>>, {Plain(List(m))})}

Detail(m, links) == {Screen(<<"detail", m>>, View(m), links)}

\* A control screen that viewers may open and only those who may change may post to
Controlled(m, links) ==
  Detail(m, {Plain(<<"post", m>>), Plain(List(m)), Plain(<<"edit", m>>)} \union links)
    \union Post(<<"post", m>>, Change(m))

(***************************************************************************)
(* core/navigation.py: the bars of the modules                             *)
(***************************************************************************)
AssemblyMenu ==
  {Viewed(m) : m \in {"productionorder", "productionplan", "productionqueueitem",
     "serializedunit", "installedcomponent", "productionmeasurement", "unitstationevent",
     "qualitygate", "reworkorder", "releaseapproval", "linebalancestudy"}}
    \union {Menu(<<"panel", "console">>, Add("unitstationevent")),
            Menu(<<"panel", "genealogy">>, View("installedcomponent")),
            Plain(<<"panel", "metrics">>),
            Menu(<<"panel", "advanced">>, View("andonsignal"))}

\* of the other modules
OtherMenus ==
  [wms |-> {Viewed(m) : m \in {"inventorybalance", "inboundreceipt", "inventorymovement",
              "assemblykit", "pickmission", "kanbansignal", "assemblymaterialconsumption"}},
   edge |-> {Viewed(m) : m \in {"edgesignal", "edgehealthcheck", "edgecommand"}},
   eventbus |-> {Viewed(m) : m \in {"domainevent", "eventdelivery", "indicatorsnapshot"}},
   connect |-> {Viewed(m) : m \in {"outboundmessage", "inboundmessage", "reconciliationrun"}}]

(***************************************************************************)
(* assembly/views.py                                                       *)
(***************************************************************************)
PanelScreens ==
  {Screen(<<"panel", "assembly">>, View("serializedunit"),
     {Link(List("productionqueueitem"), View("productionqueueitem")),
      Link(List("linebalancestudy"), View("linebalancestudy")),
      AnyOf(<<"panel", "advanced">>, {View(m) : m \in {"andonsignal", "productiondowntime",
             "stationofflineevent", "modelmixplan", "externalmaterialkit"}}),
      Link(<<"panel", "console">>, Add("unitstationevent")),
      Link(List("qualitygate"), View("qualitygate")),
      Link(List("reworkorder"), View("reworkorder")),
      Link(<<"panel", "station_queue">>, View("productionqueueitem")),
      Link(<<"detail", "productionqueueitem">>, View("productionqueueitem"))}
     \union AssemblyMenu),
   Screen(<<"panel", "metrics">>, View("unitstationevent"), {})}

ConsoleScreen ==
  {Screen(<<"panel", "console">>, Add("unitstationevent"),
     {Link(<<"new", "productionmeasurement">>, Add("productionmeasurement")),
      Plain(<<"post", "console">>),
      AllOf(<<"scan", "console">>,
            {Add("assemblymaterialconsumption"), Add("installedcomponent")})})}
    \union Post(<<"post", "console">>, Add("unitstationevent"))

PlantScreens == Listing("plant", {}) \union Listing("plantarea", {})

UnitScreens ==
  Listing("serializedunit", {Plain(<<"detail", "serializedunit">>)})
    \union Detail("serializedunit",
         {Plain(<<"detail", "productionorder">>), Plain(List("serializedunit")),
          Link(<<"detail", "productionplan">>, Change("productionplan")),
          Link(<<"new", "productionmeasurement">>, Add("productionmeasurement")),
          Link(<<"edit", "serializedunit">>, Change("serializedunit"))})

OrderScreens ==
  Listing("productionorder", {Plain(<<"detail", "productionorder">>)})
    \union Detail("productionorder",
         {Link(<<"new", "productionplan">>, Add("productionplan")),
          Link(<<"edit", "productionorder">>, Change("productionorder")),
          Link(<<"detail", "productionplan">>, Change("productionplan")),
          Plain(<<"detail", "serializedunit">>), Plain(List("productionorder"))})

PlanListScreens ==
  Listing("productionplan",
          {Link(<<"detail", "productionplan">>, Change("productionplan"))})

\* Generating units and queueing them ask for one more permission each.
PlanControlScreen ==
  {Screen(<<"detail", "productionplan">>, Change("productionplan"),
     {Plain(<<"post", "productionplan">>), Plain(<<"generate", "productionplan">>),
      Plain(<<"sequence", "productionplan">>), Plain(<<"edit", "productionplan">>),
      Plain(<<"detail", "productionorder">>), Plain(<<"detail", "serializedunit">>),
      Plain(List("productionplan"))})}
    \union Post(<<"post", "productionplan">>, Change("productionplan"))
    \union GuardedPost(<<"generate", "productionplan">>, Change("productionplan"),
            Add("serializedunit"))
    \union GuardedPost(<<"sequence", "productionplan">>, Change("productionplan"),
            Add("productionqueueitem"))

QueueListScreens ==
  Listing("productionqueueitem",
          {Link(<<"detail", "productionqueueitem">>, Change("productionqueueitem")),
           Plain(<<"panel", "station_queue">>)})

QueueControlScreens ==
  {Screen(<<"detail", "productionqueueitem">>, Change("productionqueueitem"),
     {Plain(<<"post", "productionqueueitem">>), Plain(<<"edit", "productionqueueitem">>),
      Plain(<<"detail", "productionplan">>), Plain(<<"detail", "serializedunit">>),
      Plain(List("productionqueueitem"))})}
    \union Post(<<"post", "productionqueueitem">>, Change("productionqueueitem"))
    \union {Screen(<<"panel", "station_queue">>, View("productionqueueitem"),
          {Plain(<<"detail", "productionqueueitem">>), Plain(List("productionqueueitem"))})}

\* can_calculate hides the button of the study.
BalanceScreens ==
  Listing("linebalancestudy", {Plain(<<"detail", "linebalancestudy">>)})
    \union Detail("linebalancestudy",
         {Link(<<"post", "linebalancestudy">>, Change("linebalancestudy")),
          Plain(<<"edit", "linebalancestudy">>), Plain(List("linebalancestudy"))})
    \union Post(<<"post", "linebalancestudy">>, Change("linebalancestudy"))

AdvancedScreen ==
  {Screen(<<"panel", "advanced">>, View("serializedunit"),
     {Link(List(m), View(m)) : m \in {"andonsignal", "productiondowntime",
        "stationofflineevent", "modelmixplan", "externalmaterialkit"}}
     \union {Plain(<<"detail", m>>) : m \in {"andonsignal", "productiondowntime",
        "stationofflineevent"}})}

ToAdvanced(m) == {Plain(<<"detail", m>>), Plain(<<"panel", "advanced">>)}

AndonListScreens == Listing("andonsignal", ToAdvanced("andonsignal"))
AndonControlScreen ==
  Controlled("andonsignal", {Plain(<<"detail", "productiondowntime">>)})

DowntimeScreens ==
  Listing("productiondowntime", ToAdvanced("productiondowntime"))
    \union Controlled("productiondowntime", {})

\* To sync asks for the permission of the console, too; there is no form to edit.
OfflineScreens ==
  {Screen(List("stationofflineevent"), View("stationofflineevent"),
     ToAdvanced("stationofflineevent")
       \union {Link(<<"new", "stationofflineevent">>, Add("stationofflineevent"))}),
   Screen(<<"new", "stationofflineevent">>, Add("stationofflineevent"),
          {Plain(List("stationofflineevent"))})}
    \union Detail("stationofflineevent",
         {Plain(<<"post", "stationofflineevent">>), Plain(List("stationofflineevent"))})
    \union {Demanding(<<"post", "stationofflineevent">>,
            {Change("stationofflineevent"), Add("unitstationevent")}, {}, {})}

MixScreens ==
  Listing("modelmixplan", ToAdvanced("modelmixplan"))
    \union Controlled("modelmixplan",
         {Plain(<<"generate", "modelmixplan">>), Plain(<<"new", "modelmixplanitem">>),
          Plain(<<"edit", "modelmixplanitem">>), Plain(<<"detail", "productionplan">>)})
    \union GuardedPost(<<"generate", "modelmixplan">>, Change("modelmixplan"),
            Add("productionplan"))

MixItemScreens == Forms("modelmixplanitem", List("modelmixplan"))

ExternalKitScreens ==
  Listing("externalmaterialkit", {Plain(<<"panel", "advanced">>)})

ProductScreens == Listing("assembledproduct", {}) \union Listing("productversion", {})
LineScreens == Listing("assemblyline", {}) \union Listing("assemblystation", {})
RouteScreens == Listing("assemblyroute", {}) \union Listing("assemblyroutestep", {})
StepScreens ==
  Listing("routestepparameter", {}) \union Listing("routestepcomponentrequirement", {})
RecordScreens == Listing("unitstationevent", {}) \union Listing("productionmeasurement", {})

ComponentScreens ==
  Listing("installedcomponent", {Plain(<<"panel", "genealogy">>)})
    \union {Screen(<<"panel", "genealogy">>, View("installedcomponent"),
          {Plain(List("installedcomponent")), Plain(<<"detail", "serializedunit">>)})}

QualityScreens ==
  Listing("qualitygate", {Link(<<"review", "qualitygate">>, Change("qualitygate"))})
    \union {Screen(<<"review", "qualitygate">>, Change("qualitygate"),
          {Plain(List("qualitygate")), Plain(<<"detail", "serializedunit">>)})}

ReworkScreens ==
  Listing("reworkorder", {Link(<<"control", "reworkorder">>, Change("reworkorder"))})
    \union {Screen(<<"control", "reworkorder">>, Change("reworkorder"),
          {Plain(List("reworkorder")), Plain(<<"detail", "serializedunit">>),
           Plain(<<"review", "qualitygate">>)})}

ReleaseScreens == Listing("releaseapproval", {}) \union Listing("equipmentintegration", {})

AssemblyScreens ==
  UNION {PanelScreens, ConsoleScreen, PlantScreens, UnitScreens, OrderScreens,
         PlanListScreens, PlanControlScreen, QueueListScreens, QueueControlScreens,
         BalanceScreens, AdvancedScreen, AndonListScreens, AndonControlScreen,
         DowntimeScreens, OfflineScreens, MixScreens, MixItemScreens, ExternalKitScreens,
         ProductScreens, LineScreens, RouteScreens, StepScreens, RecordScreens,
         ComponentScreens, QualityScreens, ReworkScreens, ReleaseScreens}

(***************************************************************************)
(* wms/views.py                                                            *)
(***************************************************************************)
MaterialScreens ==
  {Screen(<<"panel", "wms">>, View("inventorybalance"), OtherMenus.wms)}
    \union OpenListing("materialcategory", {}) \union OpenListing("material", {})
LocationProfileScreens == OpenListing("wmslocationprofile", {})

ReceiptScreens ==
  OpenListing("inboundreceipt", {Plain(<<"detail", "inboundreceipt">>)})
    \union Detail("inboundreceipt",
         {Link(<<"new", "inboundreceiptline">>, Add("inboundreceiptline")),
          Link(<<"edit", "inboundreceipt">>, Change("inboundreceipt")),
          Link(<<"receive", "inboundreceiptline">>, Add("inventorymovement"))})
    \union {Screen(<<"new", "inboundreceiptline">>, Add("inboundreceiptline"),
          {Plain(<<"detail", "inboundreceipt">>)}),
       Screen(<<"receive", "inboundreceiptline">>, Add("inventorymovement"),
          {Plain(<<"detail", "inboundreceipt">>)})}

MovementScreens ==
  ReadOnly("inventorybalance", {})
    \union ReadOnly("inventorymovement",
         {Link(<<"new", "inventorymovement">>, Add("inventorymovement"))})
    \union {Screen(<<"new", "inventorymovement">>, Add("inventorymovement"),
          {Plain(List("inventorymovement"))})}

LineKitScreens ==
  OpenListing("assemblykit", {Plain(<<"detail", "assemblykit">>)})
    \union Detail("assemblykit",
         {Link(<<"new", "assemblykitline">>, Add("assemblykitline")),
          Link(<<"post", "assemblykit">>, Change("assemblykit")),
          Link(<<"new", "pickmission">>, Add("pickmission"))})
    \union {Screen(<<"new", "assemblykitline">>, Add("assemblykitline"),
          {Plain(<<"detail", "assemblykit">>)})}
    \union Post(<<"post", "assemblykit">>, Change("assemblykit"))

\* PickMissionActionView asks for the view permission and then, itself, for another.
PickingScreens ==
  ReadOnly("pickmission",
       {Link(<<"new", "pickmission">>, Add("pickmission")),
        Plain(<<"detail", "pickmission">>)})
    \union {Screen(<<"new", "pickmission">>, Add("pickmission"),
          {Plain(List("pickmission"))})}
    \union Detail("pickmission",
         {Link(<<"new", "picktask">>, Add("picktask")),
          Link(<<"release", "pickmission">>, Change("pickmission")),
          Link(<<"pick", "pickmission">>, Add("inventorymovement"))})
    \union {Screen(<<"new", "picktask">>, Add("picktask"),
          {Plain(<<"detail", "pickmission">>)})}
    \union GuardedPost(<<"release", "pickmission">>, View("pickmission"), Change("pickmission"))
    \union GuardedPost(<<"pick", "pickmission">>, View("pickmission"), Add("inventorymovement"))

KanbanScreens ==
  OpenListing("replenishmentrule", {})
    \union ReadOnly("kanbansignal", {Plain(<<"detail", "kanbansignal">>)})
    \union {Screen(<<"new", "kanbansignal">>, Add("kanbansignal"),
          {Plain(List("kanbansignal"))})}
    \union Detail("kanbansignal",
         {Link(<<"start", "kanbansignal">>, Add("pickmission")),
          Link(<<"fulfill", "kanbansignal">>, Change("kanbansignal")),
          Plain(<<"detail", "pickmission">>)})
    \union GuardedPost(<<"start", "kanbansignal">>, View("kanbansignal"), Add("pickmission"))
    \union GuardedPost(<<"fulfill", "kanbansignal">>, View("kanbansignal"), Change("kanbansignal"))

\* The console shows the scan only to those who hold both permissions of it.
ScanScreens ==
  ReadOnly("assemblymaterialconsumption", {})
    \union GuardedPost(<<"scan", "console">>, Add("assemblymaterialconsumption"),
            Add("installedcomponent"))

WmsScreens ==
  UNION {MaterialScreens, LocationProfileScreens, ReceiptScreens, MovementScreens,
         LineKitScreens, PickingScreens, KanbanScreens, ScanScreens}

(***************************************************************************)
(* edge/views.py, eventbus/views.py, connect/views.py                      *)
(***************************************************************************)
GatewayScreens ==
  {Screen(<<"panel", "edge">>, View("edgegateway"),
     {Plain(<<"detail", "edgegateway">>), Plain(<<"detail", "edgesignal">>)}
     \union OtherMenus.edge)}
    \union OpenListing("edgegateway", {Plain(<<"detail", "edgegateway">>)})
    \union Detail("edgegateway",
         {Link(<<"ping", "edgegateway">>, Add("edgecommand")),
          Link(<<"rotate", "edgegateway">>, Change("edgegateway")),
          Link(<<"edit", "edgegateway">>, Change("edgegateway")),
          Link(<<"new", "edgedevice">>, Add("edgedevice")),
          Plain(<<"detail", "edgesignal">>)})
    \union Post(<<"rotate", "edgegateway">>, Change("edgegateway"))
    \union Post(<<"ping", "edgegateway">>, Add("edgecommand"))

DeviceScreens == OpenListing("edgedevice", {}) \union OpenListing("edgesignalrule", {})

SignalScreens ==
  ReadOnly("edgesignal", {Plain(<<"detail", "edgesignal">>)})
    \union Detail("edgesignal", {Link(<<"retry", "edgesignal">>, Change("edgesignal"))})
    \union Post(<<"retry", "edgesignal">>, Change("edgesignal"))
    \union ReadOnly("edgehealthcheck", {})
    \union ReadOnly("edgecommand", {Link(<<"new", "edgecommand">>, Add("edgecommand"))})
    \union {Screen(<<"new", "edgecommand">>, Add("edgecommand"),
          {Plain(List("edgecommand"))})}

\* One test shows both buttons of the panel, and the second asks for something else.
EventScreens ==
  {Screen(<<"panel", "eventbus">>, View("domainevent"),
     {Link(<<"dispatch", "eventdelivery">>, Change("eventdelivery")),
      Link(<<"rebuild", "indicatorsnapshot">>, Change("eventdelivery")),
      Plain(<<"detail", "domainevent">>)} \union OtherMenus.eventbus)}
    \union OpenListing("eventtype", {})
    \union ReadOnly("domainevent", {Plain(<<"detail", "domainevent">>)})
    \union Detail("domainevent", {Link(<<"retry", "eventdelivery">>, Change("eventdelivery"))})

SubscriptionScreens ==
  OpenListing("eventsubscription", {})
    \union ReadOnly("eventdelivery", {Plain(<<"detail", "domainevent">>)})
    \union ReadOnly("indicatorsnapshot", {})
    \union Post(<<"dispatch", "eventdelivery">>, Change("eventdelivery"))
    \union Post(<<"retry", "eventdelivery">>, Change("eventdelivery"))
    \union Post(<<"seed", "eventtype">>, Add("eventtype"))
    \union Post(<<"rebuild", "indicatorsnapshot">>, Change("indicatorsnapshot"))

ConnectorScreens ==
  {Screen(<<"panel", "connect">>, View("connector"),
     {Link(<<"flush", "outboundmessage">>, Change("outboundmessage")),
      Link(<<"new", "reconciliationrun">>, Add("reconciliationrun")),
      Plain(<<"detail", "connector">>), Plain(<<"detail", "outboundmessage">>),
      Plain(<<"detail", "reconciliationrun">>)} \union OtherMenus.connect)}
    \union OpenListing("connector", {Plain(<<"detail", "connector">>)})
    \union Detail("connector",
         {Link(<<"edit", "connector">>, Change("connector")),
          Link(<<"new", "connectorcontract">>, Add("connectorcontract")),
          Plain(<<"detail", "outboundmessage">>)})

ContractScreens == OpenListing("connectorcontract", {})

MessageScreens ==
  ReadOnly("outboundmessage", {Plain(<<"detail", "outboundmessage">>)})
    \union Detail("outboundmessage",
         {Link(<<"send", "outboundmessage">>, Change("outboundmessage")),
          Plain(<<"detail", "domainevent">>)})
    \union ReadOnly("inboundmessage", {})
    \union ReadOnly("reconciliationrun", {Plain(<<"detail", "reconciliationrun">>)})
    \union Detail("reconciliationrun",
         {Link(<<"requeue", "reconciliationrun">>, Change("outboundmessage"))})

MessagePosts ==
  {Screen(<<"new", "reconciliationrun">>, Add("reconciliationrun"),
     {Plain(List("reconciliationrun"))})}
    \union Post(<<"flush", "outboundmessage">>, Change("outboundmessage"))
    \union Post(<<"send", "outboundmessage">>, Change("outboundmessage"))
    \union Post(<<"requeue", "reconciliationrun">>, Change("outboundmessage"))

BridgeScreens ==
  UNION {GatewayScreens, DeviceScreens, SignalScreens, EventScreens, SubscriptionScreens,
         ConnectorScreens, ContractScreens, MessageScreens, MessagePosts}

(***************************************************************************)
(* core/views.py and CONFIG_NAV of core/navigation.py                      *)
(***************************************************************************)
SettingsMenu ==
  {Plain(s) : s \in {<<"edit", "companyconfig">>, <<"panel", "system_info">>,
                     List("unitofmeasure"), List("warehouse"), List("location")}}
    \union {Viewed(m) : m \in {"plant", "plantarea", "assemblyline", "assemblystation",
      "equipmentintegration", "assembledproduct", "productversion", "assemblyroute",
      "assemblyroutestep", "routestepparameter", "routestepcomponentrequirement", "material",
      "materialcategory", "wmslocationprofile", "replenishmentrule", "edgegateway",
      "edgedevice", "edgesignalrule", "eventtype", "eventsubscription", "connector",
      "connectorcontract"}}

SettingsScreens ==
  {CompanyScreen(<<"panel", "settings">>, SettingsMenu),
   CompanyScreen(<<"panel", "system_info">>, SettingsMenu),
   CompanyScreen(<<"edit", "companyconfig">>, {Plain(<<"panel", "settings">>)})}

StoreScreens ==
  UNION {CompanyListing("unitofmeasure"), CompanyListing("warehouse"),
         CompanyListing("location")}

\* The users' screen has a test of its own, which does not know the admin group.
UserScreen ==
  {Unlisted(List("user"), "members", {})}

(***************************************************************************)
(* config/views.py and config/context_processors.py: the first page        *)
(***************************************************************************)
Rows(models) == {Link(List(m), View(m)) : m \in models}

\* module_access
SideBar ==
  {Link(<<"panel", "assembly">>, View("serializedunit")),
   Link(<<"panel", "wms">>, View("material")),
   Link(<<"panel", "edge">>, View("edgegateway")),
   Link(<<"panel", "eventbus">>, View("domainevent")),
   Link(<<"panel", "connect">>, View("connector")),
   AdminLink(List("user")), AdminLink(<<"panel", "settings">>)}

OpenIssues ==
  Rows({"andonsignal", "productiondowntime", "qualitygate", "reworkorder",
        "stationofflineevent", "externalmaterialkit"})

WorkflowSteps ==
  {AdminLink(<<"panel", "settings">>)}
    \union Rows({"productionplan", "productionqueueitem", "releaseapproval"})
    \union {Link(<<"panel", "console">>, Add("unitstationevent")),
            AnyOf(<<"panel", "advanced">>, {View(m) : m \in
              {"andonsignal", "productiondowntime", "qualitygate"}}),
            Link(<<"panel", "metrics">>, View("unitstationevent"))}

NextActions ==
  Rows({"stationofflineevent", "productiondowntime", "qualitygate", "reworkorder",
        "externalmaterialkit", "productionplan"})
    \union {Link(<<"panel", "console">>, Add("unitstationevent")),
            Link(<<"panel", "metrics">>, View("unitstationevent"))}

\* The cards of what counts today
KpiCards ==
  Rows({"productionplan", "qualitygate", "productiondowntime", "releaseapproval"})
    \union {Link(<<"panel", "metrics">>, View("unitstationevent")),
            AnyOf(<<"panel", "advanced">>, {View(m) : m \in {"andonsignal",
              "productiondowntime", "stationofflineevent", "modelmixplan",
              "externalmaterialkit"}})}

ModuleCards ==
  {Plain(<<"panel", "assembly">>), Plain(<<"panel", "advanced">>), Plain(List("qualitygate")),
   Plain(List("equipmentintegration"))}

\* The stations in the diagram lead to their queue or else to the console.
StationPoints ==
  Rows({"productionqueueitem"})
    \union {Link(<<"panel", "console">>, Add("unitstationevent"))}

\* The cards of the other areas offer what the side bar offers, on the same tests.
AreaCards == SideBar

Home == <<"panel", "home">>

\* Whoever may not see the production gets the side bar and its cards.
Dashboard(seesProduction) ==
  IF seesProduction
  THEN SideBar \union AreaCards \union StationPoints \union OpenIssues \union WorkflowSteps
         \union NextActions \union KpiCards \union ModuleCards
  ELSE SideBar \union AreaCards

(***************************************************************************)
(* Walking through them                                                    *)
(***************************************************************************)
HomeScreen == {Unlisted(Home, "anyone", Dashboard(TRUE))}

Pages ==
  UNION {AssemblyScreens, WmsScreens, BridgeScreens, SettingsScreens, StoreScreens,
         UserScreen, HomeScreen}

\* config/urls.py: what answers at an address
Catalog == [s \in {p.at : p \in Pages} |-> CHOOSE p \in Pages : p.at = s]

ASSUME EntrancesAssumption == Entrances \subseteq DOMAIN Catalog /\ MaxRevoked \in Nat

Holds(p) == who = "superuser" \/ p \in held

\* ModulePermissionMixin.has_permission, TenantAdminRequiredMixin.test_func, and what a
\* view asks for itself
Admits(s) ==
  LET screen == Catalog[s]
  IN /\ CASE screen.open = "module" -> who # "plain" \/ screen.needs \subseteq held
         [] screen.open = "company" -> who # "plain"
         [] screen.open = "members" -> who \in {"superuser", "company_admin"}
         [] OTHER -> TRUE
     /\ \A p \in screen.must : Holds(p)

\* SerialListMixin.can_create, _can of the bars, _has_perm and _is_tenant_admin of the
\* first page
Shows(l) ==
  CASE l.by = "permission" -> \E p \in l.tests : Holds(p)
    [] l.by = "permissions" -> \A p \in l.tests : Holds(p)
    [] l.by = "menu" -> who = "admin_group" \/ \E p \in l.tests : Holds(p)
    [] l.by = "company" -> who # "plain"
    [] OTHER -> TRUE

LinksOf(s) == IF s = Home THEN Dashboard(Holds(View("serializedunit"))) ELSE Catalog[s].links

\* The permissions that decide who sees link l of page s and who may follow it
Matters(s, l) ==
  Catalog[s].needs \union Catalog[s].must \union l.tests
    \union Catalog[l.to].needs \union Catalog[l.to].must
    \union (IF s = Home THEN {View("serializedunit")} ELSE {})

ShowPage(s) ==
  /\ Admits(s)
  /\ page' = s
  /\ shown' = {l \in LinksOf(s) : Shows(l)}
  /\ stale' = FALSE
  /\ UNCHANGED <<who, held, revoked>>

\* Somebody has signed in and knows an address.
SignedIn ==
  /\ who \in {"superuser", "admin_group", "company_admin", "plain"}
  /\ page \in Entrances
  /\ revoked = 0
  /\ Admits(page)
  /\ shown = {l \in LinksOf(page) : Shows(l)}
  /\ stale = FALSE

\* A bound: the role has some of the permissions that matter for one of the links there, and
\* a superuser, who needs none, has none.
ScreensInit ==
  /\ page \in Entrances
  /\ held \in {{}} \union UNION {SUBSET Matters(page, l) : l \in Catalog[page].links}
  /\ SignedIn
  /\ who = "superuser" => held = {}

\* A link that is refused (403) leaves the page as it was.
Follow == \E l \in shown : ShowPage(l.to)

\* TenantRoleUpdateView, or an edit of the group
Revoke(p) ==
  /\ revoked < MaxRevoked
  /\ p \in held
  /\ held' = held \ {p}
  /\ revoked' = revoked + 1
  /\ stale' = TRUE
  /\ UNCHANGED <<who, page, shown>>

ScreensNext == Follow \/ \E p \in held : Revoke(p)

ScreensSpec == ScreensInit /\ [][ScreensNext]_screenVars

\* The same with roles of any permissions whatever
AnyRoleSpec == SignedIn /\ [][ScreensNext]_screenVars

ScreensTypeOK ==
  /\ who \in {"superuser", "admin_group", "company_admin", "plain"}
  /\ page \in DOMAIN Catalog
  /\ shown \subseteq Catalog[page].links
  /\ stale \in BOOLEAN
  /\ revoked \in 0 .. MaxRevoked

(***************************************************************************)
(* Properties that hold.                                                   *)
(***************************************************************************)
\* Screens that are promised on another test than their own: the panel of advanced
\* functions, which asks for the units; of the panel of the warehouse, which asks for the
\* stock; of the control of a queued unit, when the panel of the plant shows it to viewers;
\* of the indicators' rebuilding, which has its own permission; and the users' screen.
PromisedByAnother ==
  {<<"panel", "advanced">>, <<"panel", "wms">>, <<"detail", "productionqueueitem">>,
   <<"rebuild", "indicatorsnapshot">>, List("user")}

\* A link or a button that a page shows on a test leads to a screen that serves the user,
\* unless the role has lost a permission since; and a plain user's page shows every link of
\* which the screen would serve the user.  The exceptions are listed above.
LinkIsAdmitted ==
  ~ stale => \A l \in LinksOf(page) : l.to \notin PromisedByAnother =>
               /\ l \in shown /\ l.by # "nothing" => Admits(l.to)
               /\ who = "plain" /\ Admits(l.to) => l \in shown
=============================================================================
