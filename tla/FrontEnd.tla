------------------------------ MODULE FrontEnd ------------------------------
(***************************************************************************)
(* The web front end, src/frontend/src/App.tsx.  A tab shows one page at a *)
(* time; what the page keeps is made anew when it is opened and forgotten  *)
(* when it is left, and the answers that come afterwards find nobody, so a *)
(* behaviour is one visit: of a page, of the list of spaces and the space  *)
(* it leads to, or of the pages that sign in and out, whose session the    *)
(* tabs of a browser share.                                                *)
(***************************************************************************)
EXTENDS Integers, Sequences, FiniteSets

CONSTANTS
  Tab, MaxSession, MaxSent,                       \* Sessions
  Space, SpaceType, Place, Price, Active, Typed,  \* BookListing
  Date, Slot, MaxAsk, MaxOrder,                   \* BookPage
  Bulk, Single, MaxLoad, MaxLost,                 \* ClientDocumentsPage
  Doc, MaxView,                                   \* DocumentViewer
  Draft, MaxWork, MaxUnseen,                      \* CompanyReviewPage
  Kyc, MaxCreate,                                 \* RegisterClientPage
  Hits, MaxCalls,                                 \* ListPages
  Resource, Kind, FirstOf, Priced, MaxPricing,    \* AdminPricing
  MaxSave,                                        \* InvoiceProfilePage
  MaxMoves, MaxVisits,                            \* ClientDashboard
  Amounts, Rates, GST_RATE, TDS_RATE, MaxTyping,  \* PaymentAmounts
  MaxAsked, MaxStops                              \* InvoiceFiles

SpaceTypes == {"CONFERENCE_ROOM", "DISCUSSION_ROOM", "DAY_PASS_DESK"}

ASSUME FrontEndAssumption ==
  /\ SpaceType \in [Space -> SpaceTypes] /\ Price \in [Space -> Nat]
  /\ Active \subseteq Space /\ Typed \subseteq Nat
  /\ Slot # {} /\ "none" \notin Date \cup Doc
  /\ Bulk \cap Single = {} /\ "signed" \notin Bulk \cup Single
  /\ Draft \subseteq Nat /\ Hits \subseteq 1..2
  /\ {MaxSession, MaxSent, MaxAsk, MaxOrder, MaxLoad, MaxLost, MaxView, MaxWork, MaxUnseen,
      MaxCreate, MaxCalls, MaxPricing, MaxSave, MaxMoves, MaxVisits, MaxTyping, MaxAsked,
      MaxStops} \subseteq Nat

\* The spaces of the prices; the first of a kind is one of them.
ASSUME SpacesAssumption ==
  /\ "none" \notin Resource
  /\ Kind \in [Resource -> SpaceTypes] /\ Priced \subseteq Resource
  /\ \A r \in Resource : FirstOf[Kind[r]] \in Resource /\ Kind[FirstOf[Kind[r]]] = Kind[r]

ASSUME AmountsAssumption ==
  /\ Amounts \cup Rates \subseteq Nat
  /\ GST_RATE \in Nat /\ GST_RATE % 2 = 0 /\ TDS_RATE \in Nat /\ TDS_RATE <= 10000

VARIABLES
  page, \* the page that is open
  \* Sessions
  role, session, expired, at, flag, says, requests, refused,
  \* BookListing
  listed, filters, search, opened,
  \* BookPage
  bookView, step, date, timer, pricing, pricingLoading, selected, details, submitting,
  questions, attempt, checkout, success, sent, overlap,
  \* ClientDocumentsPage
  uploaded, twice, stage, myDocuments, docsLoading, docsLoads, file, uploading, items,
  bulkUploading, reviewing, lost, docsUnseen,
  \* DocumentViewer
  viewerOpen, viewerFileUrl, viewerFileName, viewerLoading, fullscreen, coming, closedBy, mixed,
  \* CompanyReviewPage
  who, server, company, error, loads, work, modal, drafts, unknown, unseen, past,
  \* RegisterClientPage
  registerView, profile, profileLoading, savedInvoiceTo, invoiceTo, customizeInvoiceTo,
  saveInvoiceToProfile, filled, kycItems, currentStep, request, created, snapshot,
  \* ListPages
  list, asked, calls, listLoading, shown, pagination, crossed, hasty,
  \* AdminPricing
  price, rows, campaignForm, editing, editHourly, editDay, savingId, savingRows,
  pricesLoading, applying, todo, body, edited, applied, pricingWork,
  \* InvoiceProfilePage
  stored, form, loading, saving, touched, told, elsewhere, saves,
  \* ClientDashboard
  client, filed, awaited, dashboard, stale, before, lapsed, moves, visits,
  \* PaymentAmounts
  amounts, creating, onScreen, payment, letter, billed, inKarnataka, typings,
  \* InvoiceFiles
  setting, pdf, bucket, doing, letters, handed, spoilt, askings, stops

sessionVars  == <<role, session, expired, at, flag, says, requests, refused>>
spacesVars   == <<listed, filters, search, opened>>
bookVars     == <<bookView, step, date, timer, pricing, pricingLoading, selected, details,
                  submitting, questions, attempt, checkout, success, sent, overlap>>
docsVars     == <<uploaded, twice, stage, myDocuments, docsLoading, docsLoads, file, uploading,
                  items, bulkUploading, reviewing, lost, docsUnseen>>
viewerVars   == <<viewerOpen, viewerFileUrl, viewerFileName, viewerLoading, fullscreen, coming,
                  closedBy, mixed>>
reviewVars   == <<who, server, company, error, loads, work, modal, drafts, unknown, unseen, past>>
registerVars == <<registerView, profile, profileLoading, savedInvoiceTo, invoiceTo,
                  customizeInvoiceTo, saveInvoiceToProfile, filled, kycItems, currentStep,
                  request, created, snapshot>>
listsVars    == <<list, asked, calls, listLoading, shown, pagination, crossed, hasty>>
pricingVars  == <<price, rows, campaignForm, editing, editHourly, editDay, savingId, savingRows,
                  pricesLoading, applying, todo, body, edited, applied, pricingWork>>
profileVars  == <<stored, form, loading, saving, touched, told, elsewhere, saves>>
dashboardVars == <<client, filed, awaited, dashboard, stale, before, lapsed, moves, visits>>
amountsVars  == <<amounts, creating, onScreen, payment, letter, billed, inKarnataka, typings>>
filesVars    == <<setting, pdf, bucket, doing, letters, handed, spoilt, askings, stops>>

frontVars == <<page, sessionVars, spacesVars, bookVars, docsVars, viewerVars, reviewVars,
               registerVars, listsVars, pricingVars, profileVars, dashboardVars, amountsVars,
               filesVars>>

Session == INSTANCE Sessions

Spaces == INSTANCE BookListing

Book == INSTANCE BookPage WITH IsDesk <- FALSE
Desk == INSTANCE BookPage WITH IsDesk <- TRUE

Docs == INSTANCE ClientDocumentsPage

Viewer == INSTANCE DocumentViewer WITH Mobile <- FALSE
Phone == INSTANCE DocumentViewer WITH Mobile <- TRUE

Review == INSTANCE CompanyReviewPage

Register == INSTANCE RegisterClientPage

Lists == INSTANCE ListPages

Pricing == INSTANCE AdminPricing WITH MaxWork <- MaxPricing

Profile == INSTANCE InvoiceProfilePage

Dashboard == INSTANCE ClientDashboard

Money == INSTANCE PaymentAmounts

Files == INSTANCE InvoiceFiles

-----------------------------------------------------------------------------
Pages == {"session", "spaces", "room", "desk", "docs", "viewer", "phone", "review", "register",
          "lists", "pricing", "profile", "dashboard", "amounts", "files"}

\* The variables of the pages other than those of P stay as they are.
Others(P) ==
  /\ IF "session" \in P THEN TRUE ELSE UNCHANGED sessionVars
  /\ IF "spaces" \in P THEN TRUE ELSE UNCHANGED spacesVars
  /\ IF P \cap {"room", "desk"} # {} THEN TRUE ELSE UNCHANGED bookVars
  /\ IF "docs" \in P THEN TRUE ELSE UNCHANGED docsVars
  /\ IF P \cap {"viewer", "phone"} # {} THEN TRUE ELSE UNCHANGED viewerVars
  /\ IF "review" \in P THEN TRUE ELSE UNCHANGED reviewVars
  /\ IF "register" \in P THEN TRUE ELSE UNCHANGED registerVars
  /\ IF "lists" \in P THEN TRUE ELSE UNCHANGED listsVars
  /\ IF "pricing" \in P THEN TRUE ELSE UNCHANGED pricingVars
  /\ IF "profile" \in P THEN TRUE ELSE UNCHANGED profileVars
  /\ IF "dashboard" \in P THEN TRUE ELSE UNCHANGED dashboardVars
  /\ IF "amounts" \in P THEN TRUE ELSE UNCHANGED amountsVars
  /\ IF "files" \in P THEN TRUE ELSE UNCHANGED filesVars

\* Of the ways the pages may start, those of a page that is not open do not matter.
FrontInit ==
  /\ page \in Pages
  /\ Session!SessionInit /\ Spaces!ListInit /\ Book!BookInit
  /\ Docs!DocsInit /\ (page # "docs" => stage = "KYC_IN_PROGRESS")
  /\ IF page = "phone" THEN Phone!ViewerInit ELSE Viewer!ViewerInit
  /\ Review!ReviewInit
  /\ page # "review" => who.view /\ server.stage = "KYC_IN_PROGRESS"
  /\ Register!RegisterInit /\ (page # "register" => profile = Register!Empty)
  /\ Lists!ListsInit /\ (page # "lists" => list = "AdminPayments")
  /\ Pricing!PricingInit
  /\ Profile!ProfileInit /\ (page # "profile" => stored = Profile!EMPTY)
  /\ Dashboard!DashboardInit
  /\ page # "dashboard" =>
       client = [channel |-> "DIRECT", stage |-> "ADMIN_CREATED"] /\ filed = {}
  /\ Money!AmountsInit /\ (page # "amounts" => inKarnataka)
  /\ Files!FilesInit /\ (page # "files" => setting.storage /\ setting.contactEmail)

-----------------------------------------------------------------------------
\* The chosen space is shown on a page of its own, and the list is forgotten.
bookSpace ==
  /\ page = "spaces" /\ opened # "none"
  /\ page' = IF SpaceType[opened] = "DAY_PASS_DESK" THEN "desk" ELSE "room"
  /\ listed' = {} /\ filters' = Spaces!DEFAULT_FILTERS /\ search' = "" /\ opened' = "none"
  /\ Others({"spaces"})

pageStep ==
  /\ UNCHANGED page /\ Others({page})
  /\ \/ page = "session" /\ Session!SessionNext
     \/ page = "spaces" /\ opened = "none" /\ Spaces!ListNext
     \/ page = "room" /\ Book!BookNext
     \/ page = "desk" /\ Desk!BookNext
     \/ page = "docs" /\ Docs!DocsNext
     \/ page = "viewer" /\ Viewer!ViewerNext
     \/ page = "phone" /\ Phone!ViewerNext
     \/ page = "review" /\ Review!ReviewNext
     \/ page = "register" /\ Register!RegisterNext
     \/ page = "lists" /\ Lists!ListsNext
     \/ page = "pricing" /\ Pricing!PricingNext
     \/ page = "profile" /\ Profile!ProfileNext
     \/ page = "dashboard" /\ Dashboard!DashboardNext
     \/ page = "amounts" /\ Money!AmountsNext
     \/ page = "files" /\ Files!FilesNext

FrontNext == bookSpace \/ pageStep

FrontSpec == FrontInit /\ [][FrontNext]_frontVars

-----------------------------------------------------------------------------
(* Properties: those of the pages, which say more about each.              *)

\* An order asks only for slots that the answer for the ordered day offered, unless the
\* answers of two price questions overtook each other; and the success page is about that
\* order, not about the form as it is by then.
BookedAsShown == Book!OrderWasOffered /\ Book!SuccessShowsTheOrder

\* A file of a client's bulk upload is stored twice only after a lost answer, and at rest
\* the page lists every file that it calls uploaded.  The viewer shows a file under that
\* file's own name, unless it was opened again while an earlier file was on its way; and
\* whoever leaves it by the Escape key alone can scroll the page again.
DocumentsAsShown == /\ Docs!NothingStoredTwice /\ Docs!UploadsAreListed
                    /\ Viewer!NameOfTheFile /\ Viewer!EscapeFreesThePage

\* The review page shows the company as it is once its loads have come, unless it was
\* changed elsewhere or loads overlapped; while it is up to date it asks for no second
\* payment link and takes the company back to no earlier stage; and a draft of the
\* agreement is stored twice only by the retry of a batch that failed in part.
ReviewedAsShown == /\ Review!ShowsTheCompany
                   /\ Review!OnePaymentLink
                   /\ Review!KycCompleteOnlyForward
                   /\ Review!DraftsStoredOnce

\* A second company is registered in a visit only after a lost answer, the page is not
\* left before every KYC file of the client was sent, and a field of "Invoice To" that is
\* filled in is on the booking as it was shown.
RegisteredAsFilledIn == /\ Register!OneCompanyPerVisit
                        /\ Register!EveryFileSent
                        /\ Register!InvoicedAsFilledIn

\* The booking of a new client is invoiced to what "Invoice To" showed.
InvoicedAsShown == Register!InvoicedAsShown

\* The rows of a list are those of the page and the filters on the screen, that page is
\* one the list has, and the list of spaces hides none of a usual price while it says
\* that no filter is on.
RowsAreOfThePage == /\ Lists!RowsAreOfTheFilters
                    /\ Lists!PageExists
                    /\ Spaces!NothingHiddenUnsaid

\* Whoever looks at the onboarding of a company sees it called complete exactly when the
\* company is active, and never less of it than before; the parts of the dashboard tell
\* one story, and ask the client for what the server takes.
TrackedAsItIs == /\ Dashboard!CompleteWhenActive
                 /\ Dashboard!ProgressIsKept
                 /\ Dashboard!OneTimeline
                 /\ Dashboard!AsksForWhatIsTaken

\* A payment link is for what the admin saw beside the button, its mail adds up to it,
\* and the invoice is for what was paid if the link had its taxes on it.
ChargedAsShown == Money!ChargedAsShown /\ Money!InvoicedAsPaid

\* An invoice that names its file has it, no link to it is dead or over its week, and the
\* client is mailed once at most, and once for sure unless the second attempt fails too.
InvoiceFileIsThere == Files!FileIsThere /\ Files!MailedOnce

\* No price meant for one kind of space ends up on another, a price campaign that says it
\* was done has reached every space, and a save of the invoice profile leaves the fields
\* alone that the aggregator left alone.
SavedAsMeant == /\ [](Pricing!PriceOfItsKind /\ Pricing!CampaignReachesAll)
                /\ [][Profile!SaveKeepsUntouched]_profileVars

\* No guard sends back whoever has just signed in, and a tab says that the session
\* expired only where a request of its own was refused, once.
SignedInIsIn == [][Session!SignInLetsIn]_sessionVars /\ []Session!SaidOnce

=============================================================================
