---------------------------- MODULE StoreBookings ----------------------------
(***************************************************************************)
(* The slices of the store behind the booking pages: bookings, booking     *)
(* requests, lifecycles and booking types, the contention forecast, and    *)
(* environment requests.  See Effects for the vocabulary.                  *)
(***************************************************************************)
EXTENDS Effects

(* ---- bookingSlice ---- *)
BookingCalls ==
    [fetchBookings |-> "query", createBooking |-> "new", getBooking |-> "id",
     deleteOccurrence |-> "write", deleteSeries |-> "write",
     fetchConflicts |-> "of", acknowledgeConflict |-> "write"]

BookingReducers ==
    [clearOverlapWarnings |-> {Wipe("overlapWarnings")},
     clearSelectedBooking |-> {Wipe("selectedBooking")}]

BookingCases ==
    [fetchBookings |-> Guarded("aborted",
        Spins("listLoading", "error", {Put("bookings")})),
     createBooking |-> Case(
        {Up("loading"), NoErr("error"), Wipe("overlapWarnings")},
        {Down("loading"), Add("bookings"), Put("overlapWarnings")},
        {Down("loading"), Err("error")}),
     getBooking |-> Spins("loading", "error", {Put("selectedBooking")}),
     deleteOccurrence |-> Spins("loading", "error",
        {Merge("bookings"), Forget("selectedBooking")}),
     deleteSeries |-> Spins("loading", "error",
        {Merge("bookings"), Forget("selectedBooking")}),
     fetchConflicts |-> Case({}, {PutAt("conflicts")}, {Err("error")}),
     acknowledgeConflict |-> Case({}, {MergeAt("conflicts")}, {Err("error")})]

(* ---- bookingRequestSlice ---- *)
BookingRequestCalls ==
    [fetchBookingRequests |-> "all", fetchBookingRequest |-> "id",
     createBookingRequest |-> "new", addEnvironmentToRequest |-> "write",
     removeEnvironmentFromRequest |-> "write",
     updateRequestStandardFields |-> "write", updateRequestCustomFields |-> "write"]

BookingRequestCases ==
    [fetchBookingRequests |-> Spins("loading", "error", {Put("requests")}),
     fetchBookingRequest |-> Settles({Add("requests")}),
     createBookingRequest |-> Settles({Add("requests")}),
     addEnvironmentToRequest |-> Unseen,
     removeEnvironmentFromRequest |-> Unseen,
     updateRequestStandardFields |-> Settles({Merge("requests")}),
     updateRequestCustomFields |-> Settles({Merge("requests")})]

(* ---- bookingLifecycleSlice: templates are kept per entity type ---- *)
BookingLifecycleCalls ==
    [fetchLifecycleTemplates |-> "of", fetchBookingTypes |-> "all",
     createLifecycleTemplate |-> "write", updateLifecycleTemplate |-> "write",
     copyLifecycleTemplate |-> "write", createBookingType |-> "new",
     updateBookingType |-> "write", deleteLifecycleTemplate |-> "write",
     deleteBookingType |-> "write"]

BookingLifecycleCases ==
    [fetchLifecycleTemplates |-> Spins("loading", "error", {PutAt("templatesByEntity")}),
     fetchBookingTypes |-> Spins("loading", "error", {Put("bookingTypes")}),
     createLifecycleTemplate |-> Settles({AddAt("templatesByEntity")}),
     updateLifecycleTemplate |-> Settles({MergeAt("templatesByEntity")}),
     copyLifecycleTemplate |-> Settles({AddAt("templatesByEntity")}),
     createBookingType |-> Settles({Add("bookingTypes")}),
     updateBookingType |-> Settles({Merge("bookingTypes")}),
     deleteLifecycleTemplate |-> Settles({MergeAt("templatesByEntity")}),
     deleteBookingType |-> Settles({Merge("bookingTypes")})]

(* ---- contentionForecastSlice: the newest request wins ---- *)
ContentionForecastCalls == [fetchContentionHorizon |-> "query"]

(* Mutant: an overtaken answer is kept.                                    *)
ContentionForecastCases_LastComes ==
    [fetchContentionHorizon |-> Spins("loading", "error", {Put("count")})]

ContentionForecastCases ==
    [fetchContentionHorizon |-> Guarded("latest",
        Spins("loading", "error", {Put("count")}))]

(* ---- environmentRequestSlice ---- *)
EnvironmentRequestCalls ==
    [fetchEnvironmentRequests |-> "query", fetchEnvironmentRequest |-> "id",
     createEnvironmentRequest |-> "new", updateEnvironmentRequest |-> "write",
     transitionEnvironmentRequest |-> "write", fetchAllowedTransitions |-> "of",
     fetchWelcomePack |-> "id", updateEnvironmentHandover |-> "write"]

EnvironmentRequestCases ==
    [fetchEnvironmentRequests |-> Case(
        {Up("loading"), NoErr("error")},
        {Down("loading"), NoErr("error"), Put("requests")},
        {Down("loading"), Err("error")}),
     fetchEnvironmentRequest |-> Case(
        {Up("loading"), NoErr("error"), Wipe("current")},
        {Down("loading"), NoErr("error"), Put("current")},
        {Down("loading"), Err("error")}),
     createEnvironmentRequest |-> Unseen,
     updateEnvironmentRequest |-> Unseen,
     transitionEnvironmentRequest |-> Settles({Put("current")}),
     fetchAllowedTransitions |-> Settles({Put("allowedTransitions")}),
     fetchWelcomePack |-> Case(
        {Up("welcomePackLoading"), NoErr("welcomePackError"), Wipe("welcomePack")},
        {Down("welcomePackLoading"), NoErr("welcomePackError"), Put("welcomePack")},
        {Down("welcomePackLoading"), Err("welcomePackError"), Wipe("welcomePack")}),
     updateEnvironmentHandover |-> Unseen]

BookingStore ==
    [booking |-> Slice(BookingCalls, BookingCases, BookingReducers),
     bookingRequest |-> Slice(BookingRequestCalls, BookingRequestCases, NoReducers),
     bookingLifecycle |-> Slice(BookingLifecycleCalls, BookingLifecycleCases, NoReducers),
     contentionForecast |-> Slice(ContentionForecastCalls, ContentionForecastCases, NoReducers),
     environmentRequest |-> Slice(EnvironmentRequestCalls, EnvironmentRequestCases, NoReducers)]
=============================================================================
