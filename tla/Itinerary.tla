------------------------------ MODULE Itinerary ------------------------------
(***************************************************************************)
(* ItineraryService (days and items of a trip) with                        *)
(* BookingsService.attachBookingToItineraryItem and CollabService's        *)
(* comments, which write or refer to the same items.  Bookings and days    *)
(* are never deleted.                                                      *)
(***************************************************************************)
EXTENDS TripCalls, FiniteSetsExt

CONSTANTS
  DayKeys, ItemKeys, CommentKeys,
  Dates,        \* calendar dates
  BookingKeys,  \* the bookings of the trip, all of them present
  MaxIndex      \* bound: the largest dayIndex that a request gives

ASSUME ItineraryAssumption ==
  /\ DayKeys \cup ItemKeys \cup CommentKeys \subseteq Keys
  /\ DayKeys \cap ItemKeys = {}
  /\ None \notin Dates \cup BookingKeys
  /\ MaxIndex \in Nat

ItineraryDay == [date : Dates, index : Nat]
ItineraryItem == [day : DayKeys \cup {None}, booking : BookingKeys \cup {None}]
Comment == [item : ItemKeys \cup {None}]
ASSUME ItemIsRow == None \notin ItineraryItem

\* What an update asks of the item's day: a day, None to unassign it, or nothing.
DayInput == DayKeys \cup {None, "keep"}

DaySteps == {"day.save", "day.publish"}
ItemSteps == {"item.save", "item.day", "item.update", "item.attach", "item.remove",
              "item.publish"}
CommentSteps == {"comment.save", "comment.publish"}

Days == {k \in DayKeys : row[k] # None}

-----------------------------------------------------------------------------
(* createDay(): the index is the request's, or one more than the last.      *)

NextIndex == IF Days = {} THEN 0 ELSE Max({row[k].index : k \in Days}) + 1

DayFind(q, date, index) ==
  /\ Begin(q, "day.save", [NoLocals EXCEPT !.op = "ITINERARY_DAY_CREATED",
             !.copy = [date |-> date, index |-> IF index = None THEN NextIndex ELSE index]])
  /\ UNCHANGED tableVars

\* The unique index on (trip, date) refuses a second day of one date.
DaySave(q, k) ==
  /\ pc[q] = "day.save"
  /\ \/ /\ \A d \in Days : row[d].date # loc[q].copy.date
        /\ Insert(k, loc[q].copy)
        /\ GoWith(q, "day.publish", [loc[q] EXCEPT !.key = k])
     \/ /\ \E d \in Days : row[d].date = loc[q].copy.date
        /\ End(q)
        /\ UNCHANGED <<row, used>>
  /\ UNCHANGED told

-----------------------------------------------------------------------------
(* createItem(): 404 unless the day is one of this trip.                    *)

ItemFindDay(q, day) ==
  /\ day \in Days \cup {None}
  /\ Begin(q, "item.save", [NoLocals EXCEPT !.op = "ITINERARY_ITEM_CREATED",
                              !.copy = [day |-> day, booking |-> None]])
  /\ UNCHANGED tableVars

ItemSave(q, k) ==
  /\ pc[q] = "item.save"
  /\ Insert(k, loc[q].copy)
  /\ GoWith(q, "item.publish", [loc[q] EXCEPT !.key = k])
  /\ UNCHANGED told

-----------------------------------------------------------------------------
(* updateItem(): the item, then the day it moves to, then the save.         *)

ItemFind(q, k, input) ==
  /\ row[k] # None
  /\ Begin(q, IF input \in DayKeys THEN "item.day" ELSE "item.update",
           [NoLocals EXCEPT !.op = "ITINERARY_ITEM_UPDATED", !.key = k, !.copy = row[k],
                            !.input = input])
  /\ UNCHANGED tableVars

\* Mutant: the day that is asked for is not looked up.
ItemDayUnchecked(q) ==
  /\ pc[q] = "item.day"
  /\ GoWith(q, "item.update", loc[q])
  /\ UNCHANGED tableVars

ItemDay(q) ==
  /\ pc[q] = "item.day"
  /\ IF loc[q].input \in Days THEN GoWith(q, "item.update", loc[q]) ELSE End(q)
  /\ UNCHANGED tableVars

\* Mutant: a day that the request does not give is written as well.
WantedRaw(copy, input) == [copy EXCEPT !.day = input]

\* What the request wants the item to be; what the event and the answer say.
Wanted(copy, input) == IF input = "keep" THEN copy ELSE [copy EXCEPT !.day = input]

\* To unassign, the code sets dayId to undefined, a property that save() skips:
\* an update leaves the column as it is in the table.
ItemUpdate(q) ==
  LET k == loc[q].key
      wanted == Wanted(loc[q].copy, loc[q].input)
      skipped == loc[q].input = None /\ row[k] # None
  IN
  /\ pc[q] = "item.update"
  /\ SaveBack(k, IF skipped THEN [wanted EXCEPT !.day = row[k].day] ELSE wanted)
  /\ GoWith(q, "item.publish", [loc[q] EXCEPT !.copy = wanted])
  /\ UNCHANGED told

-----------------------------------------------------------------------------
(* attachBookingToItineraryItem() reads booking and item, saves the item.   *)

AttachFind(q, k, b) ==
  /\ row[k] # None
  /\ Begin(q, "item.attach", [NoLocals EXCEPT !.op = "BOOKING_ATTACHED", !.key = k,
                                !.copy = [row[k] EXCEPT !.booking = b]])
  /\ UNCHANGED tableVars

\* Mutant: the booking is set in memory only.
AttachSaveForgotten(q) ==
  /\ pc[q] = "item.attach"
  /\ GoWith(q, "item.publish", loc[q])
  /\ UNCHANGED tableVars

AttachSave(q) ==
  /\ pc[q] = "item.attach"
  /\ SaveBack(loc[q].key, loc[q].copy)
  /\ GoWith(q, "item.publish", loc[q])
  /\ UNCHANGED told

-----------------------------------------------------------------------------
(* deleteItem(); the foreign key sets the item of its comments to NULL.     *)

ItemFindDoomed(q, k) ==
  /\ row[k] # None
  /\ Begin(q, "item.remove", [NoLocals EXCEPT !.op = "ITINERARY_ITEM_DELETED", !.key = k])
  /\ UNCHANGED tableVars

CommentsOf(k) == {c \in CommentKeys : row[c] # None /\ row[c].item = k}

ItemRemove(q) ==
  LET doomed == loc[q].key IN
  /\ pc[q] = "item.remove"
  /\ row' = [k \in Keys |-> IF k = doomed THEN None
                            ELSE IF k \in CommentsOf(doomed) THEN [item |-> None] ELSE row[k]]
  /\ GoWith(q, "item.publish", loc[q])
  /\ UNCHANGED <<used, told>>

-----------------------------------------------------------------------------
(* createComment(): about an item of the trip or about the trip; the        *)
(* foreign key refuses an item that has been deleted since it was found.    *)

CommentFind(q, item) ==
  /\ item # None => row[item] # None
  /\ Begin(q, "comment.save", [NoLocals EXCEPT !.op = "COMMENT_CREATED",
                                 !.copy = [item |-> item]])
  /\ UNCHANGED tableVars

CommentSave(q, k) ==
  LET item == loc[q].copy.item IN
  /\ pc[q] = "comment.save"
  /\ IF item = None \/ row[item] # None
     THEN Insert(k, loc[q].copy) /\ GoWith(q, "comment.publish", [loc[q] EXCEPT !.key = k])
     ELSE End(q) /\ UNCHANGED <<row, used>>
  /\ UNCHANGED told

DayNext ==
  \E q \in Calls :
    \/ \E date \in Dates, index \in 0..MaxIndex \cup {None} : DayFind(q, date, index)
    \/ \E k \in DayKeys : DaySave(q, k)
    \/ Publish(q, "day.publish")

ItemNext ==
  \E q \in Calls :
    \/ \E day \in DayKeys \cup {None} : ItemFindDay(q, day)
    \/ \E k \in ItemKeys :
         \/ ItemSave(q, k) \/ ItemFindDoomed(q, k)
         \/ \E input \in DayInput : ItemFind(q, k, input)
    \/ ItemDay(q) \/ ItemUpdate(q) \/ ItemRemove(q)
    \/ Publish(q, "item.publish")

AttachNext ==
  \E q \in Calls :
    \/ \E k \in ItemKeys, b \in BookingKeys : AttachFind(q, k, b)
    \/ AttachSave(q)

CommentNext ==
  \E q \in Calls :
    \/ \E item \in ItemKeys \cup {None} : CommentFind(q, item)
    \/ \E k \in CommentKeys : CommentSave(q, k)
    \/ Publish(q, "comment.publish")
-----------------------------------------------------------------------------
(* "item.dayId = undefined; // unassign" (updateItem): once a call has said *)
(* that an item is on no day, and no other call is about it, it is on none. *)
UnassignedIsOnNoDay ==
  ~disturbed /\ Quiescent =>
    \A k \in ItemKeys : told[k].row # None /\ told[k].row.day = None /\ row[k] # None
                          => row[k].day = None
=============================================================================
