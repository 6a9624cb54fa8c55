------------------------- MODULE EventSourced_proofs -------------------------
(* What TLAPS proves of the aggregates that are rebuilt from their events, for
   any streams, sessions and events: what an instance is is followed event by
   event.  And of all the aggregates, the pipeline and the
   requests side by side, as MCAggregates composes them. *)
EXTENDS MCAggregates, Aggregates_proofs, Replay_proofs

-----------------------------------------------------------------------------
(* The user aggregate. *)

Tells(events) == FoldLeft(Says, NewUser, events)

SaysStep == [p \in UserState \X UserEvent |-> Says(p[1], p[2])]
ApplyStep == [p \in UserState \X UserEvent |-> Apply(p[1], p[2])]

LEMMA UserEventTypes ==
    ASSUME NEW e \in UserEvent
    PROVE  /\ e.type \in {"UserRegistered", "UserDisabled", "UserEnabled", "RoleGrantedToUser",
                          "UserAddedToTenant"}
           /\ e.type = "RoleGrantedToUser" => e.role \in Roles
           /\ e.type = "UserAddedToTenant" => e.tenant \in Tenants
BY DEF UserEvent

LEMMA SaysTyped ==
    /\ NewUser \in UserState
    /\ \A u \in UserState, e \in UserEvent : Says(u, e) \in UserState
    /\ SaysStep \in [UserState \X UserEvent -> UserState]
<1>1. NewUser \in UserState
  BY DEF NewUser, UserState
<1>2. ASSUME NEW u \in UserState, NEW e \in UserEvent PROVE Says(u, e) \in UserState
  <2>1. CASE e.type = "UserRegistered"
    BY <1>1, <2>1 DEF Says
  <2>2. CASE e.type = "UserDisabled"
    BY <2>2 DEF Says, UserState
  <2>3. CASE e.type = "UserEnabled"
    BY <2>3 DEF Says, UserState
  <2>4. CASE e.type = "UserAddedToTenant"
    BY <2>4, UserEventTypes DEF Says, UserState
  <2>5. CASE e.type = "RoleGrantedToUser"
    BY <2>5, UserEventTypes DEF Says, UserState
  <2> QED  BY <2>1, <2>2, <2>3, <2>4, <2>5, UserEventTypes
<1>3. SaysStep \in [UserState \X UserEvent -> UserState]
  BY <1>2 DEF SaysStep
<1> QED  BY <1>1, <1>2, <1>3

LEMMA TellsReplays ==
    ASSUME NEW s \in Seq(UserEvent)
    PROVE  \E f \in [SUBSET DOMAIN s -> UserState] :
               Replays(SaysStep, NewUser, s, f) /\ Tells(s) = f[DOMAIN s]
<1> DEFINE Chosen(f) == f = [t \in SUBSET DOMAIN s |->
                                IF t = {} THEN NewUser ELSE Says(f[t \ {Max(t)}], s[Max(t)])]
<1>1. PICK f \in [SUBSET DOMAIN s -> UserState] : Replays(SaysStep, NewUser, s, f)
  BY SaysTyped, ReplayExists
<1>2. ASSUME NEW t \in SUBSET DOMAIN s, t # {}
      PROVE  /\ Max(t) \in 1 .. Len(s) /\ s[Max(t)] \in UserEvent
             /\ t \ {Max(t)} \in SUBSET DOMAIN s
             /\ SaysStep[<<f[t \ {Max(t)}], s[Max(t)]>>] = Says(f[t \ {Max(t)}], s[Max(t)])
  <2>1. Max(t) \in 1 .. Len(s)
    BY <1>2, LastOfSome, Len(s) \in Nat, DOMAIN s = 1 .. Len(s)
  <2>2. s[Max(t)] \in UserEvent /\ f[t \ {Max(t)}] \in UserState
    BY <2>1
  <2> QED  BY <2>1, <2>2 DEF SaysStep
<1>3. Chosen(f)
  BY <1>1, <1>2 DEF Replays
<1>4. Tells(s) = (CHOOSE h : Chosen(h))[DOMAIN s]
  BY DEF Tells, FoldLeft, MapThenFoldSet
<1> DEFINE h == CHOOSE h : Chosen(h)
<1>5. Chosen(h)
  <2> HIDE DEF Chosen
  <2> QED  BY <1>3
<1>6. f[DOMAIN s] = h[DOMAIN s]
  <2>1. f[{}] = h[{}]
    BY <1>1, <1>5 DEF Replays
  <2>2. ASSUME NEW t \in SUBSET DOMAIN s, t # {}, f[t \ {Max(t)}] = h[t \ {Max(t)}]
        PROVE  f[t] = h[t]
    <3>1. f[t] = Says(f[t \ {Max(t)}], s[Max(t)])
      BY <1>3, <2>2
    <3>2. h[t] = Says(h[t \ {Max(t)}], s[Max(t)])
      BY <1>5, <2>2
    <3> QED  BY <2>2, <3>1, <3>2
  <2> HIDE DEF h
  <2>3. \A t \in SUBSET DOMAIN s : f[t] = h[t]
    <3>1. Len(s) \in Nat /\ DOMAIN s = 1 .. Len(s)
      OBVIOUS
    <3>2. GoTogether(Len(s), f, h)
      BY <2>1, <2>2, <3>1 DEF GoTogether
    <3>3. \A t \in SUBSET (1 .. Len(s)) : f[t] = h[t]
      BY <3>1, <3>2, SameReplay
    <3> QED  BY <3>1, <3>3
  <2> QED  BY <2>3
<1> QED  BY <1>1, <1>4, <1>6

\* What a stream tells, event by event.
LEMMA TellsByEvent ==
    /\ Tells(<<>>) = NewUser
    /\ \A s \in Seq(UserEvent) : Tells(s) \in UserState
    /\ \A s \in Seq(UserEvent), e \in UserEvent : Tells(Append(s, e)) = Says(Tells(s), e)
<1> DEFINE r == [s \in Seq(UserEvent) |-> Tells(s)]
<1>1. IsFold(UserState, UserEvent, SaysStep, NewUser, r)
  BY TellsReplays DEF IsFold
<1>2. /\ r[<<>>] = NewUser
      /\ \A s \in Seq(UserEvent) : r[s] \in UserState
      /\ \A s \in Seq(UserEvent), e \in UserEvent : r[Append(s, e)] = SaysStep[<<r[s], e>>]
  <2> HIDE DEF r
  <2> QED  BY <1>1, FoldByEvent
<1>3. /\ <<>> \in Seq(UserEvent)
      /\ \A s \in Seq(UserEvent), e \in UserEvent : Append(s, e) \in Seq(UserEvent)
  OBVIOUS
<1> QED  BY <1>2, <1>3 DEF SaysStep

LEMMA ApplyTyped ==
    /\ NewUser \in UserState
    /\ \A u \in UserState, e \in UserEvent : Apply(u, e) \in UserState
    /\ ApplyStep \in [UserState \X UserEvent -> UserState]
<1>1. NewUser \in UserState
  BY DEF NewUser, UserState
<1>2. ASSUME NEW u \in UserState, NEW e \in UserEvent PROVE Apply(u, e) \in UserState
  <2>1. CASE e.type = "UserRegistered"
    BY <1>1, <2>1 DEF Apply
  <2>2. CASE e.type = "UserDisabled"
    BY <2>2 DEF Apply, UserState
  <2>3. CASE e.type = "UserEnabled"
    BY <2>3 DEF Apply, UserState
  <2>4. CASE e.type = "UserAddedToTenant"
    BY <2>4, UserEventTypes DEF Apply, UserState
  <2>5. CASE e.type = "RoleGrantedToUser"
    BY <2>5, UserEventTypes DEF Apply, UserState
  <2> QED  BY <2>1, <2>2, <2>3, <2>4, <2>5, UserEventTypes
<1>3. ApplyStep \in [UserState \X UserEvent -> UserState]
  BY <1>2 DEF ApplyStep
<1> QED  BY <1>1, <1>2, <1>3

LEMMA RehydrateReplays ==
    ASSUME NEW s \in Seq(UserEvent)
    PROVE  \E f \in [SUBSET DOMAIN s -> UserState] :
               Replays(ApplyStep, NewUser, s, f) /\ Rehydrate(s) = f[DOMAIN s]
<1> DEFINE Chosen(f) == f = [t \in SUBSET DOMAIN s |->
                                IF t = {} THEN NewUser ELSE Apply(f[t \ {Max(t)}], s[Max(t)])]
<1>1. PICK f \in [SUBSET DOMAIN s -> UserState] : Replays(ApplyStep, NewUser, s, f)
  BY ApplyTyped, ReplayExists
<1>2. ASSUME NEW t \in SUBSET DOMAIN s, t # {}
      PROVE  /\ Max(t) \in 1 .. Len(s) /\ s[Max(t)] \in UserEvent
             /\ t \ {Max(t)} \in SUBSET DOMAIN s
             /\ ApplyStep[<<f[t \ {Max(t)}], s[Max(t)]>>] = Apply(f[t \ {Max(t)}], s[Max(t)])
  <2>1. Max(t) \in 1 .. Len(s)
    BY <1>2, LastOfSome, Len(s) \in Nat, DOMAIN s = 1 .. Len(s)
  <2>2. s[Max(t)] \in UserEvent /\ f[t \ {Max(t)}] \in UserState
    BY <2>1
  <2> QED  BY <2>1, <2>2 DEF ApplyStep
<1>3. Chosen(f)
  BY <1>1, <1>2 DEF Replays
<1>4. Rehydrate(s) = (CHOOSE h : Chosen(h))[DOMAIN s]
  BY DEF Rehydrate, FoldLeft, MapThenFoldSet
<1> DEFINE h == CHOOSE h : Chosen(h)
<1>5. Chosen(h)
  <2> HIDE DEF Chosen
  <2> QED  BY <1>3
<1>6. f[DOMAIN s] = h[DOMAIN s]
  <2>1. f[{}] = h[{}]
    BY <1>1, <1>5 DEF Replays
  <2>2. ASSUME NEW t \in SUBSET DOMAIN s, t # {}, f[t \ {Max(t)}] = h[t \ {Max(t)}]
        PROVE  f[t] = h[t]
    <3>1. f[t] = Apply(f[t \ {Max(t)}], s[Max(t)])
      BY <1>3, <2>2
    <3>2. h[t] = Apply(h[t \ {Max(t)}], s[Max(t)])
      BY <1>5, <2>2
    <3> QED  BY <2>2, <3>1, <3>2
  <2> HIDE DEF h
  <2>3. \A t \in SUBSET DOMAIN s : f[t] = h[t]
    <3>1. Len(s) \in Nat /\ DOMAIN s = 1 .. Len(s)
      OBVIOUS
    <3>2. GoTogether(Len(s), f, h)
      BY <2>1, <2>2, <3>1 DEF GoTogether
    <3>3. \A t \in SUBSET (1 .. Len(s)) : f[t] = h[t]
      BY <3>1, <3>2, SameReplay
    <3> QED  BY <3>1, <3>3
  <2> QED  BY <2>3
<1> QED  BY <1>1, <1>4, <1>6

\* What an instance is rebuilt to, event by event.
LEMMA RehydrateByEvent ==
    /\ Rehydrate(<<>>) = NewUser
    /\ \A s \in Seq(UserEvent) : Rehydrate(s) \in UserState
    /\ \A s \in Seq(UserEvent), e \in UserEvent : Rehydrate(Append(s, e)) = Apply(Rehydrate(s), e)
<1> DEFINE r == [s \in Seq(UserEvent) |-> Rehydrate(s)]
<1>1. IsFold(UserState, UserEvent, ApplyStep, NewUser, r)
  BY RehydrateReplays DEF IsFold
<1>2. /\ r[<<>>] = NewUser
      /\ \A s \in Seq(UserEvent) : r[s] \in UserState
      /\ \A s \in Seq(UserEvent), e \in UserEvent : r[Append(s, e)] = ApplyStep[<<r[s], e>>]
  <2> HIDE DEF r
  <2> QED  BY <1>1, FoldByEvent
<1>3. /\ <<>> \in Seq(UserEvent)
      /\ \A s \in Seq(UserEvent), e \in UserEvent : Append(s, e) \in Seq(UserEvent)
  OBVIOUS
<1> QED  BY <1>2, <1>3 DEF ApplyStep

\* What an event may be preceded by.
MayFollow(u, e) ==
    /\ e.type = "UserDisabled" => ~u.disabled
    /\ e.type = "UserEnabled" => u.disabled
    /\ e.type = "RoleGrantedToUser" => ~u.disabled /\ e.role \notin AdminRoles
    /\ e.type = "UserAddedToTenant" => e.tenant \notin u.tenants

Legal(t) ==
    \A i \in 1 .. Len(t) :
        /\ t[i].type = "UserRegistered" <=> i = 1
        /\ MayFollow(Tells(SubSeq(t, 1, i - 1)), t[i])

AgreesWith(u, t) == u.disabled = Tells(t).disabled /\ u.tenants = Tells(t).tenants

\* A legal stream, from which a user is rebuilt as it says, but for the roles.
Story(t) ==
    /\ t \in Seq(UserEvent)
    /\ Legal(t)
    /\ AgreesWith(Rehydrate(t), t)
    /\ Rehydrate(t).roles = {}

ToldTo(s) == SubSeq(userStream, 1, user[s].version) \o user[s].recorded

\* A session's instance follows a story that begins as the stream does.
SessionFollows(s) ==
    IF user[s].live
    THEN /\ user[s].version <= Len(userStream)
         /\ user[s].version + Len(user[s].recorded) <= MaxUserEvents
         /\ ToldTo(s) # <<>>
         /\ Story(ToldTo(s))
         /\ AgreesWith(user[s].state, ToldTo(s))
         /\ user[s].state.roles \cap AdminRoles = {}
    ELSE user[s] = None

UserInv ==
    /\ UserTypeOK
    /\ Story(userStream)
    /\ \A s \in Sessions : SessionFollows(s)

LEMMA InvTellsUser == UserInv => UserTypeOK /\ LegalLife /\ InstanceFollowsEvents
<1> SUFFICES ASSUME UserInv PROVE LegalLife /\ InstanceFollowsEvents
  BY DEF UserInv
<1>1. LegalLife
  BY DEF UserInv, Story, Legal, MayFollow, LegalLife, Before, Tells
<1>2. InstanceFollowsEvents
  BY DEF UserInv, SessionFollows, AgreesWith, InstanceFollowsEvents, Told, ToldTo, Tells
<1> QED  BY <1>1, <1>2

\* A story goes on with an event that may follow it.
LEMMA StoryGoesOn ==
    ASSUME NEW t, Story(t), t # <<>>, NEW e \in UserEvent, e.type # "UserRegistered",
           MayFollow(Tells(t), e)
    PROVE  Story(Append(t, e)) /\ Append(t, e) # <<>>
<1> DEFINE more == Append(t, e)
<1>1. /\ t \in Seq(UserEvent) /\ more \in Seq(UserEvent) /\ more # <<>>
      /\ Len(t) \in Nat /\ Len(t) # 0 /\ Len(more) = Len(t) + 1 /\ more[Len(t) + 1] = e
      /\ \A i \in 1 .. Len(t) : more[i] = t[i]
  BY DEF Story
<1>2. \A n \in 0 .. Len(t) : SubSeq(more, 1, n) = SubSeq(t, 1, n)
  BY <1>1, PrefixOfAppend
<1>3. SubSeq(t, 1, Len(t)) = t
  BY <1>1, WholePrefix
<1>4. /\ Tells(t) \in UserState /\ Tells(more) = Says(Tells(t), e)
      /\ Rehydrate(t) \in UserState /\ Rehydrate(more) = Apply(Rehydrate(t), e)
  BY <1>1, TellsByEvent, RehydrateByEvent
<1> HIDE DEF more
<1>5. Legal(more)
  <2> SUFFICES ASSUME NEW i \in 1 .. Len(more)
               PROVE  /\ more[i].type = "UserRegistered" <=> i = 1
                      /\ MayFollow(Tells(SubSeq(more, 1, i - 1)), more[i])
    BY DEF Legal
  <2>1. CASE i \in 1 .. Len(t)
    <3>1. more[i] = t[i] /\ SubSeq(more, 1, i - 1) = SubSeq(t, 1, i - 1)
      BY <1>1, <1>2, <2>1
    <3> QED  BY <2>1, <3>1 DEF Story, Legal
  <2>2. CASE i = Len(t) + 1
    <3>1. i - 1 = Len(t) /\ Len(t) \in 0 .. Len(t)
      BY <1>1, <2>2
    <3>2. more[i] = e /\ SubSeq(more, 1, i - 1) = t
      BY <1>1, <1>2, <1>3, <2>2, <3>1
    <3>3. i # 1
      BY <1>1, <2>2
    <3> QED  BY <3>2, <3>3
  <2> QED  BY <1>1, <2>1, <2>2
<1>6. AgreesWith(Rehydrate(more), more) /\ Rehydrate(more).roles = {}
  <2>1. /\ Rehydrate(t).disabled = Tells(t).disabled /\ Rehydrate(t).tenants = Tells(t).tenants
        /\ Rehydrate(t).roles = {}
    BY DEF Story, AgreesWith
  <2>2. CASE e.type = "UserDisabled"
    BY <1>4, <2>1, <2>2 DEF Says, Apply, AgreesWith, UserState
  <2>3. CASE e.type = "UserEnabled"
    BY <1>4, <2>1, <2>3 DEF Says, Apply, AgreesWith, UserState
  <2>4. CASE e.type = "UserAddedToTenant"
    <3>1. Tells(more) = [Tells(t) EXCEPT !.tenants = @ \cup {e.tenant}]
      BY <1>4, <2>4 DEF Says
    <3>2. Rehydrate(more) = [Rehydrate(t) EXCEPT !.tenants = @ \cup {e.tenant}]
      BY <1>4, <2>4 DEF Apply
    <3>3. /\ Tells(more).tenants = Tells(t).tenants \cup {e.tenant}
          /\ Tells(more).disabled = Tells(t).disabled
      BY <1>4, <3>1 DEF UserState
    <3>4. /\ Rehydrate(more).tenants = Rehydrate(t).tenants \cup {e.tenant}
          /\ Rehydrate(more).disabled = Rehydrate(t).disabled /\ Rehydrate(more).roles = {}
      BY <1>4, <2>1, <3>2 DEF UserState
    <3> QED  BY <2>1, <3>3, <3>4 DEF AgreesWith
  <2>5. CASE e.type = "RoleGrantedToUser"
    BY <1>4, <2>1, <2>5 DEF Says, Apply, AgreesWith, UserState
  <2> QED  BY <2>2, <2>3, <2>4, <2>5, UserEventTypes
<1> QED  BY <1>1, <1>5, <1>6 DEF Story, more

\* The first event of a story.
LEMMA StoryBegins ==
    LET t == <<[type |-> "UserRegistered"]>>
    IN  Story(<<>>) /\ Story(t) /\ t # <<>> /\ AgreesWith(NewUser, t)
<1> DEFINE e == [type |-> "UserRegistered"]
           t == <<e>>
<1>1. e \in UserEvent /\ e.type = "UserRegistered"
  BY DEF UserEvent
<1>2. /\ <<>> \in Seq(UserEvent) /\ t = Append(<<>>, e) /\ t \in Seq(UserEvent)
      /\ Len(t) = 1 /\ t[1] = e /\ t # <<>>
  BY <1>1
<1>3. Tells(<<>>) = NewUser /\ Rehydrate(<<>>) = NewUser
  BY TellsByEvent, RehydrateByEvent
<1>4. Tells(t) = Says(NewUser, e) /\ Rehydrate(t) = Apply(NewUser, e)
  BY <1>1, <1>2, <1>3, TellsByEvent, RehydrateByEvent
<1>5. Tells(t) = NewUser /\ Rehydrate(t) = NewUser
  BY <1>1, <1>4 DEF Says, Apply
<1> HIDE DEF e, t
<1>6. Story(<<>>)
  <2>1. Legal(<<>>)
    BY DEF Legal
  <2>2. AgreesWith(Rehydrate(<<>>), <<>>)
    BY <1>3 DEF AgreesWith
  <2>3. Rehydrate(<<>>).roles = {}
    BY <1>3 DEF NewUser
  <2> QED  BY <1>2, <2>1, <2>2, <2>3 DEF Story
<1>7. Legal(t)
  <2> SUFFICES ASSUME NEW i \in 1 .. 1
               PROVE  /\ t[i].type = "UserRegistered" <=> i = 1
                      /\ MayFollow(Tells(SubSeq(t, 1, i - 1)), t[i])
    BY <1>2 DEF Legal
  <2> QED  BY <1>1, <1>2 DEF MayFollow
<1>8. Story(t) /\ AgreesWith(NewUser, t)
  <2>1. AgreesWith(NewUser, t) /\ AgreesWith(Rehydrate(t), t)
    BY <1>5 DEF AgreesWith
  <2>2. Rehydrate(t).roles = {}
    BY <1>5 DEF NewUser
  <2> QED  BY <1>2, <1>7, <2>1, <2>2 DEF Story
<1> QED  BY <1>2, <1>6, <1>8 DEF e, t

LEMMA InstanceFields ==
    /\ None \in Instance
    /\ \A x \in Instance :
         /\ x.live \in BOOLEAN /\ x.state \in UserState
         /\ x.version \in 0 .. MaxUserEvents /\ x.recorded \in Seq(UserEvent)
<1>1. None \in Instance
  <2>1. <<>> \in Seq(UserEvent) /\ 0 \in 0 .. MaxUserEvents /\ NewUser \in UserState
    BY SaysTyped, MaxUserEventsAssumption
  <2> QED  BY <2>1 DEF None, Instance
<1> QED  BY <1>1 DEF Instance

Changed(y, state, recorded) == [y EXCEPT !.state = state, !.recorded = recorded]

LEMMA ChangedIs ==
    ASSUME NEW y \in Instance, y.live, NEW state, NEW recorded
    PROVE  Changed(y, state, recorded)
             = [live |-> TRUE, state |-> state, version |-> y.version, recorded |-> recorded]
<1> DEFINE at(f) == IF f = "recorded" THEN recorded ELSE IF f = "state" THEN state ELSE y[f]
<1>1. DOMAIN y = {"live", "state", "version", "recorded"} /\ y["live"] = TRUE
  BY DEF Instance
<1>2. Changed(y, state, recorded) = [f \in DOMAIN y |-> at(f)]
  BY <1>1 DEF Changed
<1>3. [live |-> y["live"], state |-> state, version |-> y.version, recorded |-> recorded]
        = [f \in DOMAIN y |-> at(f)]
  BY <1>1
<1> QED  BY <1>1, <1>2, <1>3

\* A step of one session that leaves the stream as it is.
LEMMA OneSession ==
    ASSUME UserInv, NEW s \in Sessions, UNCHANGED userStream, NEW x \in Instance,
           user' = [user EXCEPT ![s] = x], SessionFollows(s)'
    PROVE  UserInv'
<1>1. user \in [Sessions -> Instance]
  BY DEF UserInv, UserTypeOK
<1>2. UserTypeOK'
  BY <1>1 DEF UserInv, UserTypeOK
<1>3. Story(userStream')
  BY DEF UserInv
<1>4. ASSUME NEW r \in Sessions PROVE SessionFollows(r)'
  <2>1. CASE r = s
    BY <2>1
  <2>2. CASE r # s
    <3>1. user'[r] = user[r]
      BY <1>1, <2>2
    <3>2. ToldTo(r)' = ToldTo(r)
      BY <3>1 DEF ToldTo
    <3> QED  BY <3>1, <3>2 DEF UserInv, SessionFollows
  <2> QED  BY <2>1, <2>2
<1> QED  BY <1>2, <1>3, <1>4 DEF UserInv

LEMMA RegisterFollows ==
    ASSUME UserInv, NEW s \in Sessions, Register(s) PROVE UserInv'
<1> DEFINE t == <<[type |-> "UserRegistered"]>>
           x == [live |-> TRUE, state |-> NewUser, version |-> 0, recorded |-> t]
<1>1. user \in [Sessions -> Instance] /\ userStream \in Seq(UserEvent) /\ Len(userStream) \in Nat
  BY DEF UserInv, UserTypeOK
<1>2. Story(t) /\ t # <<>> /\ AgreesWith(NewUser, t) /\ t \in Seq(UserEvent) /\ Len(t) = 1
  <2>1. Story(t) /\ t # <<>> /\ AgreesWith(NewUser, t)
    BY StoryBegins
  <2> QED  BY <2>1 DEF Story
<1> HIDE DEF t
<1>3. x \in Instance
  BY <1>2, SaysTyped, MaxUserEventsAssumption DEF Instance
<1>4. user' = [user EXCEPT ![s] = x] /\ UNCHANGED userStream
  BY DEF Register, t
<1>5. user'[s] = x
  BY <1>1, <1>4
<1>6. ToldTo(s)' = t
  <2>1. SubSeq(userStream, 1, 0) = <<>> /\ <<>> \o t = t
    BY <1>1, <1>2
  <2>2. user'[s].version = 0 /\ user'[s].recorded = t
    BY <1>5
  <2> QED  BY <1>4, <2>1, <2>2 DEF ToldTo
<1>7. SessionFollows(s)'
  <2>1. /\ user'[s].live /\ user'[s].version = 0 /\ user'[s].recorded = t
        /\ user'[s].state = NewUser /\ NewUser.roles = {}
    BY <1>5 DEF NewUser
  <2>2. 0 <= Len(userStream') /\ 0 + Len(t) <= MaxUserEvents
    BY <1>1, <1>2, <1>4, MaxUserEventsAssumption
  <2> QED  BY <1>2, <1>6, <2>1, <2>2 DEF SessionFollows
<1> HIDE DEF x
<1> QED  BY <1>3, <1>4, <1>7, OneSession

LEMMA FindByIdFollows ==
    ASSUME UserInv, NEW s \in Sessions, FindById(s) PROVE UserInv'
<1> DEFINE x == [live |-> TRUE, state |-> Rehydrate(userStream), version |-> Len(userStream),
                 recorded |-> <<>>]
<1>1. /\ user \in [Sessions -> Instance] /\ userStream \in Seq(UserEvent)
      /\ Len(userStream) \in Nat /\ Len(userStream) <= MaxUserEvents /\ Story(userStream)
  BY DEF UserInv, UserTypeOK
<1>2. x \in Instance
  <2>1. Rehydrate(userStream) \in UserState /\ <<>> \in Seq(UserEvent)
    BY <1>1, RehydrateByEvent
  <2> QED  BY <1>1, <2>1, MaxUserEventsAssumption DEF Instance
<1>3. user' = [user EXCEPT ![s] = x] /\ UNCHANGED userStream /\ userStream # <<>>
  BY DEF FindById
<1>4. user'[s] = x
  BY <1>1, <1>3
<1>5. ToldTo(s)' = userStream
  <2>1. SubSeq(userStream, 1, Len(userStream)) = userStream
    BY <1>1, WholePrefix
  <2>2. userStream \o <<>> = userStream
    BY <1>1
  <2> QED  BY <1>3, <1>4, <2>1, <2>2 DEF ToldTo
<1>6. SessionFollows(s)'
  <2>1. /\ user'[s].live /\ user'[s].version = Len(userStream) /\ user'[s].recorded = <<>>
        /\ user'[s].state = Rehydrate(userStream)
    BY <1>4
  <2>2. Len(userStream) + Len(<<>>) <= MaxUserEvents
    BY <1>1
  <2>3. AgreesWith(Rehydrate(userStream), userStream) /\ Rehydrate(userStream).roles = {}
    BY <1>1 DEF Story
  <2> QED  BY <1>1, <1>3, <1>5, <2>1, <2>2, <2>3 DEF SessionFollows
<1> HIDE DEF x
<1> QED  BY <1>2, <1>3, <1>6, OneSession

\* A method that records an event which may follow, and changes the instance as
\* the event says.
LEMMA RecordFollows ==
    ASSUME UserInv, NEW s \in Sessions, user[s].live, NEW state \in UserState, NEW e \in UserEvent,
           Record(s, state, e), e.type # "UserRegistered", MayFollow(user[s].state, e),
           state.disabled = Says(user[s].state, e).disabled,
           state.tenants = Says(user[s].state, e).tenants,
           state.roles \cap AdminRoles = {}
    PROVE  UserInv'
<1> DEFINE x == [live |-> TRUE, state |-> state, version |-> user[s].version,
                 recorded |-> Append(user[s].recorded, e)]
           t == ToldTo(s)
<1>1. /\ user \in [Sessions -> Instance] /\ userStream \in Seq(UserEvent)
      /\ Len(userStream) \in Nat /\ user[s] \in Instance
  BY DEF UserInv, UserTypeOK
<1>2. /\ user[s].state \in UserState /\ user[s].version \in 0 .. MaxUserEvents
      /\ user[s].recorded \in Seq(UserEvent)
  BY <1>1, InstanceFields
<1>3. x \in Instance
  BY <1>2 DEF Instance
<1>4. user' = [user EXCEPT ![s] = x] /\ UNCHANGED userStream
  <2>1. user[s].live = TRUE
    BY <1>1 DEF Instance
  <2>2. [user EXCEPT ![s].state = state, ![s].recorded = Append(@, e)] = [user EXCEPT ![s] = x]
    <3>1. Changed(user[s], state, Append(user[s].recorded, e)) = x
      BY <1>1, ChangedIs
    <3>2. [user EXCEPT ![s].state = state, ![s].recorded = Append(@, e)]
            = [user EXCEPT ![s] = Changed(user[s], state, Append(user[s].recorded, e))]
      BY <1>1 DEF Changed
    <3> HIDE DEF x
    <3> QED  BY <3>1, <3>2
  <2> QED  BY <2>2 DEF Record
<1>5. user'[s] = x
  BY <1>1, <1>4
<1>6. /\ user[s].version <= Len(userStream) /\ t # <<>> /\ Story(t)
      /\ AgreesWith(user[s].state, t)
  BY DEF UserInv, SessionFollows
<1>7. ToldTo(s)' = Append(t, e)
  <2>1. user[s].version \in 0 .. Len(userStream)
    BY <1>1, <1>2, <1>6
  <2> DEFINE begin == SubSeq(userStream, 1, user[s].version)
  <2>2. begin \in Seq(UserEvent) /\ t = begin \o user[s].recorded
    BY <1>1, <2>1, PrefixTyped DEF ToldTo
  <2>3. ToldTo(s)' = begin \o Append(user[s].recorded, e)
    <3>1. user'[s].version = user[s].version /\ user'[s].recorded = Append(user[s].recorded, e)
      BY <1>5
    <3> QED  BY <1>4, <3>1 DEF ToldTo
  <2> HIDE DEF begin, t
  <2>4. begin \o Append(user[s].recorded, e) = Append(begin \o user[s].recorded, e)
    BY <1>2, <2>2, AppendToConcat
  <2> QED  BY <2>2, <2>3, <2>4
<1>8. Tells(t) \in UserState /\ Tells(Append(t, e)) = Says(Tells(t), e)
  BY <1>6, TellsByEvent DEF Story
<1> HIDE DEF t
<1>9. Tells(t).disabled = user[s].state.disabled /\ Tells(t).tenants = user[s].state.tenants
  BY <1>6 DEF AgreesWith
<1>10. Story(Append(t, e)) /\ Append(t, e) # <<>>
  <2>1. MayFollow(Tells(t), e)
    BY <1>9 DEF MayFollow
  <2> QED  BY <1>6, <2>1, StoryGoesOn
<1>11. AgreesWith(state, Append(t, e))
  <2>1. /\ Says(Tells(t), e).disabled = Says(user[s].state, e).disabled
        /\ Says(Tells(t), e).tenants = Says(user[s].state, e).tenants
    <3>1. CASE e.type = "UserDisabled"
      BY <1>2, <1>8, <1>9, <3>1 DEF Says, UserState
    <3>2. CASE e.type = "UserEnabled"
      BY <1>2, <1>8, <1>9, <3>2 DEF Says, UserState
    <3>3. CASE e.type = "UserAddedToTenant"
      BY <1>2, <1>8, <1>9, <3>3 DEF Says, UserState
    <3>4. CASE e.type = "RoleGrantedToUser"
      BY <1>2, <1>8, <1>9, <3>4 DEF Says, UserState
    <3> QED  BY <3>1, <3>2, <3>3, <3>4, UserEventTypes
  <2> QED  BY <1>8, <2>1 DEF AgreesWith
<1>12. SessionFollows(s)'
  <2>1. /\ user'[s].live /\ user'[s].version = user[s].version
        /\ user'[s].recorded = Append(user[s].recorded, e) /\ user'[s].state = state
    BY <1>5
  <2>2. user[s].version + Len(Append(user[s].recorded, e)) <= MaxUserEvents
    <3>1. user[s].version + Len(user[s].recorded) < MaxUserEvents
      BY DEF Record
    <3>2. Len(Append(user[s].recorded, e)) = Len(user[s].recorded) + 1 /\ Len(user[s].recorded) \in Nat
      BY <1>2
    <3> QED  BY <1>2, <3>1, <3>2, MaxUserEventsAssumption
  <2> QED  BY <1>4, <1>6, <1>7, <1>10, <1>11, <2>1, <2>2 DEF SessionFollows
<1> HIDE DEF x
<1> QED  BY <1>3, <1>4, <1>12, OneSession

\* What the invariant says of an instance.
LEMMA LiveInstance ==
    ASSUME UserInv, NEW s \in Sessions, user[s].live
    PROVE  /\ user[s].state \in UserState
           /\ user[s].state.roles \cap AdminRoles = {}
<1>1. user[s] \in Instance
  BY DEF UserInv, UserTypeOK
<1> QED  BY <1>1, InstanceFields DEF UserInv, SessionFollows

LEMMA DisableFollows ==
    ASSUME UserInv, NEW s \in Sessions, Disable(s) PROVE UserInv'
<1> DEFINE u == user[s].state
           e == [type |-> "UserDisabled"]
           after == [u EXCEPT !.disabled = TRUE]
<1>1. user[s].live /\ Record(s, after, e) /\ ~u.disabled
  BY DEF Disable, CanDisableUser
<1>2. u \in UserState /\ u.roles \cap AdminRoles = {}
  BY <1>1, LiveInstance
<1>3. e \in UserEvent /\ e.type = "UserDisabled"
  BY DEF UserEvent
<1>4. Says(u, e) = after
  BY <1>3 DEF Says
<1>5. after \in UserState /\ after.roles = u.roles
  BY <1>2 DEF UserState
<1>6. MayFollow(u, e)
  BY <1>1, <1>3 DEF MayFollow
<1> HIDE DEF after, e
<1> QED  BY <1>1, <1>2, <1>3, <1>4, <1>5, <1>6, RecordFollows

LEMMA EnableFollows ==
    ASSUME UserInv, NEW s \in Sessions, Enable(s) PROVE UserInv'
<1> DEFINE u == user[s].state
           e == [type |-> "UserEnabled"]
           after == [u EXCEPT !.disabled = FALSE]
<1>1. user[s].live /\ Record(s, after, e) /\ u.disabled
  BY DEF Enable
<1>2. u \in UserState /\ u.roles \cap AdminRoles = {}
  BY <1>1, LiveInstance
<1>3. e \in UserEvent /\ e.type = "UserEnabled"
  BY DEF UserEvent
<1>4. Says(u, e) = after
  BY <1>3 DEF Says
<1>5. after \in UserState /\ after.roles = u.roles
  BY <1>2 DEF UserState
<1>6. MayFollow(u, e)
  BY <1>1, <1>3 DEF MayFollow
<1> HIDE DEF after, e
<1> QED  BY <1>1, <1>2, <1>3, <1>4, <1>5, <1>6, RecordFollows

\* Nobody becomes an admin: a grant of an admin role needs an admin.
LEMMA GrantRoleFollows ==
    ASSUME UserInv, NEW s \in Sessions, NEW role \in Roles, GrantRole(s, role) PROVE UserInv'
<1> DEFINE u == user[s].state
           e == [type |-> "RoleGrantedToUser", role |-> role]
           after == [u EXCEPT !.roles = @ \cup {role}]
<1>1. user[s].live /\ Record(s, after, e) /\ CanAssignRole(u, role)
  BY DEF GrantRole
<1>2. u \in UserState /\ u.roles \cap AdminRoles = {}
  BY <1>1, LiveInstance
<1>3. e \in UserEvent /\ e.type = "RoleGrantedToUser" /\ e.role = role
  BY DEF UserEvent
<1>4. ~u.disabled /\ role \notin AdminRoles
  BY <1>1, <1>2 DEF CanAssignRole, IsAdminLevel
<1>5. Says(u, e) = after
  BY <1>3 DEF Says
<1>6. after \in UserState /\ after.roles = u.roles \cup {role}
  BY <1>2 DEF UserState
<1>7. MayFollow(u, e)
  BY <1>3, <1>4 DEF MayFollow
<1>8. after.roles \cap AdminRoles = {}
  BY <1>2, <1>4, <1>6
<1> HIDE DEF after, e
<1> QED  BY <1>1, <1>2, <1>3, <1>5, <1>6, <1>7, <1>8, RecordFollows

LEMMA AddToTenantFollows ==
    ASSUME UserInv, NEW s \in Sessions, NEW joined \in Tenants, AddToTenant(s, joined)
    PROVE  UserInv'
<1> DEFINE u == user[s].state
           e == [type |-> "UserAddedToTenant", tenant |-> joined]
           after == [u EXCEPT !.tenants = @ \cup {joined}]
<1>1. user[s].live /\ Record(s, after, e) /\ ~BelongsToTenant(u, joined)
  BY DEF AddToTenant
<1>2. u \in UserState /\ u.roles \cap AdminRoles = {}
  BY <1>1, LiveInstance
<1>3. e \in UserEvent /\ e.type = "UserAddedToTenant" /\ e.tenant = joined
  BY DEF UserEvent
<1>4. joined \notin u.tenants
  BY <1>1 DEF BelongsToTenant
<1>5. Says(u, e) = after
  BY <1>3 DEF Says
<1>6. after \in UserState /\ after.roles = u.roles
  BY <1>2 DEF UserState
<1>7. MayFollow(u, e)
  BY <1>3, <1>4 DEF MayFollow
<1> HIDE DEF after, e
<1> QED  BY <1>1, <1>2, <1>3, <1>5, <1>6, <1>7, RecordFollows

\* A revoked role is the instance's only.
LEMMA RevokeRoleFollows ==
    ASSUME UserInv, NEW s \in Sessions, NEW role \in Roles, RevokeRole(s, role) PROVE UserInv'
<1> DEFINE u == user[s].state
           after == [u EXCEPT !.roles = @ \ {role}]
           x == [user[s] EXCEPT !.state = after]
<1>1. user[s].live /\ user' = [user EXCEPT ![s].state.roles = @ \ {role}] /\ UNCHANGED userStream
  BY DEF RevokeRole
<1>2. user \in [Sessions -> Instance] /\ user[s] \in Instance
  BY DEF UserInv, UserTypeOK
<1>3. u \in UserState /\ u.roles \cap AdminRoles = {}
  BY <1>1, LiveInstance
<1>4. /\ after \in UserState /\ after.roles = u.roles \ {role}
      /\ after.disabled = u.disabled /\ after.tenants = u.tenants
  BY <1>3 DEF UserState
<1>5. user' = [user EXCEPT ![s] = x]
  BY <1>1, <1>2
<1> HIDE DEF after
<1>6. /\ x \in Instance /\ x.live = user[s].live /\ x.version = user[s].version
      /\ x.recorded = user[s].recorded /\ x.state = after
  BY <1>2, <1>4 DEF Instance
<1>7. user'[s] = x
  BY <1>2, <1>5
<1> HIDE DEF x
<1>8. ToldTo(s)' = ToldTo(s)
  BY <1>1, <1>6, <1>7 DEF ToldTo
<1>9. SessionFollows(s)'
  <2>1. AgreesWith(after, ToldTo(s))
    BY <1>1, <1>4 DEF UserInv, SessionFollows, AgreesWith
  <2>2. after.roles \cap AdminRoles = {}
    BY <1>3, <1>4
  <2>3. user'[s].live /\ user'[s].state = after
    BY <1>1, <1>6, <1>7
  <2>4. user'[s].version = user[s].version /\ user'[s].recorded = user[s].recorded
    BY <1>6, <1>7
  <2>5. /\ user[s].version <= Len(userStream)
        /\ user[s].version + Len(user[s].recorded) <= MaxUserEvents
        /\ ToldTo(s) # <<>> /\ Story(ToldTo(s))
    BY <1>1 DEF UserInv, SessionFollows
  <2> QED  BY <1>1, <1>8, <2>1, <2>2, <2>3, <2>4, <2>5 DEF SessionFollows
<1> QED  BY <1>1, <1>5, <1>6, <1>9, OneSession

LEMMA LeaveFollows ==
    ASSUME UserInv, NEW s \in Sessions, Leave(s) PROVE UserInv'
<1>1. user' = [user EXCEPT ![s] = None] /\ UNCHANGED userStream
  BY DEF Leave
<1>2. user'[s] = None
  BY <1>1 DEF UserInv, UserTypeOK
<1>3. SessionFollows(s)'
  BY <1>2 DEF SessionFollows, None
<1> QED  BY <1>1, <1>3, InstanceFields, OneSession

\* What is saved is what the saving instance was told and recorded; the streams
\* that the other instances were rebuilt from remain the beginning of it.
LEMMA SaveFollows ==
    ASSUME UserInv, NEW s \in Sessions, Save(s) PROVE UserInv'
<1> DEFINE t == ToldTo(s)
<1>1. /\ user \in [Sessions -> Instance] /\ userStream \in Seq(UserEvent)
      /\ Len(userStream) \in Nat /\ Len(userStream) <= MaxUserEvents /\ user[s] \in Instance
  BY DEF UserInv, UserTypeOK
<1>2. /\ user[s].recorded \in Seq(UserEvent) /\ user[s].recorded # <<>>
      /\ user[s].version = Len(userStream) /\ userStream' = userStream \o user[s].recorded
      /\ user' = [user EXCEPT ![s].version = Len(userStream'), ![s].recorded = <<>>]
  BY <1>1, InstanceFields DEF Save
<1>3. user[s].live
  BY <1>2 DEF UserInv, SessionFollows, None
<1>4. /\ user[s].version + Len(user[s].recorded) <= MaxUserEvents
      /\ t # <<>> /\ Story(t) /\ AgreesWith(user[s].state, t)
      /\ user[s].state.roles \cap AdminRoles = {} /\ user[s].state \in UserState
  BY <1>3, LiveInstance DEF UserInv, SessionFollows
<1>5. userStream' = t
  <2>1. SubSeq(userStream, 1, Len(userStream)) = userStream
    BY <1>1, WholePrefix
  <2> QED  BY <1>2, <2>1 DEF ToldTo
<1>6. t \in Seq(UserEvent) /\ Len(t) = Len(userStream) + Len(user[s].recorded)
  <2>1. t = userStream \o user[s].recorded
    BY <1>2, <1>5
  <2>2. Len(userStream \o user[s].recorded) = Len(userStream) + Len(user[s].recorded)
    BY <1>1, <1>2
  <2> HIDE DEF t
  <2> QED  BY <1>4, <2>1, <2>2 DEF Story
<1>7. Len(t) \in 0 .. MaxUserEvents /\ Len(userStream) <= Len(t)
  BY <1>1, <1>2, <1>4, <1>6, MaxUserEventsAssumption
<1> HIDE DEF t
<1>8. /\ user'[s].live = user[s].live /\ user'[s].state = user[s].state
      /\ user'[s].version = Len(t) /\ user'[s].recorded = <<>>
      /\ user'[s] \in Instance
  <2> DEFINE y == user[s]
             z == [y EXCEPT !.version = Len(t)]
  <2>1. user'[s] = [z EXCEPT !.recorded = <<>>]
    BY <1>1, <1>2, <1>5
  <2>2. z \in Instance /\ z.live = y.live /\ z.state = y.state /\ z.version = Len(t)
    BY <1>1, <1>7 DEF Instance
  <2>3. <<>> \in Seq(UserEvent)
    OBVIOUS
  <2> HIDE DEF z
  <2> QED  BY <2>1, <2>2, <2>3 DEF Instance
<1>9. \A r \in Sessions : r # s => user'[r] = user[r]
  BY <1>1, <1>2
<1>10. UserTypeOK'
  <2>1. user' \in [Sessions -> Instance]
    <3>1. \A r \in Sessions : user'[r] \in Instance
      BY <1>1, <1>8, <1>9
    <3>2. user' = [r \in Sessions |-> user'[r]]
      BY <1>1, <1>2
    <3> QED  BY <3>1, <3>2
  <2> QED  BY <1>5, <1>6, <1>7, <2>1 DEF UserTypeOK
<1>11. SessionFollows(s)'
  <2>1. ToldTo(s)' = t
    <3>1. SubSeq(t, 1, Len(t)) = t /\ t \o <<>> = t
      BY <1>6, WholePrefix
    <3> QED  BY <1>5, <1>8, <3>1 DEF ToldTo
  <2>2. Len(t) <= Len(t) /\ Len(t) + Len(<<>>) <= MaxUserEvents
    BY <1>7
  <2> QED  BY <1>3, <1>4, <1>5, <1>8, <2>1, <2>2 DEF SessionFollows
<1>12. ASSUME NEW r \in Sessions, r # s PROVE SessionFollows(r)'
  <2>1. user'[r] = user[r]
    BY <1>9, <1>12
  <2>2. CASE user[r].live
    <3>1. /\ user[r].version <= Len(userStream) /\ user[r].version \in 0 .. MaxUserEvents
          /\ user[r].version + Len(user[r].recorded) <= MaxUserEvents
          /\ ToldTo(r) # <<>> /\ Story(ToldTo(r)) /\ AgreesWith(user[r].state, ToldTo(r))
          /\ user[r].state.roles \cap AdminRoles = {}
      BY <1>1, <2>2, InstanceFields DEF UserInv, SessionFollows
    <3>2. user[r].version \in 0 .. Len(userStream)
      BY <1>1, <3>1
    <3>3. SubSeq(userStream', 1, user[r].version) = SubSeq(userStream, 1, user[r].version)
      BY <1>1, <1>2, <3>2, PrefixOfConcat
    <3>4. ToldTo(r)' = ToldTo(r)
      BY <2>1, <3>3 DEF ToldTo
    <3>5. user[r].version <= Len(userStream')
      BY <1>1, <1>5, <1>7, <3>1
    <3> QED  BY <2>1, <2>2, <3>1, <3>4, <3>5 DEF SessionFollows
  <2>3. CASE ~user[r].live
    BY <2>1, <2>3 DEF UserInv, SessionFollows
  <2> QED  BY <2>2, <2>3
<1> QED  BY <1>4, <1>5, <1>10, <1>11, <1>12 DEF UserInv

LEMMA UserInductive == UserSpec => []UserInv
<1>1. UserInit => UserInv
  <2> SUFFICES ASSUME UserInit PROVE UserInv
    OBVIOUS
  <2>1. userStream = <<>> /\ user = [s \in Sessions |-> None] /\ <<>> \in Seq(UserEvent)
    BY DEF UserInit
  <2>2. UserTypeOK
    BY <2>1, InstanceFields, MaxUserEventsAssumption DEF UserTypeOK
  <2>3. \A s \in Sessions : SessionFollows(s)
    BY <2>1 DEF SessionFollows, None
  <2>4. Story(userStream)
    BY <2>1, StoryBegins
  <2> QED  BY <2>2, <2>3, <2>4 DEF UserInv
<1>2. UserInv /\ [UserNext]_userVars => UserInv'
  <2> SUFFICES ASSUME UserInv, [UserNext]_userVars PROVE UserInv'
    OBVIOUS
  <2>1. CASE UNCHANGED userVars
    BY <2>1 DEF userVars, UserInv, UserTypeOK, SessionFollows, ToldTo
  <2>2. ASSUME NEW s \in Sessions,
               \/ Register(s) \/ FindById(s) \/ Disable(s) \/ Enable(s)
               \/ \E role \in Roles : GrantRole(s, role) \/ RevokeRole(s, role)
               \/ \E joined \in Tenants : AddToTenant(s, joined)
               \/ Save(s) \/ Leave(s)
        PROVE  UserInv'
    <3>1. ASSUME NEW role \in Roles, GrantRole(s, role) \/ RevokeRole(s, role) PROVE UserInv'
      BY <3>1, GrantRoleFollows, RevokeRoleFollows
    <3>2. ASSUME NEW joined \in Tenants, AddToTenant(s, joined) PROVE UserInv'
      BY <3>2, AddToTenantFollows
    <3> QED  BY <2>2, <3>1, <3>2, RegisterFollows, FindByIdFollows, DisableFollows, EnableFollows,
                SaveFollows, LeaveFollows
  <2> QED  BY <2>1, <2>2 DEF UserNext
<1> QED  BY <1>1, <1>2, PTL DEF UserSpec

\* The variables keep their types.
THEOREM UserTypeCorrect == UserSpec => []UserTypeOK
<1>1. UserInv => UserTypeOK
  BY InvTellsUser
<1> QED  BY <1>1, UserInductive, PTL

\* However many sessions decide at once, each on an instance of its own, the
\* stream of a user is a legal life (user.aggregate.ts, the guards of its methods,
\* and the expected version of appendToStream).
THEOREM LegalLives == UserSpec => []LegalLife
<1>1. UserInv => LegalLife
  BY InvTellsUser
<1> QED  BY <1>1, UserInductive, PTL

\* What every instance is, but for its roles, follows from the events it was
\* rebuilt from and those it has recorded (user.aggregate.ts, apply).
THEOREM InstancesFollow == UserSpec => []InstanceFollowsEvents
<1>1. UserInv => InstanceFollowsEvents
  BY InvTellsUser
<1> QED  BY <1>1, UserInductive, PTL

-----------------------------------------------------------------------------
(* The membership of a user in a tenant. *)

RolesIn(events) == FoldLeft(ApplyMembership, {}, events)

MembershipStep ==
    [p \in (SUBSET RoleKeys) \X MembershipEvent |-> ApplyMembership(p[1], p[2])]

LEMMA MembershipEventTypes ==
    ASSUME NEW e \in MembershipEvent
    PROVE  /\ e.type \in {"UserAddedToTenant", "RoleGrantedToUser"}
           /\ e.type = "RoleGrantedToUser" => e.role \in RoleKeys
BY DEF MembershipEvent

LEMMA MembershipApplyTyped ==
    /\ {} \in SUBSET RoleKeys
    /\ \A u \in SUBSET RoleKeys, e \in MembershipEvent : ApplyMembership(u, e) \in SUBSET RoleKeys
    /\ MembershipStep \in [(SUBSET RoleKeys) \X MembershipEvent -> SUBSET RoleKeys]
<1>1. ASSUME NEW u \in SUBSET RoleKeys, NEW e \in MembershipEvent
      PROVE  ApplyMembership(u, e) \in SUBSET RoleKeys
  BY MembershipEventTypes DEF ApplyMembership
<1>2. MembershipStep \in [(SUBSET RoleKeys) \X MembershipEvent -> SUBSET RoleKeys]
  BY <1>1 DEF MembershipStep
<1> QED  BY <1>1, <1>2

LEMMA RolesInReplays ==
    ASSUME NEW s \in Seq(MembershipEvent)
    PROVE  \E f \in [SUBSET DOMAIN s -> SUBSET RoleKeys] :
               Replays(MembershipStep, {}, s, f) /\ RolesIn(s) = f[DOMAIN s]
<1> DEFINE Chosen(f) == f = [t \in SUBSET DOMAIN s |->
                                IF t = {} THEN {} ELSE ApplyMembership(f[t \ {Max(t)}], s[Max(t)])]
<1>1. PICK f \in [SUBSET DOMAIN s -> SUBSET RoleKeys] : Replays(MembershipStep, {}, s, f)
  BY MembershipApplyTyped, ReplayExists
<1>2. ASSUME NEW t \in SUBSET DOMAIN s, t # {}
      PROVE  /\ Max(t) \in 1 .. Len(s) /\ s[Max(t)] \in MembershipEvent
             /\ t \ {Max(t)} \in SUBSET DOMAIN s
             /\ MembershipStep[<<f[t \ {Max(t)}], s[Max(t)]>>] = ApplyMembership(f[t \ {Max(t)}], s[Max(t)])
  <2>1. Max(t) \in 1 .. Len(s)
    BY <1>2, LastOfSome, Len(s) \in Nat, DOMAIN s = 1 .. Len(s)
  <2>2. s[Max(t)] \in MembershipEvent /\ f[t \ {Max(t)}] \in SUBSET RoleKeys
    BY <2>1
  <2> QED  BY <2>1, <2>2 DEF MembershipStep
<1>3. Chosen(f)
  BY <1>1, <1>2 DEF Replays
<1>4. RolesIn(s) = (CHOOSE h : Chosen(h))[DOMAIN s]
  BY DEF RolesIn, FoldLeft, MapThenFoldSet
<1> DEFINE h == CHOOSE h : Chosen(h)
<1>5. Chosen(h)
  <2> HIDE DEF Chosen
  <2> QED  BY <1>3
<1>6. f[DOMAIN s] = h[DOMAIN s]
  <2>1. f[{}] = h[{}]
    BY <1>1, <1>5 DEF Replays
  <2>2. ASSUME NEW t \in SUBSET DOMAIN s, t # {}, f[t \ {Max(t)}] = h[t \ {Max(t)}]
        PROVE  f[t] = h[t]
    <3>1. f[t] = ApplyMembership(f[t \ {Max(t)}], s[Max(t)])
      BY <1>3, <2>2
    <3>2. h[t] = ApplyMembership(h[t \ {Max(t)}], s[Max(t)])
      BY <1>5, <2>2
    <3> QED  BY <2>2, <3>1, <3>2
  <2> HIDE DEF h
  <2>3. \A t \in SUBSET DOMAIN s : f[t] = h[t]
    <3>1. Len(s) \in Nat /\ DOMAIN s = 1 .. Len(s)
      OBVIOUS
    <3>2. GoTogether(Len(s), f, h)
      BY <2>1, <2>2, <3>1 DEF GoTogether
    <3>3. \A t \in SUBSET (1 .. Len(s)) : f[t] = h[t]
      BY <3>1, <3>2, SameReplay
    <3> QED  BY <3>1, <3>3
  <2> QED  BY <2>3
<1> QED  BY <1>1, <1>4, <1>6

\* The roles an instance is rebuilt with, event by event.
LEMMA RolesInByEvent ==
    /\ RolesIn(<<>>) = {}
    /\ \A s \in Seq(MembershipEvent) : RolesIn(s) \in SUBSET RoleKeys
    /\ \A s \in Seq(MembershipEvent), e \in MembershipEvent : RolesIn(Append(s, e)) = ApplyMembership(RolesIn(s), e)
<1> DEFINE r == [s \in Seq(MembershipEvent) |-> RolesIn(s)]
<1>1. IsFold(SUBSET RoleKeys, MembershipEvent, MembershipStep, {}, r)
  BY RolesInReplays DEF IsFold
<1>2. /\ r[<<>>] = {}
      /\ \A s \in Seq(MembershipEvent) : r[s] \in SUBSET RoleKeys
      /\ \A s \in Seq(MembershipEvent), e \in MembershipEvent : r[Append(s, e)] = MembershipStep[<<r[s], e>>]
  <2> HIDE DEF r
  <2> QED  BY <1>1, FoldByEvent
<1>3. /\ <<>> \in Seq(MembershipEvent)
      /\ \A s \in Seq(MembershipEvent), e \in MembershipEvent : Append(s, e) \in Seq(MembershipEvent)
  OBVIOUS
<1> QED  BY <1>2, <1>3 DEF MembershipStep

\* The roles that the first n events of a stream grant.
GrantedUpto(s, n) == {s[i].role : i \in {j \in 1 .. n : s[j].type = "RoleGrantedToUser"}}

\* Rebuilding a membership gives it the roles its events grant.
LEMMA RolesInAreGranted ==
    ASSUME NEW s \in Seq(MembershipEvent)
    PROVE  RolesIn(s) = GrantedUpto(s, Len(s))
<1> DEFINE Good(n) == n <= Len(s) => RolesIn(SubSeq(s, 1, n)) = GrantedUpto(s, n)
           S == {n \in Nat : Good(n)}
<1>1. Good(0)
  <2>1. SubSeq(s, 1, 0) = <<>> /\ 1 .. 0 = {}
    OBVIOUS
  <2>2. GrantedUpto(s, 0) = {}
    BY <2>1 DEF GrantedUpto
  <2> QED  BY <2>1, <2>2, RolesInByEvent
<1>2. ASSUME NEW n \in Nat, Good(n) PROVE Good(n + 1)
  <2> SUFFICES ASSUME n + 1 <= Len(s)
               PROVE  RolesIn(SubSeq(s, 1, n + 1)) = GrantedUpto(s, n + 1)
    OBVIOUS
  <2> DEFINE begin == SubSeq(s, 1, n)
             e == s[n + 1]
  <2>1. n <= Len(s) /\ n \in 0 .. Len(s) /\ n + 1 \in 0 .. Len(s) /\ n + 1 \in 1 .. Len(s)
    OBVIOUS
  <2>2. begin \in Seq(MembershipEvent) /\ e \in MembershipEvent
    BY <2>1, PrefixTyped
  <2>3. SubSeq(s, 1, n + 1) = Append(begin, e)
    BY <2>1, PrefixOneMore
  <2>4. RolesIn(begin) = GrantedUpto(s, n)
    BY <1>2, <2>1
  <2> HIDE DEF begin
  <2>5. RolesIn(Append(begin, e)) = ApplyMembership(GrantedUpto(s, n), e)
    BY <2>2, <2>4, RolesInByEvent
  <2>6. ApplyMembership(GrantedUpto(s, n), e) = GrantedUpto(s, n + 1)
    <3>1. 1 .. n + 1 = (1 .. n) \cup {n + 1}
      OBVIOUS
    <3>2. CASE e.type = "RoleGrantedToUser"
      <4>1. GrantedUpto(s, n + 1) = GrantedUpto(s, n) \cup {e.role}
        BY <3>1, <3>2 DEF GrantedUpto
      <4> QED  BY <3>2, <4>1 DEF ApplyMembership
    <3>3. CASE e.type # "RoleGrantedToUser"
      <4>1. GrantedUpto(s, n + 1) = GrantedUpto(s, n)
        BY <3>1, <3>3 DEF GrantedUpto
      <4> QED  BY <3>3, <4>1 DEF ApplyMembership
    <3> QED  BY <3>2, <3>3
  <2> QED  BY <2>3, <2>5, <2>6
<1> HIDE DEF Good
<1>3. \A n \in Nat : n \in S
  <2>1. 0 \in S /\ \A n \in Nat : n \in S => n + 1 \in S
    BY <1>1, <1>2
  <2> HIDE DEF S
  <2> QED  BY <2>1, Induction
<1>4. PICK n \in Nat : n = Len(s)
  OBVIOUS
<1>5. Good(n)
  BY <1>3
<1>6. RolesIn(SubSeq(s, 1, n)) = GrantedUpto(s, n)
  BY <1>4, <1>5 DEF Good
<1> QED  BY <1>4, <1>6, WholePrefix

MemberInstance ==
    [live : BOOLEAN, roles : SUBSET RoleKeys, committed : Nat, recorded : Seq(MembershipEvent)]

\* The first event adds the user, and no other does.
AddedFirst(s) == \A i \in 1 .. Len(s) : s[i].type = "UserAddedToTenant" <=> i = 1

\* An instance was rebuilt from a beginning of the stream, has roles that this
\* granted, and was granted none of those again.
HolderFollows(h) ==
    LET m == membership[h] IN
    IF m.live
    THEN /\ m.committed <= Len(memberStream)
         /\ m.committed + Len(m.recorded) <= MaxMembershipEvents
         /\ m.committed = 0 => m.recorded # <<>>
         /\ \A i \in 1 .. Len(m.recorded) :
              m.recorded[i].type = "UserAddedToTenant" <=> i = 1 /\ m.committed = 0
         /\ m.roles \subseteq GrantedUpto(memberStream, m.committed)
         /\ \A i \in 1 .. Len(m.recorded) :
              m.recorded[i].type = "RoleGrantedToUser" => m.recorded[i].role \notin m.roles
    ELSE m = NoMembership

MembershipInv ==
    /\ MembershipTypeOK
    /\ AddedFirst(memberStream)
    /\ \A h \in Holders : HolderFollows(h)

LEMMA InvTellsMembership == MembershipInv => MembershipTypeOK /\ MembershipSurvivesReload
<1> SUFFICES ASSUME MembershipInv PROVE MembershipSurvivesReload
  BY DEF MembershipInv
<1>1. memberStream \in Seq(MembershipEvent) /\ DOMAIN memberStream = 1 .. Len(memberStream)
  BY DEF MembershipInv, MembershipTypeOK
<1>2. RehydrateMembership(memberStream).roles = GrantedUpto(memberStream, Len(memberStream))
  <2>1. RehydrateMembership(memberStream).roles = RolesIn(memberStream)
    BY DEF RehydrateMembership, NoMembership, RolesIn
  <2> QED  BY <1>1, <2>1, RolesInAreGranted
<1>3. ASSUME NEW h \in Holders
      PROVE  /\ membership[h].roles \subseteq GrantedUpto(memberStream, membership[h].committed)
             /\ \A i \in DOMAIN membership[h].recorded :
                  membership[h].recorded[i].type = "RoleGrantedToUser" =>
                      membership[h].recorded[i].role \notin membership[h].roles
  <2>1. membership[h].recorded \in Seq(MembershipEvent)
    BY DEF MembershipInv, MembershipTypeOK
  <2>2. CASE membership[h].live
    BY <2>1, <2>2 DEF MembershipInv, HolderFollows
  <2>3. CASE ~membership[h].live
    <3>1. membership[h].roles = {} /\ membership[h].recorded = <<>>
      BY <2>3 DEF MembershipInv, HolderFollows, NoMembership
    <3> QED  BY <3>1
  <2> QED  BY <2>2, <2>3
<1>4. \A i \in DOMAIN memberStream : memberStream[i].type = "UserAddedToTenant" <=> i = 1
  BY <1>1 DEF MembershipInv, AddedFirst
<1> QED  BY <1>2, <1>3, <1>4 DEF MembershipSurvivesReload, GrantedUpto

\* A step of one holder that leaves the stream as it is.
LEMMA OneHolder ==
    ASSUME MembershipInv, NEW h \in Holders, UNCHANGED memberStream, NEW m \in MemberInstance,
           membership' = [membership EXCEPT ![h] = m], HolderFollows(h)'
    PROVE  MembershipInv'
<1>1. membership \in [Holders -> MemberInstance]
  BY DEF MembershipInv, MembershipTypeOK, MemberInstance
<1>2. membership' \in [Holders -> MemberInstance]
  BY <1>1
<1>3. MembershipTypeOK'
  BY <1>2 DEF MembershipInv, MembershipTypeOK, MemberInstance
<1>4. ASSUME NEW k \in Holders PROVE HolderFollows(k)'
  <2>1. CASE k = h
    BY <2>1
  <2>2. CASE k # h
    <3>1. membership'[k] = membership[k]
      BY <1>1, <2>2
    <3> QED  BY <3>1 DEF MembershipInv, HolderFollows
  <2> QED  BY <2>1, <2>2
<1> QED  BY <1>3, <1>4 DEF MembershipInv, AddedFirst

LEMMA HolderFields ==
    ASSUME MembershipInv, NEW h \in Holders
    PROVE  /\ membership[h] \in MemberInstance
           /\ membership[h].roles \in SUBSET RoleKeys /\ membership[h].committed \in Nat
           /\ membership[h].recorded \in Seq(MembershipEvent)
           /\ membership \in [Holders -> MemberInstance]
           /\ memberStream \in Seq(MembershipEvent) /\ Len(memberStream) \in Nat
           /\ Len(memberStream) <= MaxMembershipEvents
BY DEF MembershipInv, MembershipTypeOK, MemberInstance

LEMMA NoMember ==
    /\ NoMembership \in MemberInstance /\ ~NoMembership.live /\ NoMembership.roles = {}
    /\ NoMembership.committed = 0 /\ NoMembership.recorded = <<>>
<1>1. <<>> \in Seq(MembershipEvent)
  OBVIOUS
<1> QED  BY <1>1 DEF NoMembership, MemberInstance

LEMMA CreateMembershipFollows ==
    ASSUME MembershipInv, NEW h \in Holders, CreateMembership(h) PROVE MembershipInv'
<1> DEFINE e == [type |-> "UserAddedToTenant"]
           m == [NoMembership EXCEPT !.live = TRUE, !.recorded = <<e>>]
<1>1. e \in MembershipEvent /\ e.type = "UserAddedToTenant"
  BY DEF MembershipEvent
<1>2. membership' = [membership EXCEPT ![h] = m] /\ UNCHANGED memberStream
  BY DEF CreateMembership
<1> HIDE DEF e
<1>3. /\ m \in MemberInstance /\ m.live /\ m.roles = {} /\ m.committed = 0
      /\ m.recorded = <<e>> /\ Len(<<e>>) = 1 /\ <<e>>[1] = e /\ <<e>> # <<>>
  <2>1. <<e>> \in Seq(MembershipEvent) /\ Len(<<e>>) = 1 /\ <<e>>[1] = e /\ <<e>> # <<>>
    BY <1>1
  <2>2. NoMembership \in MemberInstance /\ NoMembership.roles = {} /\ NoMembership.committed = 0
    BY NoMember
  <2> QED  BY <2>1, <2>2 DEF MemberInstance
<1>4. membership'[h] = m
  BY <1>2, HolderFields
<1> HIDE DEF m
<1>5. HolderFollows(h)'
  <2>1. 0 <= Len(memberStream') /\ 0 + Len(<<e>>) <= MaxMembershipEvents
    BY <1>2, <1>3, HolderFields, MaxMembershipEventsAssumption
  <2>2. \A i \in 1 .. Len(<<e>>) : i = 1 /\ <<e>>[i] = e
    BY <1>3
  <2> QED  BY <1>1, <1>3, <1>4, <2>1, <2>2 DEF HolderFollows
<1> QED  BY <1>2, <1>3, <1>5, OneHolder

LEMMA LoadMembershipFollows ==
    ASSUME MembershipInv, NEW h \in Holders, LoadMembership(h) PROVE MembershipInv'
<1> DEFINE m == RehydrateMembership(memberStream)
<1>1. /\ memberStream \in Seq(MembershipEvent) /\ Len(memberStream) \in Nat
      /\ Len(memberStream) <= MaxMembershipEvents /\ memberStream # <<>>
      /\ UNCHANGED memberStream
  BY HolderFields DEF LoadMembership
<1>2. membership' = [membership EXCEPT ![h] = m]
  BY DEF LoadMembership
<1>3. RolesIn(memberStream) \in SUBSET RoleKeys
  BY <1>1, RolesInByEvent
<1>4. RolesIn(memberStream) = GrantedUpto(memberStream, Len(memberStream))
  BY <1>1, RolesInAreGranted
<1>5. /\ m \in MemberInstance /\ m.live /\ m.roles = RolesIn(memberStream)
      /\ m.committed = Len(memberStream) /\ m.recorded = <<>>
  BY <1>1, <1>3, NoMember DEF MemberInstance, RehydrateMembership, RolesIn
<1>6. membership'[h] = m
  BY <1>2, HolderFields
<1> HIDE DEF m
<1>7. HolderFollows(h)'
  <2>1. Len(memberStream) <= Len(memberStream') /\ Len(memberStream) + Len(<<>>) <= MaxMembershipEvents
        /\ Len(memberStream) # 0 /\ 1 .. Len(<<>>) = {}
    BY <1>1
  <2>2. m.roles \subseteq GrantedUpto(memberStream', m.committed)
    BY <1>1, <1>4, <1>5
  <2> QED  BY <1>5, <1>6, <2>1, <2>2 DEF HolderFollows
<1> QED  BY <1>1, <1>2, <1>5, <1>7, OneHolder

LEMMA GrantToMemberFollows ==
    ASSUME MembershipInv, NEW h \in Holders, NEW raw \in RawRoleKeys, GrantToMember(h, raw)
    PROVE  MembershipInv'
<1> DEFINE e == [type |-> "RoleGrantedToUser", role |-> raw.trimmed]
           old == membership[h]
           more == Append(old.recorded, e)
           m == [old EXCEPT !.recorded = more]
<1>1. e \in MembershipEvent /\ e.type = "RoleGrantedToUser" /\ e.role = raw.trimmed
  BY DEF GrantToMember, MembershipEvent, RoleKeys
<1>2. /\ old.live /\ raw.trimmed \notin old.roles /\ UNCHANGED memberStream
      /\ old.committed + Len(old.recorded) < MaxMembershipEvents
  BY DEF GrantToMember
<1>3. /\ old \in MemberInstance /\ old.recorded \in Seq(MembershipEvent) /\ old.committed \in Nat
      /\ membership \in [Holders -> MemberInstance]
  BY HolderFields
<1>4. membership' = [membership EXCEPT ![h] = m]
  BY <1>3 DEF GrantToMember
<1>5. /\ more \in Seq(MembershipEvent) /\ Len(more) = Len(old.recorded) + 1
      /\ Len(old.recorded) \in Nat /\ more[Len(old.recorded) + 1] = e /\ more # <<>>
      /\ \A i \in 1 .. Len(old.recorded) : more[i] = old.recorded[i]
  BY <1>1, <1>3
<1>6. /\ m.live = old.live /\ m.roles = old.roles /\ m.committed = old.committed
      /\ m.recorded = more /\ m \in MemberInstance
  BY <1>3, <1>5 DEF MemberInstance
<1>7. membership'[h] = m
  BY <1>3, <1>4
<1>8. /\ old.committed <= Len(memberStream)
      /\ old.committed = 0 => old.recorded # <<>>
      /\ \A i \in 1 .. Len(old.recorded) :
           old.recorded[i].type = "UserAddedToTenant" <=> i = 1 /\ old.committed = 0
      /\ old.roles \subseteq GrantedUpto(memberStream, old.committed)
      /\ \A i \in 1 .. Len(old.recorded) :
           old.recorded[i].type = "RoleGrantedToUser" => old.recorded[i].role \notin old.roles
  BY <1>2 DEF MembershipInv, HolderFollows
<1> HIDE DEF e, m, more
<1>9. old.committed + Len(more) <= MaxMembershipEvents
  BY <1>2, <1>3, <1>5, MaxMembershipEventsAssumption
<1>10. ASSUME NEW i \in 1 .. Len(more)
       PROVE  /\ more[i].type = "UserAddedToTenant" <=> i = 1 /\ old.committed = 0
              /\ more[i].type = "RoleGrantedToUser" => more[i].role \notin old.roles
  <2>1. CASE i \in 1 .. Len(old.recorded)
    BY <1>5, <1>8, <2>1
  <2>2. CASE i = Len(old.recorded) + 1
    <3>1. more[i] = e
      BY <1>5, <2>2
    <3>2. i = 1 => old.committed # 0
      <4>1. i = 1 => old.recorded = <<>>
        BY <1>3, <1>5, <2>2
      <4> QED  BY <1>8, <4>1
    <3> QED  BY <1>1, <1>2, <3>1, <3>2
  <2> QED  BY <1>5, <2>1, <2>2
<1>11. HolderFollows(h)'
  BY <1>2, <1>5, <1>6, <1>7, <1>8, <1>9, <1>10 DEF HolderFollows
<1> QED  BY <1>2, <1>4, <1>6, <1>11, OneHolder

LEMMA LeaveMembershipFollows ==
    ASSUME MembershipInv, NEW h \in Holders, LeaveMembership(h) PROVE MembershipInv'
<1>1. membership' = [membership EXCEPT ![h] = NoMembership] /\ UNCHANGED memberStream
  BY DEF LeaveMembership
<1>2. NoMembership \in MemberInstance /\ ~NoMembership.live
  BY NoMember
<1>3. membership'[h] = NoMembership
  BY <1>1, HolderFields
<1>4. HolderFollows(h)'
  BY <1>2, <1>3 DEF HolderFollows
<1> QED  BY <1>1, <1>2, <1>4, OneHolder

\* The beginning that an instance was rebuilt from stays, and with it what it
\* granted.
LEMMA SaveMembershipFollows ==
    ASSUME MembershipInv, NEW h \in Holders, SaveMembership(h) PROVE MembershipInv'
<1> DEFINE old == membership[h]
           s == memberStream
           more == s \o old.recorded
<1>1. /\ old \in MemberInstance /\ old.recorded \in Seq(MembershipEvent) /\ old.committed \in Nat
      /\ membership \in [Holders -> MemberInstance] /\ s \in Seq(MembershipEvent)
      /\ Len(s) \in Nat
  BY HolderFields
<1>2. /\ old.recorded # <<>> /\ old.committed = Len(s) /\ memberStream' = more
      /\ membership' = [membership EXCEPT ![h].recorded = <<>>, ![h].committed = Len(memberStream')]
  BY DEF SaveMembership
<1>3. old.live
  BY <1>2 DEF MembershipInv, HolderFollows, NoMembership
<1>4. /\ old.committed + Len(old.recorded) <= MaxMembershipEvents
      /\ \A i \in 1 .. Len(old.recorded) :
           old.recorded[i].type = "UserAddedToTenant" <=> i = 1 /\ old.committed = 0
      /\ old.roles \subseteq GrantedUpto(s, old.committed)
  BY <1>3 DEF MembershipInv, HolderFollows
<1>5. /\ more \in Seq(MembershipEvent) /\ Len(more) = Len(s) + Len(old.recorded)
      /\ Len(old.recorded) \in Nat /\ Len(old.recorded) # 0 /\ Len(more) \in Nat
      /\ \A i \in 1 .. Len(s) : more[i] = s[i]
      /\ \A i \in 1 .. Len(more) :
           i > Len(s) => i - Len(s) \in 1 .. Len(old.recorded) /\ more[i] = old.recorded[i - Len(s)]
  BY <1>1, <1>2
<1> HIDE DEF more
<1>6. Len(more) <= MaxMembershipEvents
  BY <1>2, <1>4, <1>5
<1>7. AddedFirst(more)
  <2> SUFFICES ASSUME NEW i \in 1 .. Len(more)
               PROVE  more[i].type = "UserAddedToTenant" <=> i = 1
    BY DEF AddedFirst
  <2>1. CASE i <= Len(s)
    <3>1. i \in 1 .. Len(s)
      BY <1>1, <2>1
    <3> QED  BY <1>5, <3>1 DEF MembershipInv, AddedFirst
  <2>2. CASE i > Len(s)
    <3>1. i - Len(s) \in 1 .. Len(old.recorded) /\ more[i] = old.recorded[i - Len(s)]
      BY <1>5, <2>2
    <3>2. (i - Len(s) = 1 /\ old.committed = 0) <=> i = 1
      BY <1>1, <1>2, <2>2
    <3> QED  BY <1>4, <3>1, <3>2
  <2> QED  BY <1>1, <2>1, <2>2
<1>8. \A n \in Nat : n <= Len(s) => GrantedUpto(more, n) = GrantedUpto(s, n)
  <2> SUFFICES ASSUME NEW n \in Nat, n <= Len(s) PROVE GrantedUpto(more, n) = GrantedUpto(s, n)
    OBVIOUS
  <2>1. \A i \in 1 .. n : more[i] = s[i]
    BY <1>1, <1>5
  <2> QED  BY <2>1 DEF GrantedUpto
<1>9. GrantedUpto(s, Len(s)) \subseteq GrantedUpto(more, Len(more))
  BY <1>1, <1>5 DEF GrantedUpto
<1>10. /\ membership'[h].live = old.live /\ membership'[h].roles = old.roles
       /\ membership'[h].committed = Len(more) /\ membership'[h].recorded = <<>>
       /\ membership'[h] \in MemberInstance
  <2> DEFINE z == [old EXCEPT !.recorded = <<>>]
  <2>1. membership'[h] = [z EXCEPT !.committed = Len(more)]
    BY <1>1, <1>2
  <2>2. z \in MemberInstance /\ z.live = old.live /\ z.roles = old.roles /\ z.recorded = <<>>
    <3>1. <<>> \in Seq(MembershipEvent)
      OBVIOUS
    <3> QED  BY <1>1, <3>1 DEF MemberInstance
  <2> HIDE DEF z
  <2> QED  BY <1>5, <2>1, <2>2 DEF MemberInstance
<1>11. \A k \in Holders : k # h => membership'[k] = membership[k]
  BY <1>1, <1>2
<1>12. MembershipTypeOK'
  <2>1. membership' \in [Holders -> MemberInstance]
    <3>1. \A k \in Holders : membership'[k] \in MemberInstance
      BY <1>1, <1>10, <1>11
    <3>2. membership' = [k \in Holders |-> membership'[k]]
      BY <1>1, <1>2
    <3> QED  BY <3>1, <3>2
  <2> QED  BY <1>2, <1>5, <1>6, <2>1 DEF MembershipTypeOK, MemberInstance
<1>13. HolderFollows(h)'
  <2>1. Len(more) <= Len(more) /\ Len(more) + Len(<<>>) <= MaxMembershipEvents
        /\ Len(more) # 0 /\ 1 .. Len(<<>>) = {}
    BY <1>5, <1>6
  <2>2. old.roles \subseteq GrantedUpto(more, Len(more))
    BY <1>2, <1>4, <1>9
  <2> QED  BY <1>2, <1>3, <1>10, <2>1, <2>2 DEF HolderFollows
<1>14. ASSUME NEW k \in Holders, k # h PROVE HolderFollows(k)'
  <2>1. membership'[k] = membership[k] /\ membership[k].committed \in Nat
    BY <1>11, <1>14, HolderFields
  <2>2. CASE membership[k].live
    <3>1. membership[k].committed <= Len(s)
      BY <2>2 DEF MembershipInv, HolderFollows
    <3>2. /\ membership[k].committed <= Len(more)
          /\ GrantedUpto(more, membership[k].committed) = GrantedUpto(s, membership[k].committed)
      BY <1>1, <1>5, <1>8, <2>1, <3>1
    <3> QED  BY <1>2, <2>1, <2>2, <3>2 DEF MembershipInv, HolderFollows
  <2>3. CASE ~membership[k].live
    BY <2>1, <2>3 DEF MembershipInv, HolderFollows
  <2> QED  BY <2>2, <2>3
<1> QED  BY <1>2, <1>7, <1>12, <1>13, <1>14 DEF MembershipInv

LEMMA MembershipInductive == MembershipSpec => []MembershipInv
<1>1. MembershipInit => MembershipInv
  <2> SUFFICES ASSUME MembershipInit PROVE MembershipInv
    OBVIOUS
  <2>1. memberStream = <<>> /\ membership = [h \in Holders |-> NoMembership]
    BY DEF MembershipInit
  <2>2. NoMembership \in MemberInstance /\ <<>> \in Seq(MembershipEvent) /\ ~NoMembership.live
    BY DEF NoMembership, MemberInstance
  <2>3. MembershipTypeOK
    BY <2>1, <2>2, MaxMembershipEventsAssumption DEF MembershipTypeOK, MemberInstance
  <2>4. \A h \in Holders : HolderFollows(h)
    BY <2>1, <2>2 DEF HolderFollows
  <2> QED  BY <2>1, <2>3, <2>4 DEF MembershipInv, AddedFirst
<1>2. MembershipInv /\ [MembershipNext]_memberVars => MembershipInv'
  <2> SUFFICES ASSUME MembershipInv, [MembershipNext]_memberVars PROVE MembershipInv'
    OBVIOUS
  <2>1. CASE UNCHANGED memberVars
    BY <2>1 DEF memberVars, MembershipInv, MembershipTypeOK, HolderFollows, AddedFirst
  <2>2. CASE MembershipNext
    BY <2>2, CreateMembershipFollows, LoadMembershipFollows, GrantToMemberFollows,
       SaveMembershipFollows, LeaveMembershipFollows DEF MembershipNext
  <2> QED  BY <2>1, <2>2
<1> QED  BY <1>1, <1>2, PTL DEF MembershipSpec

\* The variables keep their types.
THEOREM MembershipTypeCorrect == MembershipSpec => []MembershipTypeOK
<1>1. MembershipInv => MembershipTypeOK
  BY InvTellsMembership
<1> QED  BY <1>1, MembershipInductive, PTL

\* A membership is added once, and a reload gives it every role it was granted
\* (tenant-membership.aggregate.ts:43, 84).
THEOREM MembershipReloads == MembershipSpec => []MembershipSurvivesReload
<1>1. MembershipInv => MembershipSurvivesReload
  BY InvTellsMembership
<1> QED  BY <1>1, MembershipInductive, PTL

-----------------------------------------------------------------------------
(* The billing aggregate. *)

BuiltFrom(base, events) == FoldLeft(ApplyBilling, base, events)

BillingStep == [p \in Bill \X BillingEvent |-> ApplyBilling(p[1], p[2])]

LEMMA BillingEventTypes ==
    ASSUME NEW e \in BillingEvent
    PROVE  /\ e.type \in {"BillingCreated", "BillingFailed", "BillingRefunded", "BillingPaid",
                          "BillingCancelled"}
           /\ e.type = "BillingCreated" => e.amount \in Amounts /\ e.billingType \in BillingType
           /\ e.type = "BillingFailed" => e.retryCount \in 0 .. MaxBillEvents
           /\ e.type = "BillingRefunded" => e.refundAmount \in Amounts
BY MaxBillEventsAssumption DEF BillingEvent

LEMMA BillingApplyTyped ==
    /\ \A b \in Bill, e \in BillingEvent : ApplyBilling(b, e) \in Bill
    /\ BillingStep \in [Bill \X BillingEvent -> Bill]
<1>1. ASSUME NEW b \in Bill, NEW e \in BillingEvent PROVE ApplyBilling(b, e) \in Bill
  <2>1. CASE e.type = "BillingCreated"
    BY <2>1 DEF ApplyBilling, Bill, BillingStatus
  <2>2. CASE e.type = "BillingPaid"
    BY <2>2 DEF ApplyBilling, Bill, BillingStatus
  <2>3. CASE e.type = "BillingFailed"
    BY <2>3, BillingEventTypes DEF ApplyBilling, Bill, BillingStatus
  <2>4. CASE e.type = "BillingRefunded"
    BY <2>4, BillingEventTypes DEF ApplyBilling, Bill, BillingStatus
  <2>5. CASE e.type = "BillingCancelled"
    BY <2>5 DEF ApplyBilling, Bill, BillingStatus
  <2> QED  BY <2>1, <2>2, <2>3, <2>4, <2>5, BillingEventTypes
<1>2. BillingStep \in [Bill \X BillingEvent -> Bill]
  BY <1>1 DEF BillingStep
<1> QED  BY <1>1, <1>2

LEMMA BuiltReplays ==
    ASSUME NEW base \in Bill, NEW s \in Seq(BillingEvent)
    PROVE  \E f \in [SUBSET DOMAIN s -> Bill] :
               Replays(BillingStep, base, s, f) /\ BuiltFrom(base, s) = f[DOMAIN s]
<1> DEFINE Chosen(f) == f = [t \in SUBSET DOMAIN s |->
                                IF t = {} THEN base ELSE ApplyBilling(f[t \ {Max(t)}], s[Max(t)])]
<1>1. PICK f \in [SUBSET DOMAIN s -> Bill] : Replays(BillingStep, base, s, f)
  BY BillingApplyTyped, ReplayExists
<1>2. ASSUME NEW t \in SUBSET DOMAIN s, t # {}
      PROVE  /\ Max(t) \in 1 .. Len(s) /\ s[Max(t)] \in BillingEvent
             /\ t \ {Max(t)} \in SUBSET DOMAIN s
             /\ BillingStep[<<f[t \ {Max(t)}], s[Max(t)]>>] = ApplyBilling(f[t \ {Max(t)}], s[Max(t)])
  <2>1. Max(t) \in 1 .. Len(s)
    BY <1>2, LastOfSome, Len(s) \in Nat, DOMAIN s = 1 .. Len(s)
  <2>2. s[Max(t)] \in BillingEvent /\ f[t \ {Max(t)}] \in Bill
    BY <2>1
  <2> QED  BY <2>1, <2>2 DEF BillingStep
<1>3. Chosen(f)
  BY <1>1, <1>2 DEF Replays
<1>4. BuiltFrom(base, s) = (CHOOSE h : Chosen(h))[DOMAIN s]
  BY DEF BuiltFrom, FoldLeft, MapThenFoldSet
<1> DEFINE h == CHOOSE h : Chosen(h)
<1>5. Chosen(h)
  <2> HIDE DEF Chosen
  <2> QED  BY <1>3
<1>6. f[DOMAIN s] = h[DOMAIN s]
  <2>1. f[{}] = h[{}]
    BY <1>1, <1>5 DEF Replays
  <2>2. ASSUME NEW t \in SUBSET DOMAIN s, t # {}, f[t \ {Max(t)}] = h[t \ {Max(t)}]
        PROVE  f[t] = h[t]
    <3>1. f[t] = ApplyBilling(f[t \ {Max(t)}], s[Max(t)])
      BY <1>3, <2>2
    <3>2. h[t] = ApplyBilling(h[t \ {Max(t)}], s[Max(t)])
      BY <1>5, <2>2
    <3> QED  BY <2>2, <3>1, <3>2
  <2> HIDE DEF h
  <2>3. \A t \in SUBSET DOMAIN s : f[t] = h[t]
    <3>1. Len(s) \in Nat /\ DOMAIN s = 1 .. Len(s)
      OBVIOUS
    <3>2. GoTogether(Len(s), f, h)
      BY <2>1, <2>2, <3>1 DEF GoTogether
    <3>3. \A t \in SUBSET (1 .. Len(s)) : f[t] = h[t]
      BY <3>1, <3>2, SameReplay
    <3> QED  BY <3>1, <3>3
  <2> QED  BY <2>3
<1> QED  BY <1>1, <1>4, <1>6

\* What a bill is rebuilt to, event by event.
LEMMA BuiltByEvent ==
    ASSUME NEW base \in Bill
    PROVE  /\ BuiltFrom(base, <<>>) = base
           /\ \A s \in Seq(BillingEvent) : BuiltFrom(base, s) \in Bill
           /\ \A s \in Seq(BillingEvent), e \in BillingEvent : BuiltFrom(base, Append(s, e)) = ApplyBilling(BuiltFrom(base, s), e)
<1> DEFINE r == [s \in Seq(BillingEvent) |-> BuiltFrom(base, s)]
<1>1. IsFold(Bill, BillingEvent, BillingStep, base, r)
  BY BuiltReplays DEF IsFold
<1>2. /\ r[<<>>] = base
      /\ \A s \in Seq(BillingEvent) : r[s] \in Bill
      /\ \A s \in Seq(BillingEvent), e \in BillingEvent : r[Append(s, e)] = BillingStep[<<r[s], e>>]
  <2> HIDE DEF r
  <2> QED  BY <1>1, FoldByEvent
<1>3. /\ <<>> \in Seq(BillingEvent)
      /\ \A s \in Seq(BillingEvent), e \in BillingEvent : Append(s, e) \in Seq(BillingEvent)
  OBVIOUS
<1> QED  BY <1>2, <1>3 DEF BillingStep

\* A bill that was created by its first event.
CreatedFirst(s) == s \in Seq(BillingEvent) /\ s # <<>> /\ s[1].type = "BillingCreated"

BaseOf(created) ==
    [NoBill EXCEPT !.amount = created.amount, !.billingType = created.billingType]

LEMMA BaseTyped ==
    ASSUME NEW e \in BillingEvent, e.type = "BillingCreated"
    PROVE  /\ BaseOf(e) \in Bill /\ BaseOf(e).status = "pending" /\ BaseOf(e).retryCount = 0
           /\ ApplyBilling(BaseOf(e), e) = BaseOf(e)
<1>1. BaseOf(e) \in Bill /\ BaseOf(e).status = "pending" /\ BaseOf(e).retryCount = 0
  <2>1. NoBill \in Bill /\ NoBill.status = "pending" /\ NoBill.retryCount = 0
    BY MaxBillEventsAssumption
       DEF NoBill, Bill, BillingStatus, BillingType, Amounts, Undefined
  <2>2. e.amount \in Amounts /\ e.billingType \in BillingType
    BY BillingEventTypes
  <2>3. PICK a \in Amounts, t \in BillingType : e.amount = a /\ e.billingType = t
    BY <2>2
  <2>4. BaseOf(e) = [NoBill EXCEPT !.amount = a, !.billingType = t]
    BY <2>3 DEF BaseOf
  <2> QED  BY <2>1, <2>4 DEF Bill
<1>2. ApplyBilling(BaseOf(e), e) = [BaseOf(e) EXCEPT !.status = "pending"]
  BY DEF ApplyBilling
<1>3. [BaseOf(e) EXCEPT !.status = "pending"] = BaseOf(e)
  BY <1>1 DEF Bill
<1> QED  BY <1>1, <1>2, <1>3

\* rehydrate finds the event that created the bill.
LEMMA CreatingEvent ==
    ASSUME NEW s, CreatedFirst(s)
    PROVE  RehydratedBill(s) = BuiltFrom(BaseOf(s[1]), s) /\ BaseOf(s[1]) \in Bill
<1> DEFINE I == {i \in 1 .. Len(s) : s[i].type = "BillingCreated"}
<1>1. Len(s) \in Nat /\ 1 \in 1 .. Len(s) /\ s[1] \in BillingEvent /\ 1 \in I
  BY DEF CreatedFirst
<1>2. Min(I) = 1
  <2>1. \A i \in I : 1 <= i
    BY <1>1
  <2>2. Min(I) = CHOOSE x \in I : \A y \in I : x <= y
    BY DEF Min
  <2>3. Min(I) \in I /\ \A y \in I : Min(I) <= y
    <3>1. \E x \in I : \A y \in I : x <= y
      BY <1>1, <2>1
    <3> HIDE DEF I
    <3> QED  BY <2>2, <3>1
  <2> QED  BY <1>1, <2>1, <2>3
<1>3. SelectInSeq(s, LAMBDA e : e.type = "BillingCreated") = 1
  BY <1>1, <1>2 DEF SelectInSeq
<1>4. BaseOf(s[1]) \in Bill
  BY <1>1, BaseTyped DEF CreatedFirst
<1> QED  BY <1>3, <1>4 DEF RehydratedBill, BuiltFrom, BaseOf

LEMMA BillByEvent ==
    ASSUME NEW s, CreatedFirst(s), NEW e \in BillingEvent
    PROVE  /\ RehydratedBill(s) \in Bill
           /\ CreatedFirst(Append(s, e))
           /\ RehydratedBill(Append(s, e)) = ApplyBilling(RehydratedBill(s), e)
<1>1. s \in Seq(BillingEvent) /\ RehydratedBill(s) = BuiltFrom(BaseOf(s[1]), s) /\ BaseOf(s[1]) \in Bill
  BY CreatingEvent DEF CreatedFirst
<1>2. CreatedFirst(Append(s, e)) /\ Append(s, e)[1] = s[1]
  BY DEF CreatedFirst
<1>3. RehydratedBill(Append(s, e)) = BuiltFrom(BaseOf(s[1]), Append(s, e))
  <2>1. PICK t : t = Append(s, e)
    OBVIOUS
  <2> QED  BY <1>2, <2>1, CreatingEvent
<1>4. /\ BuiltFrom(BaseOf(s[1]), s) \in Bill
      /\ BuiltFrom(BaseOf(s[1]), Append(s, e)) = ApplyBilling(BuiltFrom(BaseOf(s[1]), s), e)
  BY <1>1, BuiltByEvent
<1> QED  BY <1>1, <1>2, <1>3, <1>4

LEMMA CreatedBill ==
    ASSUME NEW e \in BillingEvent, e.type = "BillingCreated"
    PROVE  CreatedFirst(<<e>>) /\ RehydratedBill(<<e>>) = BaseOf(e)
<1>1. CreatedFirst(<<e>>) /\ <<e>>[1] = e /\ <<e>> = Append(<<>>, e) /\ <<>> \in Seq(BillingEvent)
  BY DEF CreatedFirst
<1>2. RehydratedBill(<<e>>) = BuiltFrom(BaseOf(e), <<e>>)
  BY <1>1, CreatingEvent
<1>3. BuiltFrom(BaseOf(e), Append(<<>>, e)) = ApplyBilling(BaseOf(e), e)
  <2>1. BaseOf(e) \in Bill
    BY BaseTyped
  <2>2. BuiltFrom(BaseOf(e), <<>>) = BaseOf(e)
    BY <2>1, BuiltByEvent
  <2>3. \A s \in Seq(BillingEvent) :
            BuiltFrom(BaseOf(e), Append(s, e)) = ApplyBilling(BuiltFrom(BaseOf(e), s), e)
    BY <2>1, BuiltByEvent
  <2> QED  BY <1>1, <2>2, <2>3, Zenon
<1> QED  BY <1>1, <1>2, <1>3, BaseTyped

\* A bill that has not failed was not retried.
PendingUntried(b) == b.status = "pending" => b.retryCount = 0

\* A stream that a bill is rebuilt from: what is final takes only a refund.
BillStory(t) ==
    /\ CreatedFirst(t)
    /\ PendingUntried(RehydratedBill(t))
    /\ \A i \in 2 .. Len(t) :
         IsFinalStatus(RehydratedBill(SubSeq(t, 1, i - 1))) => t[i].type = "BillingRefunded"

BillRoot == RootType(BillingEvent, {}, {Never})
BillingInstance == [live : BOOLEAN, bill : Bill, analytics : Analytics, root : BillRoot]

ToldBill == billStream \o billing.root.buffer

\* The one instance there is was rebuilt from the whole stream.
BillInv ==
    /\ BillingAggregateTypeOK
    /\ billStream # <<>> => BillStory(billStream)
    /\ IF billing.live
       THEN /\ billing.root.committed = Len(billStream)
            /\ BillStory(ToldBill)
            /\ billing.bill = RehydratedBill(ToldBill)
       ELSE billing = NoBilling

LEMMA InvTellsBill == BillInv => BillingAggregateTypeOK /\ BillSurvivesReload
<1> SUFFICES ASSUME BillInv PROVE BillSurvivesReload
  BY DEF BillInv
<1>1. CASE billing.live
  <2>1. billStream \in Seq(BillingEvent) /\ billing.root.committed = Len(billStream)
    BY <1>1 DEF BillInv, BillingAggregateTypeOK
  <2>2. SubSeq(billStream, 1, billing.root.committed) = billStream
    BY <2>1, WholePrefix
  <2> QED  BY <1>1, <2>2 DEF BillInv, BillSurvivesReload, BillStory, ToldBill
<1>2. CASE ~billing.live
  BY <1>2 DEF BillSurvivesReload
<1> QED  BY <1>1, <1>2

\* A story goes on with an event that is a refund if the bill is final.
LEMMA BillStoryGoesOn ==
    ASSUME NEW t, BillStory(t), NEW e \in BillingEvent,
           PendingUntried(ApplyBilling(RehydratedBill(t), e)),
           IsFinalStatus(RehydratedBill(t)) => e.type = "BillingRefunded"
    PROVE  /\ BillStory(Append(t, e))
           /\ RehydratedBill(Append(t, e)) = ApplyBilling(RehydratedBill(t), e)
<1> DEFINE more == Append(t, e)
<1>1. /\ t \in Seq(BillingEvent) /\ Len(t) \in Nat /\ Len(more) = Len(t) + 1
      /\ more[Len(t) + 1] = e /\ \A i \in 1 .. Len(t) : more[i] = t[i]
  BY DEF BillStory, CreatedFirst
<1>2. CreatedFirst(more) /\ RehydratedBill(more) = ApplyBilling(RehydratedBill(t), e)
  BY BillByEvent DEF BillStory
<1>3. \A n \in 0 .. Len(t) : SubSeq(more, 1, n) = SubSeq(t, 1, n)
  BY <1>1, PrefixOfAppend
<1>4. SubSeq(t, 1, Len(t)) = t
  BY <1>1, WholePrefix
<1> HIDE DEF more
<1>5. ASSUME NEW i \in 2 .. Len(more), IsFinalStatus(RehydratedBill(SubSeq(more, 1, i - 1)))
      PROVE  more[i].type = "BillingRefunded"
  <2>1. CASE i \in 2 .. Len(t)
    <3>1. i - 1 \in 0 .. Len(t) /\ i \in 1 .. Len(t)
      BY <1>1, <2>1
    <3>2. more[i] = t[i] /\ SubSeq(more, 1, i - 1) = SubSeq(t, 1, i - 1)
      BY <1>1, <1>3, <3>1
    <3> QED  BY <1>5, <2>1, <3>2 DEF BillStory
  <2>2. CASE i = Len(t) + 1
    <3>1. i - 1 = Len(t) /\ Len(t) \in 0 .. Len(t)
      BY <1>1, <2>2
    <3>2. more[i] = e /\ SubSeq(more, 1, i - 1) = t
      BY <1>1, <1>3, <1>4, <2>2, <3>1
    <3> QED  BY <1>5, <3>2
  <2> QED  BY <1>1, <2>1, <2>2
<1> QED  BY <1>2, <1>5 DEF BillStory, more

LEMMA BillStoryBegins ==
    ASSUME NEW e \in BillingEvent, e.type = "BillingCreated"
    PROVE  BillStory(<<e>>) /\ RehydratedBill(<<e>>) = BaseOf(e)
<1>1. CreatedFirst(<<e>>) /\ RehydratedBill(<<e>>) = BaseOf(e)
  BY CreatedBill
<1>2. PendingUntried(RehydratedBill(<<e>>))
  BY <1>1, BaseTyped DEF PendingUntried
<1>3. 2 .. Len(<<e>>) = {}
  OBVIOUS
<1> QED  BY <1>1, <1>2, <1>3 DEF BillStory

\* Recording an event, giving the recorded ones away, and what rehydrate leaves.
LEMMA BillRootGoesOn ==
    ASSUME NEW r \in BillRoot, RootConsistent(r)
    PROVE  /\ \A e \in BillingEvent :
                LET k == AddDomainEvent(r, e)
                IN  /\ k \in BillRoot /\ RootConsistent(k)
                    /\ k.committed = r.committed /\ k.buffer = Append(r.buffer, e)
           /\ LET k == CommitUncommittedEvents(r)
              IN  /\ k \in BillRoot /\ RootConsistent(k)
                  /\ k.committed = r.committed + Len(r.buffer) /\ k.buffer = <<>>
<1>0. r \in [version : Nat, committed : Nat, buffer : Seq(BillingEvent),
             createdAt : {Never}, updatedAt : {Never}, createdBy : {} \cup {Nobody},
             updatedBy : {} \cup {Nobody}, deletedAt : {Never}, deletedBy : {} \cup {Nobody}]
  BY DEF BillRoot, RootType
<1>1. /\ r.version = r.committed + Len(r.buffer) /\ r.version \in Nat /\ r.committed \in Nat
      /\ r.buffer \in Seq(BillingEvent) /\ Len(r.buffer) \in Nat
      /\ r.createdAt = 0 /\ r.updatedAt = 0 /\ r.deletedAt = 0 /\ r.deletedBy = Nobody
  BY <1>0 DEF RootConsistent, Never
<1>2. ASSUME NEW e \in BillingEvent
      PROVE  /\ AddDomainEvent(r, e) \in BillRoot /\ RootConsistent(AddDomainEvent(r, e))
             /\ AddDomainEvent(r, e).committed = r.committed
             /\ AddDomainEvent(r, e).buffer = Append(r.buffer, e)
  <2> DEFINE more == Append(r.buffer, e)
             k == AddDomainEvent(r, e)
  <2>1. more \in Seq(BillingEvent) /\ Len(more) = Len(r.buffer) + 1
    BY <1>1
  <2> HIDE DEF more
  <2>2. /\ k.version = r.version + 1 /\ k.committed = r.committed /\ k.buffer = more
        /\ k.createdAt = r.createdAt /\ k.updatedAt = r.updatedAt
        /\ k.deletedAt = r.deletedAt /\ k.deletedBy = r.deletedBy
    BY <1>0 DEF AddDomainEvent, more
  <2>3. k \in BillRoot
    <3>1. r.version + 1 \in Nat /\ Append(r.buffer, e) \in Seq(BillingEvent)
      BY <1>1
    <3> QED  BY <1>0, <3>1 DEF AddDomainEvent, BillRoot, RootType
  <2> HIDE DEF k
  <2>4. RootConsistent(k)
    BY <1>1, <2>1, <2>2 DEF RootConsistent, IsDeleted, Never
  <2> QED  BY <2>2, <2>3, <2>4 DEF k, more
<1>3. /\ CommitUncommittedEvents(r) \in BillRoot /\ RootConsistent(CommitUncommittedEvents(r))
      /\ CommitUncommittedEvents(r).committed = r.committed + Len(r.buffer)
      /\ CommitUncommittedEvents(r).buffer = <<>>
  <2> DEFINE k == CommitUncommittedEvents(r)
  <2>1. /\ k.version = r.version /\ k.committed = r.version /\ k.buffer = <<>>
        /\ k.createdAt = r.createdAt /\ k.updatedAt = r.updatedAt
        /\ k.deletedAt = r.deletedAt /\ k.deletedBy = r.deletedBy
    BY <1>0 DEF CommitUncommittedEvents
  <2>2. k \in BillRoot
    <3>1. <<>> \in Seq(BillingEvent)
      OBVIOUS
    <3> QED  BY <1>0, <1>1, <3>1 DEF CommitUncommittedEvents, BillRoot, RootType
  <2> HIDE DEF k
  <2>3. RootConsistent(k)
    BY <1>1, <2>1 DEF RootConsistent, IsDeleted, Never
  <2> QED  BY <1>1, <2>1, <2>2, <2>3 DEF k
<1> QED  BY <1>2, <1>3

LEMMA FreshRoot ==
    /\ Root \in BillRoot /\ RootConsistent(Root) /\ Root.committed = 0 /\ Root.buffer = <<>>
    /\ \A n \in Nat :
         LET k == ResetEventStateAfterRehydrate(Root, n)
         IN  k \in BillRoot /\ RootConsistent(k) /\ k.committed = n /\ k.buffer = <<>>
<1>1. <<>> \in Seq(BillingEvent)
  OBVIOUS
<1>2. Root \in BillRoot /\ RootConsistent(Root) /\ Root.committed = 0 /\ Root.buffer = <<>>
  BY <1>1 DEF Root, BillRoot, RootType, RootConsistent, IsDeleted, Never
<1>3. ASSUME NEW n \in Nat
      PROVE  LET k == ResetEventStateAfterRehydrate(Root, n)
             IN  k \in BillRoot /\ RootConsistent(k) /\ k.committed = n /\ k.buffer = <<>>
  <2> DEFINE k == ResetEventStateAfterRehydrate(Root, n)
  <2>1. k \in BillRoot
    BY <1>1, <1>2 DEF ResetEventStateAfterRehydrate, BillRoot, RootType
  <2>2. /\ k.version = n /\ k.committed = n /\ k.buffer = <<>>
        /\ k.createdAt = 0 /\ k.updatedAt = 0 /\ k.deletedAt = 0 /\ k.deletedBy = Nobody
    BY DEF ResetEventStateAfterRehydrate, Root, Never
  <2>3. n = n + Len(<<>>)
    OBVIOUS
  <2> HIDE DEF k
  <2>4. RootConsistent(k)
    BY <2>2, <2>3 DEF RootConsistent, IsDeleted, Never
  <2> QED  BY <2>1, <2>2, <2>4 DEF k
<1> QED  BY <1>2, <1>3

LEMMA NoBillingTyped ==
    NoBilling \in BillingInstance /\ RootConsistent(NoBilling.root) /\ ~NoBilling.live
    /\ NoBilling.root.buffer = <<>> /\ NoAnalytics \in Analytics
<1>1. NoBill \in Bill
  BY MaxBillEventsAssumption DEF NoBill, Bill, BillingStatus, BillingType, Amounts, Undefined
<1>2. NoAnalytics \in Analytics
  BY DEF NoAnalytics, Analytics, Tags, Categories, Undefined
<1> QED  BY <1>1, <1>2, FreshRoot DEF NoBilling, BillingInstance

LEMMA BillingShape ==
    BillingAggregateTypeOK <=>
        billStream \in Seq(BillingEvent) /\ billing \in BillingInstance /\ RootConsistent(billing.root)
BY DEF BillingAggregateTypeOK, BillingInstance, BillRoot

LEMMA BillingFields ==
    ASSUME BillInv
    PROVE  /\ billStream \in Seq(BillingEvent) /\ billing \in BillingInstance
           /\ billing.bill \in Bill /\ billing.analytics \in Analytics
           /\ billing.root \in BillRoot /\ RootConsistent(billing.root)
           /\ billing.root.buffer \in Seq(BillingEvent)
<1>1. billStream \in Seq(BillingEvent) /\ billing \in BillingInstance /\ RootConsistent(billing.root)
  BY BillingShape DEF BillInv
<1>2. billing.bill \in Bill /\ billing.analytics \in Analytics /\ billing.root \in BillRoot
  BY <1>1 DEF BillingInstance
<1>3. billing.root.buffer \in Seq(BillingEvent)
  BY <1>2 DEF BillRoot, RootType
<1> QED  BY <1>1, <1>2, <1>3

LEMMA CreateBillFollows ==
    ASSUME BillInv, NEW amount \in Amounts, NEW t \in BillingType, CreateBill(amount, t)
    PROVE  BillInv'
<1> DEFINE e == [type |-> "BillingCreated", amount |-> amount, billingType |-> t]
           root == AddDomainEvent(Root, e)
           bill == [NoBill EXCEPT !.amount = amount, !.billingType = t]
<1>1. e \in BillingEvent /\ e.type = "BillingCreated" /\ e.amount = amount /\ e.billingType = t
  BY DEF BillingEvent
<1>2. /\ billStream = <<>> /\ billStream' = <<>>
      /\ billing' = [live |-> TRUE, bill |-> bill, analytics |-> InitialAnalytics(amount, t),
                     root |-> root]
  BY DEF CreateBill
<1>3. bill = BaseOf(e)
  BY <1>1 DEF BaseOf
<1> HIDE DEF e, bill
<1>4. root \in BillRoot /\ RootConsistent(root) /\ root.committed = 0 /\ root.buffer = <<e>>
  <2>1. Append(<<>>, e) = <<e>>
    OBVIOUS
  <2> QED  BY <1>1, <2>1, FreshRoot, BillRootGoesOn
<1> HIDE DEF root
<1>5. InitialAnalytics(amount, t) \in Analytics
  <2> DEFINE c == CASE t = "subscription" -> "subscription"
                    [] t = "one_time" -> "one-time"
                    [] OTHER -> Undefined
             g == CASE amount = "high" -> {"high-value"}
                    [] amount = "low" -> {"low-value"}
                    [] OTHER -> {}
             a == SetStatusDimension(NoAnalytics, "pending")
  <2>1. c \in Categories
    BY DEF Categories
  <2>2. g \in SUBSET Tags
    BY DEF Tags
  <2>3. a \in Analytics
    BY NoBillingTyped DEF SetStatusDimension, Analytics, BillingStatus
  <2>4. InitialAnalytics(amount, t) = [a EXCEPT !.category = c, !.tags = g]
    BY DEF InitialAnalytics
  <2> HIDE DEF a, c, g
  <2> QED  BY <2>1, <2>2, <2>3, <2>4 DEF Analytics
<1>6. BaseOf(e) \in Bill
  BY <1>1, BaseTyped
<1>7. /\ billing'.live /\ billing'.bill = BaseOf(e) /\ billing'.root = root
      /\ billing' \in BillingInstance
  BY <1>2, <1>3, <1>4, <1>5, <1>6 DEF BillingInstance
<1>8. ToldBill' = <<e>>
  <2>1. billing'.root.buffer = <<e>>
    BY <1>4, <1>7
  <2> QED  BY <1>1, <1>2, <2>1 DEF ToldBill
<1>9. BillStory(<<e>>) /\ RehydratedBill(<<e>>) = BaseOf(e)
  BY <1>1, BillStoryBegins
<1>10. BillingAggregateTypeOK'
  <2>1. /\ billStream' \in Seq(BillingEvent) /\ billing' \in BillingInstance
        /\ RootConsistent(billing'.root)
    BY <1>2, <1>4, <1>7
  <2> QED  BY <2>1 DEF BillingAggregateTypeOK, BillingInstance, BillRoot
<1> QED  BY <1>2, <1>4, <1>7, <1>8, <1>9, <1>10 DEF BillInv

\* A method that records an event, and changes the bill as the event says.
LEMMA BecomesFollows ==
    ASSUME BillInv, billing.live, NEW b, NEW a \in Analytics, NEW e \in BillingEvent,
           Becomes(b, a, e), b = ApplyBilling(billing.bill, e), PendingUntried(b),
           IsFinalStatus(billing.bill) => e.type = "BillingRefunded"
    PROVE  BillInv'
<1> DEFINE root == AddDomainEvent(billing.root, e)
           t == ToldBill
<1>1. /\ billStream \in Seq(BillingEvent) /\ billing \in BillingInstance /\ billing.bill \in Bill
      /\ billing.root \in BillRoot /\ RootConsistent(billing.root)
      /\ billing.root.buffer \in Seq(BillingEvent)
  BY BillingFields
<1>2. /\ root \in BillRoot /\ RootConsistent(root) /\ root.committed = billing.root.committed
      /\ root.buffer = Append(billing.root.buffer, e)
  BY <1>1, BillRootGoesOn
<1>3. /\ billStream' = billStream
      /\ billing' = [billing EXCEPT !.bill = b, !.analytics = a, !.root = root]
  BY DEF Becomes
<1>4. b \in Bill
  BY <1>1, BillingApplyTyped
<1> HIDE DEF root
<1>5. billing'.live = billing.live /\ billing'.bill = b /\ billing'.root = root
  BY <1>1, <1>3 DEF BillingInstance
<1>6. billing' \in BillingInstance
  BY <1>1, <1>2, <1>3, <1>4 DEF BillingInstance
<1>7. /\ billing.root.committed = Len(billStream) /\ BillStory(t)
      /\ billing.bill = RehydratedBill(t)
      /\ billStream # <<>> => BillStory(billStream)
  BY DEF BillInv
<1>8. ToldBill' = Append(t, e)
  <2>1. ToldBill' = billStream \o Append(billing.root.buffer, e)
    BY <1>2, <1>3, <1>5 DEF ToldBill
  <2>2. billStream \o Append(billing.root.buffer, e) = Append(billStream \o billing.root.buffer, e)
    BY <1>1, AppendToConcat
  <2> QED  BY <2>1, <2>2 DEF ToldBill
<1> HIDE DEF t
<1>9. BillStory(Append(t, e)) /\ RehydratedBill(Append(t, e)) = b
  BY <1>7, BillStoryGoesOn
<1>10. BillingAggregateTypeOK'
  BY <1>1, <1>2, <1>3, <1>5, <1>6 DEF BillingAggregateTypeOK, BillingInstance, BillRoot
<1> QED  BY <1>2, <1>3, <1>5, <1>7, <1>8, <1>9, <1>10 DEF BillInv

LEMMA PayBillFollows == ASSUME BillInv, PayBill PROVE BillInv'
<1> DEFINE b == billing.bill
           e == [type |-> "BillingPaid"]
           a == AddTag(SetStatusDimension(billing.analytics, "paid"), "paid")
<1>1. /\ billing.live /\ b.status = "pending" /\ b \in Bill /\ billing.analytics \in Analytics
      /\ Becomes([b EXCEPT !.status = "paid"], a, e)
  BY BillingFields DEF PayBill, CanBePaid
<1>2. e \in BillingEvent /\ e.type = "BillingPaid"
  BY DEF BillingEvent
<1>3. a \in Analytics
  <2>1. SetStatusDimension(billing.analytics, "paid") \in Analytics
    BY <1>1 DEF SetStatusDimension, Analytics, BillingStatus
  <2> QED  BY <2>1 DEF AddTag, Analytics, Tags
<1> HIDE DEF a, e
<1>4. [b EXCEPT !.status = "paid"] = ApplyBilling(b, e)
  BY <1>2 DEF ApplyBilling
<1>5. PendingUntried([b EXCEPT !.status = "paid"]) /\ ~IsFinalStatus(b)
  BY <1>1 DEF PendingUntried, IsFinalStatus, Bill
<1> QED  BY <1>1, <1>2, <1>3, <1>4, <1>5, BecomesFollows

LEMMA FailBillFollows == ASSUME BillInv, FailBill PROVE BillInv'
<1> DEFINE b == billing.bill
           e == [type |-> "BillingFailed", retryCount |-> b.retryCount + 1]
           after == [b EXCEPT !.status = "failed", !.retryCount = @ + 1]
<1>1. /\ billing.live /\ b.status = "pending" /\ b \in Bill /\ billing.analytics \in Analytics
      /\ Becomes(after, billing.analytics, e)
  BY BillingFields DEF FailBill, CanBePaid
<1>2. b.retryCount = 0
  BY <1>1 DEF BillInv, BillStory, PendingUntried
<1>3. e \in BillingEvent /\ e.type = "BillingFailed" /\ e.retryCount = b.retryCount + 1
  BY <1>2, MaxBillEventsAssumption DEF BillingEvent
<1> HIDE DEF e
<1>4. after = ApplyBilling(b, e)
  <2>1. ApplyBilling(b, e) = [b EXCEPT !.status = "failed", !.retryCount = e.retryCount]
    BY <1>3 DEF ApplyBilling
  <2> QED  BY <1>3, <2>1
<1>5. PendingUntried(after) /\ ~IsFinalStatus(b)
  BY <1>1 DEF PendingUntried, IsFinalStatus, Bill
<1> HIDE DEF after
<1> QED  BY <1>1, <1>3, <1>4, <1>5, BecomesFollows

LEMMA RefundBillFollows == ASSUME BillInv, RefundBill PROVE BillInv'
<1> DEFINE b == billing.bill
           e == [type |-> "BillingRefunded", refundAmount |-> b.amount]
           after == [b EXCEPT !.status = "refunded", !.refundAmount = b.amount]
<1>1. /\ billing.live /\ b \in Bill /\ billing.analytics \in Analytics
      /\ Becomes(after, billing.analytics, e)
  BY BillingFields DEF RefundBill
<1>2. e \in BillingEvent /\ e.type = "BillingRefunded" /\ e.refundAmount = b.amount
  BY <1>1 DEF BillingEvent, Bill
<1> HIDE DEF e
<1>3. after = ApplyBilling(b, e)
  <2>1. ApplyBilling(b, e) = [b EXCEPT !.status = "refunded", !.refundAmount = e.refundAmount]
    BY <1>2 DEF ApplyBilling
  <2> QED  BY <1>2, <2>1
<1>4. PendingUntried(after)
  BY <1>1 DEF PendingUntried, Bill
<1> HIDE DEF after
<1> QED  BY <1>1, <1>2, <1>3, <1>4, BecomesFollows

LEMMA CancelBillFollows == ASSUME BillInv, CancelBill PROVE BillInv'
<1> DEFINE b == billing.bill
           e == [type |-> "BillingCancelled"]
           after == [b EXCEPT !.status = "cancelled"]
<1>1. /\ billing.live /\ b.status = "pending" /\ b \in Bill /\ billing.analytics \in Analytics
      /\ Becomes(after, billing.analytics, e)
  BY BillingFields DEF CancelBill, CanBeCancelled
<1>2. e \in BillingEvent /\ e.type = "BillingCancelled"
  BY DEF BillingEvent
<1> HIDE DEF e
<1>3. after = ApplyBilling(b, e)
  BY <1>2 DEF ApplyBilling
<1>4. PendingUntried(after) /\ ~IsFinalStatus(b)
  BY <1>1 DEF PendingUntried, IsFinalStatus, Bill
<1> HIDE DEF after
<1> QED  BY <1>1, <1>2, <1>3, <1>4, BecomesFollows

LEMMA AnnotateFollows == ASSUME BillInv, Annotate PROVE BillInv'
<1>1. billing \in BillingInstance /\ billing.analytics \in Analytics
  BY BillingFields
<1>2. PICK a : /\ billing' = [billing EXCEPT !.analytics = a] /\ billStream' = billStream
               /\ a \in {AddTag(billing.analytics, tag) : tag \in BillTags}
                        \cup {RemoveTag(billing.analytics, tag) : tag \in Tags}
                        \cup {SetTags(billing.analytics, BillTags),
                              ClearTags(billing.analytics),
                              SetCategory(billing.analytics, "one-time"),
                              ClearCategory(billing.analytics),
                              RemoveStatusDimension(billing.analytics),
                              ClearAnalyticsDimensions(billing.analytics),
                              SetQualityScore(billing.analytics, 100),
                              SetIncludeInAnalytics(billing.analytics, FALSE)}
  BY DEF Annotate
<1>3. a \in Analytics
  <2>1. ASSUME NEW tag \in BillTags PROVE AddTag(billing.analytics, tag) \in Analytics
    BY <1>1 DEF AddTag, Analytics, Tags
  <2>2. ASSUME NEW tag \in Tags PROVE RemoveTag(billing.analytics, tag) \in Analytics
    BY <1>1 DEF RemoveTag, Analytics
  <2>3. /\ SetTags(billing.analytics, BillTags) \in Analytics
        /\ ClearTags(billing.analytics) \in Analytics
    BY <1>1 DEF SetTags, ClearTags, Analytics, Tags
  <2>4. /\ SetCategory(billing.analytics, "one-time") \in Analytics
        /\ ClearCategory(billing.analytics) \in Analytics
    BY <1>1 DEF SetCategory, ClearCategory, Analytics, Categories
  <2>5. /\ RemoveStatusDimension(billing.analytics) \in Analytics
        /\ ClearAnalyticsDimensions(billing.analytics) \in Analytics
    BY <1>1 DEF RemoveStatusDimension, ClearAnalyticsDimensions, Analytics
  <2>6. SetQualityScore(billing.analytics, 100) \in Analytics
    BY <1>1 DEF SetQualityScore, Analytics
  <2>7. SetIncludeInAnalytics(billing.analytics, FALSE) \in Analytics
    BY <1>1 DEF SetIncludeInAnalytics, Analytics
  <2> QED  BY <1>2, <2>1, <2>2, <2>3, <2>4, <2>5, <2>6, <2>7
<1>4. /\ billing'.live = billing.live /\ billing'.bill = billing.bill
      /\ billing'.root = billing.root /\ billing' \in BillingInstance
  BY <1>1, <1>2, <1>3 DEF BillingInstance
<1>5. billing.live
  BY DEF Annotate
<1>6. BillingAggregateTypeOK'
  BY <1>2, <1>4 DEF BillInv, BillingAggregateTypeOK, BillingInstance, BillRoot
<1>7. ToldBill' = ToldBill
  BY <1>2, <1>4 DEF ToldBill
<1> QED  BY <1>2, <1>4, <1>5, <1>6, <1>7 DEF BillInv

LEMMA SaveBillFollows == ASSUME BillInv, SaveBill PROVE BillInv'
<1> DEFINE root == CommitUncommittedEvents(billing.root)
           t == ToldBill
<1>1. /\ billStream \in Seq(BillingEvent) /\ billing \in BillingInstance
      /\ billing.root \in BillRoot /\ RootConsistent(billing.root)
      /\ billing.root.buffer \in Seq(BillingEvent)
  BY BillingFields
<1>2. /\ root \in BillRoot /\ RootConsistent(root)
      /\ root.committed = billing.root.committed + Len(billing.root.buffer) /\ root.buffer = <<>>
  BY <1>1, BillRootGoesOn
<1>3. billing.root.buffer # <<>> /\ billStream' = t /\ billing' = [billing EXCEPT !.root = root]
  BY DEF SaveBill, ToldBill
<1>4. billing.live
  BY <1>3, NoBillingTyped DEF BillInv
<1>5. /\ billing.root.committed = Len(billStream) /\ BillStory(t)
      /\ billing.bill = RehydratedBill(t)
  BY <1>4 DEF BillInv
<1>6. Len(t) = Len(billStream) + Len(billing.root.buffer) /\ t \in Seq(BillingEvent)
  BY <1>1 DEF ToldBill
<1> HIDE DEF root, t
<1>7. /\ billing'.live = billing.live /\ billing'.bill = billing.bill /\ billing'.root = root
      /\ billing' \in BillingInstance
  BY <1>1, <1>2, <1>3 DEF BillingInstance
<1>8. ToldBill' = t
  <2>1. t \o <<>> = t
    BY <1>6
  <2> QED  BY <1>2, <1>3, <1>7, <2>1 DEF ToldBill
<1>9. BillingAggregateTypeOK'
  BY <1>2, <1>3, <1>6, <1>7 DEF BillingAggregateTypeOK, BillingInstance, BillRoot
<1>10. billing'.root.committed = Len(billStream')
  BY <1>2, <1>3, <1>5, <1>6, <1>7
<1> QED  BY <1>3, <1>4, <1>5, <1>7, <1>8, <1>9, <1>10 DEF BillInv

LEMMA LeaveBillFollows == ASSUME BillInv, LeaveBill PROVE BillInv'
<1>1. billing' = NoBilling /\ billStream' = billStream
  BY DEF LeaveBill
<1>2. BillingAggregateTypeOK'
  BY <1>1, BillingFields, NoBillingTyped DEF BillingAggregateTypeOK, BillingInstance, BillRoot
<1> QED  BY <1>1, <1>2, NoBillingTyped DEF BillInv

LEMMA FindBillFollows == ASSUME BillInv, FindBill PROVE BillInv'
<1> DEFINE root == ResetEventStateAfterRehydrate(Root, Len(billStream))
<1>1. /\ billStream \in Seq(BillingEvent) /\ Len(billStream) \in Nat /\ BillStory(billStream)
      /\ billStream' = billStream
  BY BillingFields DEF BillInv, FindBill
<1>2. /\ root \in BillRoot /\ RootConsistent(root) /\ root.committed = Len(billStream)
      /\ root.buffer = <<>>
  BY <1>1, FreshRoot
<1>3. billing' = [live |-> TRUE, bill |-> RehydratedBill(billStream), analytics |-> NoAnalytics,
                  root |-> root]
  BY DEF FindBill, RehydrateBilling
<1> HIDE DEF root
<1>4. RehydratedBill(billStream) \in Bill
  <2>1. CreatedFirst(billStream)
    BY <1>1 DEF BillStory
  <2>2. RehydratedBill(billStream) = BuiltFrom(BaseOf(billStream[1]), billStream)
        /\ BaseOf(billStream[1]) \in Bill
    BY <2>1, CreatingEvent
  <2> QED  BY <1>1, <2>2, BuiltByEvent
<1>5. /\ billing'.live /\ billing'.bill = RehydratedBill(billStream) /\ billing'.root = root
      /\ billing' \in BillingInstance
  BY <1>2, <1>3, <1>4, NoBillingTyped DEF BillingInstance
<1>6. ToldBill' = billStream
  <2>1. billStream \o <<>> = billStream
    BY <1>1
  <2> QED  BY <1>1, <1>2, <1>5, <2>1 DEF ToldBill
<1>7. BillingAggregateTypeOK'
  BY <1>1, <1>2, <1>5 DEF BillingAggregateTypeOK, BillingInstance, BillRoot
<1> QED  BY <1>1, <1>2, <1>5, <1>6, <1>7 DEF BillInv

LEMMA BillInductive == BillingAggregateSpec => []BillInv
<1>1. BillingAggregateInit => BillInv
  <2> SUFFICES ASSUME BillingAggregateInit PROVE BillInv
    OBVIOUS
  <2>1. billStream = <<>> /\ billing = NoBilling
    BY DEF BillingAggregateInit
  <2>2. BillingAggregateTypeOK
    BY <2>1, NoBillingTyped, BillingShape
  <2> QED  BY <2>1, <2>2, NoBillingTyped DEF BillInv
<1>2. BillInv /\ [BillingAggregateNext]_billingVars => BillInv'
  <2> SUFFICES ASSUME BillInv, [BillingAggregateNext]_billingVars PROVE BillInv'
    OBVIOUS
  <2>1. CASE UNCHANGED billingVars
    BY <2>1 DEF billingVars, BillInv, BillingAggregateTypeOK, ToldBill
  <2>2. CASE BillingAggregateNext
    BY <2>2, CreateBillFollows, PayBillFollows, FailBillFollows, RefundBillFollows,
       CancelBillFollows, AnnotateFollows, SaveBillFollows, LeaveBillFollows, FindBillFollows
       DEF BillingAggregateNext
  <2> QED  BY <2>1, <2>2
<1> QED  BY <1>1, <1>2, PTL DEF BillingAggregateSpec

\* The variables keep their types, and the root's versions and audit times agree.
THEOREM BillingAggregateTypeCorrect == BillingAggregateSpec => []BillingAggregateTypeOK
<1>1. BillInv => BillingAggregateTypeOK
  BY InvTellsBill
<1> QED  BY <1>1, BillInductive, PTL

\* Whatever is done with a bill and whenever it is reloaded, an instance is what
\* rehydrate would make of its events, and what is final takes a refund only
\* (billing.aggregate.ts:151, 347).
THEOREM BillReloads == BillingAggregateSpec => []BillSurvivesReload
<1>1. BillInv => BillSurvivesReload
  BY InvTellsBill
<1> QED  BY <1>1, BillInductive, PTL

-----------------------------------------------------------------------------
(* The document aggregate. *)

ApplyDocumentStep == [p \in Document \X DocumentEvent |-> ApplyDocument(p[1], p[2])]
DocumentTold(events) == FoldLeft(ApplyDocument, Blank, events)

LEMMA ApplyDocumentSets ==
    ASSUME NEW d \in Document, NEW e \in DocumentEvent
    PROVE  LET k == ApplyDocument(d, e)
           IN  /\ k \in Document
               /\ k.title = IF e.type \in {"DocumentCreated", "DocumentTitleUpdated"}
                            THEN e.title ELSE d.title
               /\ k.status = CASE e.type = "DocumentCreated" -> "DRAFT"
                               [] e.type = "DocumentPublished" -> "PUBLISHED"
                               [] e.type = "DocumentArchived" -> "ARCHIVED"
                               [] OTHER -> d.status
<1>0. d \in [live : BOOLEAN, title : Titles, content : Contents, status : DocumentStatus,
             tags : SUBSET DocumentTags, embeddingStatus : EmbeddingStatus,
             errorMessage : BOOLEAN, root : DocumentRoot]
  BY DocumentShape
<1>1. CASE e.type = "DocumentCreated"
  <2>1. e.title \in Titles
    BY <1>1 DEF DocumentEvent
  <2>2. ApplyDocument(d, e) = [d EXCEPT !.title = e.title, !.status = "DRAFT"]
    BY <1>1 DEF ApplyDocument
  <2> QED  BY <1>0, <1>1, <2>1, <2>2, DocumentShape DEF DocumentStatus
<1>2. CASE e.type = "DocumentTitleUpdated"
  <2>1. e.title \in Titles
    BY <1>2 DEF DocumentEvent
  <2>2. ApplyDocument(d, e) = [d EXCEPT !.title = e.title]
    BY <1>2 DEF ApplyDocument
  <2> QED  BY <1>0, <1>2, <2>1, <2>2, DocumentShape DEF DocumentStatus
<1>3. CASE e.type = "DocumentPublished"
  <2>1. ApplyDocument(d, e) = [d EXCEPT !.status = "PUBLISHED"]
    BY <1>3 DEF ApplyDocument
  <2> QED  BY <1>0, <1>3, <2>1, DocumentShape DEF DocumentStatus
<1>4. CASE e.type = "DocumentArchived"
  <2>1. ApplyDocument(d, e) = [d EXCEPT !.status = "ARCHIVED"]
    BY <1>4 DEF ApplyDocument
  <2> QED  BY <1>0, <1>4, <2>1, DocumentShape DEF DocumentStatus
<1>5. CASE e.type = "DocumentContentUpdated"
  <2>1. ApplyDocument(d, e) = d
    BY <1>5 DEF ApplyDocument
  <2> QED  BY <1>5, <2>1
<1>6. e.type \in {"DocumentCreated", "DocumentTitleUpdated", "DocumentContentUpdated",
                  "DocumentPublished", "DocumentArchived"}
  BY DEF DocumentEvent
<1> QED  BY <1>1, <1>2, <1>3, <1>4, <1>5, <1>6

LEMMA ApplyDocumentTyped ==
    ApplyDocumentStep \in [Document \X DocumentEvent -> Document]
BY ApplyDocumentSets DEF ApplyDocumentStep

LEMMA DocumentReplays ==
    ASSUME NEW s \in Seq(DocumentEvent)
    PROVE  \E f \in [SUBSET DOMAIN s -> Document] :
               Replays(ApplyDocumentStep, Blank, s, f) /\ DocumentTold(s) = f[DOMAIN s]
<1> DEFINE Chosen(f) == f = [t \in SUBSET DOMAIN s |->
                                IF t = {} THEN Blank ELSE ApplyDocument(f[t \ {Max(t)}], s[Max(t)])]
<1>1. PICK f \in [SUBSET DOMAIN s -> Document] : Replays(ApplyDocumentStep, Blank, s, f)
  BY ApplyDocumentTyped, BlankType, ReplayExists
<1>2. ASSUME NEW t \in SUBSET DOMAIN s, t # {}
      PROVE  /\ Max(t) \in 1 .. Len(s) /\ s[Max(t)] \in DocumentEvent
             /\ t \ {Max(t)} \in SUBSET DOMAIN s
             /\ ApplyDocumentStep[<<f[t \ {Max(t)}], s[Max(t)]>>] = ApplyDocument(f[t \ {Max(t)}], s[Max(t)])
  <2>1. Max(t) \in 1 .. Len(s)
    BY <1>2, LastOfSome, Len(s) \in Nat, DOMAIN s = 1 .. Len(s)
  <2>2. s[Max(t)] \in DocumentEvent /\ f[t \ {Max(t)}] \in Document
    BY <2>1
  <2> QED  BY <2>1, <2>2 DEF ApplyDocumentStep
<1>3. Chosen(f)
  BY <1>1, <1>2 DEF Replays
<1>4. DocumentTold(s) = (CHOOSE h : Chosen(h))[DOMAIN s]
  BY DEF DocumentTold, FoldLeft, MapThenFoldSet
<1> DEFINE h == CHOOSE h : Chosen(h)
<1>5. Chosen(h)
  <2> HIDE DEF Chosen
  <2> QED  BY <1>3
<1>6. f[DOMAIN s] = h[DOMAIN s]
  <2>1. f[{}] = h[{}]
    BY <1>1, <1>5 DEF Replays
  <2>2. ASSUME NEW t \in SUBSET DOMAIN s, t # {}, f[t \ {Max(t)}] = h[t \ {Max(t)}]
        PROVE  f[t] = h[t]
    <3>1. f[t] = ApplyDocument(f[t \ {Max(t)}], s[Max(t)])
      BY <1>3, <2>2
    <3>2. h[t] = ApplyDocument(h[t \ {Max(t)}], s[Max(t)])
      BY <1>5, <2>2
    <3> QED  BY <2>2, <3>1, <3>2
  <2> HIDE DEF h
  <2>3. \A t \in SUBSET DOMAIN s : f[t] = h[t]
    <3>1. Len(s) \in Nat /\ DOMAIN s = 1 .. Len(s)
      OBVIOUS
    <3>2. GoTogether(Len(s), f, h)
      BY <2>1, <2>2, <3>1 DEF GoTogether
    <3>3. \A t \in SUBSET (1 .. Len(s)) : f[t] = h[t]
      BY <3>1, <3>2, SameReplay
    <3> QED  BY <3>1, <3>3
  <2> QED  BY <2>3
<1> QED  BY <1>1, <1>4, <1>6

\* What a document is replayed to, event by event.
LEMMA DocumentByEvent ==
    /\ DocumentTold(<<>>) = Blank
    /\ \A s \in Seq(DocumentEvent) : DocumentTold(s) \in Document
    /\ \A s \in Seq(DocumentEvent), e \in DocumentEvent : DocumentTold(Append(s, e)) = ApplyDocument(DocumentTold(s), e)
<1> DEFINE r == [s \in Seq(DocumentEvent) |-> DocumentTold(s)]
<1>1. IsFold(Document, DocumentEvent, ApplyDocumentStep, Blank, r)
  BY DocumentReplays DEF IsFold
<1>2. /\ r[<<>>] = Blank
      /\ \A s \in Seq(DocumentEvent) : r[s] \in Document
      /\ \A s \in Seq(DocumentEvent), e \in DocumentEvent : r[Append(s, e)] = ApplyDocumentStep[<<r[s], e>>]
  <2> HIDE DEF r
  <2> QED  BY <1>1, FoldByEvent
<1>3. /\ <<>> \in Seq(DocumentEvent)
      /\ \A s \in Seq(DocumentEvent), e \in DocumentEvent : Append(s, e) \in Seq(DocumentEvent)
  OBVIOUS
<1> QED  BY <1>2, <1>3 DEF ApplyDocumentStep

\* Nothing is told of a document nobody made, and of the others the events tell
\* title and status.
DocumentInv ==
    /\ DocumentTypeOK
    /\ document.live =>
         /\ DocumentTold(emitted).title = document.title
         /\ DocumentTold(emitted).status = document.status

\* A method that records an event, and changes title and status as it says.
LEMMA EmitsFollows ==
    ASSUME DocumentInv, NEW d \in Document, NEW e \in DocumentEvent, Emits(d, e),
           d.title = ApplyDocument(DocumentTold(emitted), e).title,
           d.status = ApplyDocument(DocumentTold(emitted), e).status
    PROVE  /\ DocumentTold(emitted').title = document'.title
           /\ DocumentTold(emitted').status = document'.status
<1>1. emitted \in Seq(DocumentEvent)
  BY DEF DocumentInv, DocumentTypeOK
<1>2. emitted' = Append(emitted, e) /\ document'.title = d.title /\ document'.status = d.status
  <2>1. document' = [d EXCEPT !.root = AddDomainEvent(@, e)]
    BY DEF Emits
  <2> QED  BY <2>1, DocumentShape DEF Emits
<1>3. DocumentTold(Append(emitted, e)) = ApplyDocument(DocumentTold(emitted), e)
  BY <1>1, DocumentByEvent
<1> QED  BY <1>2, <1>3

\* A document's events tell its title and its status, whatever is edited, published
\* and archived in whichever order (document.aggregate.ts, apply): what rehydrate
\* would make of them is the instance's.
THEOREM DocumentTellsTruth == DocumentSpec => []DocumentTellsAll
<1>1. DocumentInit => DocumentInv
  <2>1. <<>> \in Seq(DocumentEvent) /\ Len(<<>>) = 0 /\ 0 <= MaxDocumentEvents
    BY DocumentAssumption
  <2>2. DocumentInit => DocumentTypeOK
    BY <2>1, BlankType, DocumentAssumption DEF DocumentInit, DocumentTypeOK
  <2> QED  BY <2>2 DEF DocumentInit, DocumentInv, Blank
<1>2. DocumentInv /\ [DocumentNext]_documentVars => DocumentInv'
  <2> SUFFICES ASSUME DocumentInv, [DocumentNext]_documentVars PROVE DocumentInv'
    OBVIOUS
  <2> DEFINE Agree == /\ DocumentTold(emitted).title = document.title
                      /\ DocumentTold(emitted).status = document.status
  <2>0. DocumentTypeOK'
    BY DocumentTypeStep DEF DocumentInv
  <2>1. /\ document \in [live : BOOLEAN, title : Titles, content : Contents,
                         status : DocumentStatus, tags : SUBSET DocumentTags,
                         embeddingStatus : EmbeddingStatus, errorMessage : BOOLEAN,
                         root : DocumentRoot]
        /\ emitted \in Seq(DocumentEvent) /\ DocumentTold(emitted) \in Document
    BY DocumentShape, DocumentByEvent DEF DocumentInv, DocumentTypeOK
  <2>2. ASSUME NEW t \in Titles, NEW c \in Contents, CreateDocument(t, c) PROVE Agree'
    <3> DEFINE d == [Blank EXCEPT !.live = TRUE, !.title = t, !.content = c]
               e == [type |-> "DocumentCreated", title |-> t]
    <3>0. Blank.status = "DRAFT" /\ Blank \in Document
      BY BlankType DEF Blank
    <3>1. d \in Document /\ d.title = t /\ d.status = "DRAFT"
      BY <3>0, DocumentShape
    <3>2. e \in DocumentEvent /\ e.type = "DocumentCreated" /\ e.title = t
      BY DEF DocumentEvent
    <3>3. Emits(d, e)
      BY <2>2 DEF CreateDocument
    <3> HIDE DEF d, e
    <3>4. /\ ApplyDocument(DocumentTold(emitted), e).title = t
          /\ ApplyDocument(DocumentTold(emitted), e).status = "DRAFT"
      BY <2>1, <3>2, ApplyDocumentSets
    <3> QED  BY <3>1, <3>2, <3>3, <3>4, EmitsFollows
  <2>3. ASSUME NEW c \in Contents, UpdateContent(c) PROVE Agree'
    <3> DEFINE d == [document EXCEPT !.content = c, !.embeddingStatus = "STALE"]
               e == [type |-> "DocumentContentUpdated"]
    <3>1. d \in Document /\ d.title = document.title /\ d.status = document.status
      BY <2>1, DocumentShape DEF EmbeddingStatus
    <3>2. e \in DocumentEvent /\ e.type = "DocumentContentUpdated"
      BY DEF DocumentEvent
    <3>3. Emits(d, e) /\ Agree
      BY <2>3 DEF UpdateContent, DocumentInv
    <3> HIDE DEF d, e
    <3>4. /\ ApplyDocument(DocumentTold(emitted), e).title = document.title
          /\ ApplyDocument(DocumentTold(emitted), e).status = document.status
      BY <2>1, <3>2, <3>3, ApplyDocumentSets
    <3> QED  BY <3>1, <3>2, <3>3, <3>4, EmitsFollows
  <2>4. ASSUME NEW t \in Titles, UpdateTitle(t) PROVE Agree'
    <3> DEFINE d == [document EXCEPT !.title = t]
               e == [type |-> "DocumentTitleUpdated", title |-> t]
    <3>1. d \in Document /\ d.title = t /\ d.status = document.status
      BY <2>1, DocumentShape
    <3>2. e \in DocumentEvent /\ e.type = "DocumentTitleUpdated" /\ e.title = t
      BY DEF DocumentEvent
    <3>3. Emits(d, e) /\ Agree
      BY <2>4 DEF UpdateTitle, DocumentInv
    <3> HIDE DEF d, e
    <3>4. /\ ApplyDocument(DocumentTold(emitted), e).title = t
          /\ ApplyDocument(DocumentTold(emitted), e).status = document.status
      BY <2>1, <3>2, <3>3, ApplyDocumentSets
    <3> QED  BY <3>1, <3>2, <3>3, <3>4, EmitsFollows
  <2>5. ASSUME Publish PROVE Agree'
    <3> DEFINE d == [document EXCEPT !.status = "PUBLISHED"]
               e == [type |-> "DocumentPublished"]
    <3>1. d \in Document /\ d.title = document.title /\ d.status = "PUBLISHED"
      BY <2>1, DocumentShape DEF DocumentStatus
    <3>2. e \in DocumentEvent /\ e.type = "DocumentPublished"
      BY DEF DocumentEvent
    <3>3. Emits(d, e) /\ Agree
      BY <2>5 DEF Publish, DocumentInv
    <3> HIDE DEF d, e
    <3>4. /\ ApplyDocument(DocumentTold(emitted), e).title = document.title
          /\ ApplyDocument(DocumentTold(emitted), e).status = "PUBLISHED"
      BY <2>1, <3>2, <3>3, ApplyDocumentSets
    <3> QED  BY <3>1, <3>2, <3>3, <3>4, EmitsFollows
  <2>6. ASSUME Archive PROVE Agree'
    <3> DEFINE d == [document EXCEPT !.status = "ARCHIVED"]
               e == [type |-> "DocumentArchived"]
    <3>1. d \in Document /\ d.title = document.title /\ d.status = "ARCHIVED"
      BY <2>1, DocumentShape DEF DocumentStatus
    <3>2. e \in DocumentEvent /\ e.type = "DocumentArchived"
      BY DEF DocumentEvent
    <3>3. Emits(d, e) /\ Agree
      BY <2>6 DEF Archive, DocumentInv
    <3> HIDE DEF d, e
    <3>4. /\ ApplyDocument(DocumentTold(emitted), e).title = document.title
          /\ ApplyDocument(DocumentTold(emitted), e).status = "ARCHIVED"
      BY <2>1, <3>2, <3>3, ApplyDocumentSets
    <3> QED  BY <3>1, <3>2, <3>3, <3>4, EmitsFollows
  <2>7. CASE (\E tag \in DocumentTags : ToggleTag(tag)) \/ PullDocumentEvents \/ TakeText
             \/ UpsertVector \/ UpdateEmbedding \/ MarkEmbeddingFailed \/ MarkEmbeddingStale
             \/ UNCHANGED documentVars
    <3>1. /\ document'.live = document.live /\ document'.title = document.title
          /\ document'.status = document.status /\ emitted' = emitted
      BY <2>1, <2>7 DEF ToggleTag, PullDocumentEvents, TakeText, UpsertVector, UpdateEmbedding,
           MarkEmbeddingFailed, MarkEmbeddingStale, documentVars
    <3> QED  BY <2>0, <3>1 DEF DocumentInv
  <2>8. Agree' => DocumentInv'
    BY <2>0 DEF DocumentInv
  <2> HIDE DEF Agree
  <2> QED
    BY <2>2, <2>3, <2>4, <2>5, <2>6, <2>7, <2>8 DEF DocumentNext
<1>3. DocumentInv => DocumentTellsAll
  BY DEF DocumentInv, DocumentTellsAll, DocumentTold
<1> QED  BY <1>1, <1>2, <1>3, PTL DEF DocumentSpec

-----------------------------------------------------------------------------
(* The aggregates side by side. *)

\* A behaviour of them together is one of each: the others stand still.
THEOREM EachAlone ==
    AggregatesSpec =>
        /\ UserSpec /\ TenantSpec /\ DocumentSpec /\ BillingAggregateSpec
        /\ SyncSpec /\ PipelineSpec /\ MembershipSpec /\ ContextSpec
<1>1. AggregatesInit =>
        /\ UserInit /\ TenantInit /\ DocumentInit /\ BillingAggregateInit
        /\ SyncInit /\ PipelineInit /\ MembershipInit /\ ContextInit
  BY DEF AggregatesInit
<1>2. [AggregatesNext]_aggregateVars =>
        /\ [UserNext]_userVars /\ [TenantNext]_tenantVars /\ [DocumentNext]_documentVars
        /\ [BillingAggregateNext]_billingVars /\ [SyncNext]_syncVars
        /\ [PipelineNext]_pipelineVars /\ [MembershipNext]_memberVars
        /\ [ContextNext]_contextVars
  <2> SUFFICES ASSUME [AggregatesNext]_aggregateVars
               PROVE  /\ UserNext \/ UNCHANGED userVars
                      /\ TenantNext \/ UNCHANGED tenantVars
                      /\ DocumentNext \/ UNCHANGED documentVars
                      /\ BillingAggregateNext \/ UNCHANGED billingVars
                      /\ SyncNext \/ UNCHANGED syncVars
                      /\ PipelineNext \/ UNCHANGED pipelineVars
                      /\ MembershipNext \/ UNCHANGED memberVars
                      /\ ContextNext \/ UNCHANGED contextVars
    OBVIOUS
  <2>1. CASE AggregatesNext
    BY <2>1, Zenon DEF AggregatesNext
  <2>2. CASE UNCHANGED aggregateVars
    BY <2>2, Zenon DEF aggregateVars
  <2> QED  BY <2>1, <2>2
<1> QED
  BY <1>1, <1>2, PTL
     DEF AggregatesSpec, UserSpec, TenantSpec, DocumentSpec, BillingAggregateSpec, SyncSpec,
         PipelineSpec, MembershipSpec, ContextSpec

\* Whichever aggregate, pipeline or request runs, and for every value of the
\* constants, all of them keep their types.
THEOREM AggregatesTypeCorrect == AggregatesSpec => []AggregatesTypeOK
BY EachAlone, UserTypeCorrect, TenantTypeCorrect, DocumentTypeCorrect,
   BillingAggregateTypeCorrect, SyncTypeCorrect, PipelineTypeCorrect, MembershipTypeCorrect,
   ContextTypeCorrect, PTL DEF AggregatesTypeOK

\* An instance is what its events say, whatever was called on it and saved: a bill
\* and a membership are the same after a reload, and a document's events tell its
\* title and status (billing.aggregate.ts:152, tenant-membership.aggregate.ts,
\* document.aggregate.ts).
THEOREM AlwaysReloads == AggregatesSpec => []ReloadAgrees
BY EachAlone, BillReloads, DocumentTellsTruth, MembershipReloads, PTL DEF ReloadAgrees

\* What is proved of each holds of them side by side, for every value of the
\* constants: lives are legal and instances follow their events, contexts and limits
\* are kept, what is SYNCED is current and was sent, what is reloaded agrees, and the
\* audits tell what happened.
THEOREM AggregatesCorrect ==
    AggregatesSpec => [](/\ LegalLife /\ InstanceFollowsEvents /\ ContextKept /\ WithinLimit
                         /\ EmbeddingIsCurrent /\ ReloadAgrees /\ SyncedIsSent
                         /\ AuditConsistent /\ AuditTellsCaller)
BY EachAlone, LegalLives, InstancesFollow, ContextAlwaysKept, MembersWithinLimit,
   EmbeddingWasCurrent, AlwaysReloads, SyncedWasSent, AuditTrailConsistent, AuditAlwaysTells, PTL

=============================================================================
