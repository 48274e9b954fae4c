SPECIFICATION FairPipelineSpec
CONSTANTS
    m1 = m1
    m2 = m2
    Messages <- TwoMessages
    Kind <- Greeting
    MaxPosts <- GreetingTwice
    MaxThreads = 2
INVARIANT SavedThenHandledOnce
INVARIANT TriggerAnsweredOnce
PROPERTY DeliveredIsHandled
